----------------------------- MODULE DbMapProofs -----------------------------
(***************************************************************************)
(* Every step leaves the files and the map in step: what the chains hold is *)
(* what the completed calls have stored, and no index record drops off the  *)
(* lists, for any number of processes, keys, chains and records.            *)
(***************************************************************************)
EXTENDS DbListProofs

\* Most leaves are first-order: Zenon first, the others go to the SMT solver.
USE ZenonT(3), SMT

-----------------------------------------------------------------------------
(* What a step of one process leaves of the map.                            *)

\* The map changes only at the key of a call that has its chain locked.
KvSafe(p) ==
  \A k \in Keys : kv'[k] = kv[k] \/ (InChain(p) /\ call[p].op # "fetch" /\ call[p].key = k)

LEMMA KvOthers ==
  ASSUME NEW p \in Proc, NEW q \in Proc \ {p}, LockInv, KvSafe(p), InChain(q)
  PROVE  kv'[call[q].key] = kv[call[q].key]
<1>1. call[q].key \in Keys
  BY InKeys
<1>2. ~(InChain(p) /\ call[p].op # "fetch" /\ call[p].key = call[q].key)
  BY LockInvExcludes DEF ChainExclusion, chainoff
<1> QED BY <1>1, <1>2 DEF KvSafe

LEMMA MapPlaces ==
  ASSUME NEW p \in Proc, NEW l, NEW h, LockInv, FileInv, StepTo(p, l, h), KvSafe(p), MapPlace(p)',
         \A q \in Proc : MapPlace(q),
         \A q \in Proc \ {p} : pc[q] \in FilledLabels => dat'[db[q].datoff] = dat[db[q].datoff]
  PROVE  \A q \in Proc : MapPlace(q)'
<1> SUFFICES ASSUME NEW q \in Proc \ {p} PROVE MapPlace(q)'
  OBVIOUS
<1>1. pc'[q] = pc[q] /\ db'[q] = db[q] /\ call'[q] = call[q]
  BY StepToAt
<1>2. MapPlace(q) /\ (Between(q)' <=> Between(q))
  BY <1>1 DEF Between, Torn
<1>3. Between(q) \/ pc[q] \in StoreLabels \ {"overwrite"} => kv'[call[q].key] = kv[call[q].key]
  <2>1. pc[q] \in StoreLabels => InChain(q)
    BY DEF StoreLabels, InChain, OutLabels
  <2>2. Between(q) => InChain(q)
    BY <1>2, BetweenInChain
  <2>3. InChain(q) => kv'[call[q].key] = kv[call[q].key]
    BY KvOthers
  <2>4. CASE Between(q)
    BY <2>2, <2>3, <2>4
  <2>5. CASE pc[q] \in StoreLabels
    BY <2>1, <2>3, <2>5
  <2> QED BY <2>4, <2>5
<1> QED BY <1>1, <1>2, <1>3 DEF MapPlace

\* Every record on a chain after the step was there before with the same key and data,
\* or the step has put it there with what the map now says.
LEMMA OnMapKeeps ==
  ASSUME NEW p \in Proc, NEW l, NEW h, LockInv, FileInv, StepTo(p, l, h), NEW own, NEW own2, OnMap(own),
         \A o \in Records : own2[o] \in Chains =>
           \/ /\ own[o] = own2[o] /\ rec'[o].key = rec[o].key /\ rec'[o].datoff = rec[o].datoff
              /\ kv'[rec[o].key] = kv[rec[o].key] /\ dat'[rec[o].datoff] = dat[rec[o].datoff]
              /\ pc[p] \in BlankLabels /\ db[p].idxoff = o => l \in BlankLabels /\ h.idxoff = o
           \/ /\ kv'[rec'[o].key] # None
              /\ dat'[rec'[o].datoff] = kv'[rec'[o].key] \/ (l \in BlankLabels /\ h.idxoff = o)
  PROVE  OnMap(own2)'
<1>1. /\ pc'[p] = l /\ db'[p] = h
      /\ \A q \in Proc \ {p} : pc'[q] = pc[q] /\ db'[q] = db[q]
  BY StepToAt
<1> SUFFICES ASSUME NEW o \in Records, own2[o] \in Chains
             PROVE  /\ kv'[rec'[o].key] # None
                    /\ \/ dat'[rec'[o].datoff] = kv'[rec'[o].key]
                       \/ \E q \in Proc : pc'[q] \in BlankLabels /\ db'[q].idxoff = o
  BY DEF OnMap, BlankLabels
<1>2. CASE /\ kv'[rec'[o].key] # None
           /\ dat'[rec'[o].datoff] = kv'[rec'[o].key] \/ (l \in BlankLabels /\ h.idxoff = o)
  BY <1>1, <1>2
<1>3. CASE /\ own[o] = own2[o] /\ rec'[o].key = rec[o].key /\ rec'[o].datoff = rec[o].datoff
           /\ kv'[rec[o].key] = kv[rec[o].key] /\ dat'[rec[o].datoff] = dat[rec[o].datoff]
           /\ pc[p] \in BlankLabels /\ db[p].idxoff = o => l \in BlankLabels /\ h.idxoff = o
  <2>1. /\ kv[rec[o].key] # None
        /\ \/ dat[rec[o].datoff] = kv[rec[o].key]
           \/ \E q \in Proc : pc[q] \in BlankLabels /\ db[q].idxoff = o
    BY <1>3 DEF OnMap, BlankLabels
  <2> QED BY <1>1, <1>3, <2>1
<1> QED BY <1>2, <1>3

\* Every key of the map stays on its chain, or p is between taking it off and linking it.
LEMMA KeptKeeps ==
  ASSUME NEW p \in Proc, NEW l, NEW h, LockInv, FileInv, StepTo(p, l, h), NEW own, NEW own2, Kept(own),
         \A o \in Records : own[o] \in Chains =>
           \/ own2[o] = own[o] /\ rec'[o].key = rec[o].key
           \/ Between(p)' /\ call'[p].key = rec[o].key,
         \A k \in Keys : kv'[k] # None =>
           kv[k] # None \/ \E o \in Records : own2[o] = Hash[k] /\ rec'[o].key = k,
         Between(p) => \/ Between(p)' /\ call'[p].key = call[p].key
                       \/ kv'[call[p].key] = None
                       \/ \E o \in Records : own2[o] = Hash[call[p].key] /\ rec'[o].key = call[p].key
  PROVE  Kept(own2)'
<1>1. \A q \in Proc \ {p} : (Between(q)' <=> Between(q)) /\ call'[q] = call[q]
  BY StepToAt DEF Between, Torn
<1> SUFFICES ASSUME NEW k \in Keys, kv'[k] # None
             PROVE  \/ \E o \in Records : own2[o] = Hash[k] /\ rec'[o].key = k
                    \/ \E q \in Proc : Between(q)' /\ call'[q].key = k
  BY DEF Kept
<1>2. CASE \E o \in Records : own2[o] = Hash[k] /\ rec'[o].key = k
  BY <1>2
<1>3. CASE \E o \in Records : own[o] = Hash[k] /\ rec[o].key = k
  <2>1. PICK o \in Records : own[o] = Hash[k] /\ rec[o].key = k
    BY <1>3
  <2>2. own[o] \in Chains
    BY <2>1, Places
  <2> QED BY <2>1, <2>2
<1>4. CASE \E q \in Proc : Between(q) /\ call[q].key = k
  <2>1. PICK q \in Proc : Between(q) /\ call[q].key = k
    BY <1>4
  <2>2. CASE q = p
    BY <2>1, <2>2
  <2>3. CASE q # p
    BY <1>1, <2>1, <2>3
  <2> QED BY <2>2, <2>3
<1> QED BY <1>2, <1>3, <1>4 DEF Kept

\* A step that changes neither the records on chains nor the map.
LEMMA MapSame ==
  ASSUME NEW p \in Proc, NEW l, NEW h, NEW own, NEW nx, NEW rank, AllInv(own, nx, rank),
         StepTo(p, l, h), SameData, kv' = kv, NEW own2,
         \A o \in Records : own[o] \in Chains \/ own2[o] \in Chains => own2[o] = own[o],
         pc[p] \in BlankLabels => l \in BlankLabels /\ h.idxoff = db[p].idxoff,
         Between(p) => Between(p)' /\ call'[p].key = call[p].key,
         MapPlace(p)'
  PROVE  MapInv(own2)'
<1>1. LockInv /\ FileInv /\ OnMap(own) /\ Kept(own) /\ \A q \in Proc : MapPlace(q)
  BY DEF AllInv, MapInv
<1>2. rec' = rec /\ dat' = dat /\ KvSafe(p)
  BY DEF SameData, KvSafe
<1>3. OnMap(own2)'
  BY <1>1, <1>2, OnMapKeeps
<1>4. Kept(own2)'
  BY <1>1, <1>2, KeptKeeps
<1>5. \A q \in Proc : MapPlace(q)'
  BY <1>1, <1>2, MapPlaces
<1> QED BY <1>3, <1>4, <1>5 DEF MapInv

-----------------------------------------------------------------------------
(* Steps outside the part of a call that changes the files.                 *)

WorkLabels == StoreLabels \cup DelLabels

OutStep(p) ==
  \E l \in Labels \ WorkLabels : \E h :
    /\ StepTo(p, l, h) /\ SameData /\ kv' = kv /\ pc[p] \notin WorkLabels
    /\ h.gone => db[p].gone /\ pc[p] # "unlock"

LEMMA OutMap ==
  ASSUME NEW p \in Proc, NEW own, NEW nx, NEW rank, AllInv(own, nx, rank), OutStep(p)
  PROVE  MapInv(own)'
<1>1. PICK l \in Labels \ WorkLabels : \E h :
        /\ StepTo(p, l, h) /\ SameData /\ kv' = kv /\ pc[p] \notin WorkLabels
        /\ h.gone => db[p].gone /\ pc[p] # "unlock"
  BY DEF OutStep
<1>2. PICK h : /\ StepTo(p, l, h) /\ SameData /\ kv' = kv /\ pc[p] \notin WorkLabels
               /\ h.gone => db[p].gone /\ pc[p] # "unlock"
  BY <1>1
<1>3. LockInv /\ FileInv /\ MapPlace(p)
  BY DEF AllInv, MapInv
<1>4. pc'[p] = l /\ db'[p] = h
  BY <1>2, <1>3, StepToAt
<1>5. /\ \A x \in GoneLabels : x # "unlock" => x \in WorkLabels
      /\ FilledLabels \subseteq WorkLabels /\ BlankLabels \subseteq WorkLabels
      /\ {"delhead", "delunlink"} \subseteq WorkLabels /\ "overwrite" \in WorkLabels /\ "delunlock" \in WorkLabels
  BY DEF GoneLabels, FilledLabels, NewLabels, BlankLabels, WorkLabels, StoreLabels, DelLabels
<1>6. ~Between(p) /\ ~h.gone
  BY <1>2, <1>3, <1>5 DEF Between, Torn, MapPlace
<1>7. MapPlace(p)'
  BY <1>4, <1>5, <1>6 DEF MapPlace, Between, Torn, WorkLabels
<1> QED BY <1>2, <1>5, <1>6, <1>7, MapSame

LEMMA Labelled ==
  /\ {"idle", "dead", "unlock", "findlock", "findptr", "findrec", "readdat", "scanlock", "scanrec",
      "scandat", "scanunlock"} = Labels \ WorkLabels
  /\ WorkLabels \subseteq Labels
BY DEF Labels, WorkLabels, StoreLabels, DelLabels

LEMMA CallsOut ==
  ASSUME NEW p \in Proc, LockInv, FileInv, Begin(p) \/ Reopen(p) \/ UnlockChain(p), pc'[p] # "dead"
  PROVE  OutStep(p)
<1>1. ASSUME NEW l \in {"idle", "findlock", "scanlock"}, NEW h, NEW c, pc' = [pc EXCEPT ![p] = l],
             db' = [db EXCEPT ![p] = h], call' = [call EXCEPT ![p] = c] \/ call' = call,
             UNCHANGED <<files, kv>>, pc[p] \in {"idle", "dead", "unlock"},
             h.gone => db[p].gone /\ pc[p] # "unlock"
      PROVE  OutStep(p)
  <2>1. \A q \in Proc \ {p} : call'[q] = call[q]
    BY <1>1 DEF LockInv, LockType
  <2>2. StepTo(p, l, h) /\ SameData
    BY <1>1, <2>1 DEF StepTo, SameData, files
  <2> QED BY <1>1, <2>2, Labelled DEF OutStep
<1>2. CASE Begin(p)
  <2>1. PICK c \in Menu[p] : Call(p, c) \/ StoreCall(p, c) \/ StoreBadFlag(p, c) \/ StoreBadLength(p, c) \/ Rewind(p, c)
    BY <1>2 DEF Begin
  <2>2. CASE Call(p, c) \/ StoreCall(p, c)
    <3>1. /\ pc' = [pc EXCEPT ![p] = "scanlock"] \/ pc' = [pc EXCEPT ![p] = "findlock"]
          /\ db' = db /\ UNCHANGED <<files, kv>> /\ call' = [call EXCEPT ![p] = c] /\ pc[p] = "idle"
      BY <2>2 DEF Call, StoreCall, Goto
    <3> QED BY <1>1, <3>1, StayPut
  <2>3. CASE StoreBadFlag(p, c) \/ Rewind(p, c)
    <3>1. pc' = pc /\ db' = db /\ UNCHANGED <<files, kv>> /\ call' = call /\ pc[p] = "idle"
      BY <2>3 DEF StoreBadFlag, Rewind
    <3> QED BY <1>1, <3>1, StayPut
  <2>4. CASE StoreBadLength(p, c)
    BY <2>4 DEF StoreBadLength, Exit, Goto, LockInv, LockType
  <2> QED BY <2>1, <2>2, <2>3, <2>4
<1>3. CASE Reopen(p)
  <2>1. /\ pc' = [pc EXCEPT ![p] = "idle"] /\ db' = db /\ UNCHANGED <<files, kv>>
        /\ call' = [call EXCEPT ![p] = NoCall] /\ pc[p] = "dead"
    BY <1>3 DEF Reopen, Goto
  <2> QED BY <1>1, <2>1, StayPut
<1>4. CASE UnlockChain(p)
  <2>1. /\ pc' = [pc EXCEPT ![p] = "idle"] /\ db' = [db EXCEPT ![p] = Scratch] /\ UNCHANGED <<files, kv>>
        /\ call' = [call EXCEPT ![p] = NoCall] /\ pc[p] = "unlock" /\ ~Scratch.gone
    BY <1>4 DEF UnlockChain, Goto, Scratch
  <2> QED BY <1>1, <2>1
<1> QED BY <1>2, <1>3, <1>4

\* _db_readidx leaves the rest of the handle alone.
LEMMA ReadIdxRest ==
  ASSUME NEW p \in Proc, LockInv, FileInv, NEW o
  PROVE  /\ ReadIdx(p, o).gone = db[p].gone /\ ReadIdx(p, o).idxoff = o
         /\ \A x, y : [ReadIdx(p, o) EXCEPT !.ptroff = x, !.offset = y].gone = db[p].gone
         /\ \A x, y : [ReadIdx(p, o) EXCEPT !.save = x, !.offset = y].gone = db[p].gone
<1>1. db[p] \in Handles
  BY Before
<1> QED BY <1>1 DEF ReadIdx, Handles

LEMMA FindOut ==
  ASSUME NEW p \in Proc, LockInv, FileInv,
         FindLock(p) \/ FindPtr(p) \/ FindNext(p) \/ NotFound(p) \/ FetchData(p) \/ Found(p),
         pc'[p] \notin {"readhead", "dellock", "overwrite"}
  PROVE  OutStep(p)
<1>1. ASSUME NEW l \in {"findptr", "findrec", "unlock", "readdat"}, NEW h, pc' = [pc EXCEPT ![p] = l],
             db' = [db EXCEPT ![p] = h], h.gone = db[p].gone
      PROVE  OutStep(p)
  <2>1. call' = call /\ UNCHANGED <<files, kv>> /\ pc[p] \in {"findlock", "findptr", "findrec", "readdat"}
    BY DEF FindLock, FindPtr, FindNext, NotFound, FetchData, Found, ReadPtr
  <2>2. StepTo(p, l, h) /\ SameData
    BY <1>1, <2>1 DEF StepTo, SameData, files
  <2> QED BY <1>1, <2>1, <2>2, Labelled DEF OutStep
<1>2. db[p] \in Handles /\ pc \in [Proc -> Labels]
  BY Before DEF LockInv, LockType
<1>3. CASE FindLock(p)
  <2>1. [db[p] EXCEPT !.ptroff = chainoff(p)].gone = db[p].gone
    BY <1>2 DEF Handles
  <2>2. pc' = [pc EXCEPT ![p] = "findptr"] /\ db' = [db EXCEPT ![p] = [db[p] EXCEPT !.ptroff = chainoff(p)]]
    BY <1>3 DEF FindLock, Goto
  <2> QED BY <1>1, <2>1, <2>2
<1>4. CASE FindPtr(p)
  <2>1. [db[p] EXCEPT !.offset = ptr[chainoff(p)]].gone = db[p].gone
    BY <1>2 DEF Handles
  <2>2. pc' = [pc EXCEPT ![p] = "findrec"] /\ db' = [db EXCEPT ![p] = [db[p] EXCEPT !.offset = ptr[chainoff(p)]]]
    BY <1>4 DEF FindPtr, Goto
  <2> QED BY <1>1, <2>1, <2>2
<1>5. CASE FindNext(p)
  <2>1. /\ db' = [db EXCEPT ![p] = [ReadIdx(p, db[p].offset) EXCEPT
                                      !.ptroff = db[p].offset, !.offset = ptr[db[p].offset]]]
        /\ pc' = pc /\ pc[p] = "findrec"
    BY <1>5 DEF FindNext
  <2>2. pc' = [pc EXCEPT ![p] = "findrec"]
    BY <2>1, StayPut
  <2>3. [ReadIdx(p, db[p].offset) EXCEPT !.ptroff = db[p].offset, !.offset = ptr[db[p].offset]].gone = db[p].gone
    BY ReadIdxRest
  <2> QED BY <1>1, <2>1, <2>2, <2>3
<1>6. CASE NotFound(p) \/ FetchData(p)
  <2>1. (pc' = [pc EXCEPT ![p] = "readhead"] \/ pc' = [pc EXCEPT ![p] = "unlock"]) /\ db' = db
    BY <1>6 DEF NotFound, FetchData, Goto
  <2> QED BY <1>1, <1>2, <2>1, StayPut
<1>7. CASE Found(p)
  <2>1. pc' = [pc EXCEPT ![p] = AfterFound(p)] /\ db' = [db EXCEPT ![p] = ReadIdx(p, db[p].offset)]
    BY <1>7 DEF Found, Goto
  <2>2. AfterFound(p) \in {"unlock", "readdat", "dellock", "overwrite"}
    BY DEF AfterFound
  <2>3. AfterFound(p) \in {"unlock", "readdat"}
    BY <1>2, <2>1, <2>2
  <2> QED BY <1>1, <2>1, <2>3, ReadIdxRest
<1> QED BY <1>3, <1>4, <1>5, <1>6, <1>7

LEMMA ScanOut ==
  ASSUME NEW p \in Proc, LockInv, FileInv, ScanStep(p), pc'[p] # "dead"
  PROVE  OutStep(p)
<1>1. ASSUME NEW l \in {"idle", "scanrec", "scandat", "scanunlock"}, NEW h, NEW c, pc' = [pc EXCEPT ![p] = l],
             db' = [db EXCEPT ![p] = h], call' = [call EXCEPT ![p] = c] \/ call' = call,
             h.gone => db[p].gone
      PROVE  OutStep(p)
  <2>0. \A q \in Proc \ {p} : call'[q] = call[q]
    BY <1>1 DEF LockInv, LockType
  <2>1. /\ UNCHANGED files /\ pc[p] \in {"scanlock", "scanrec", "scandat", "scanunlock"}
        /\ kv' = kv \/ ScanMisaligned(p)
    BY DEF ScanStep, ScanLock, ScanRecord, ScanEof, ScanData, ScanUnlock, ScanMisaligned
  <2>2. StepTo(p, l, h) /\ SameData
    BY <1>1, <2>0, <2>1 DEF StepTo, SameData, files
  <2>3. ~ScanMisaligned(p)
    BY DEF ScanMisaligned, Exit, Goto, LockInv, LockType
  <2> QED BY <1>1, <2>1, <2>2, <2>3, Labelled DEF OutStep
<1>2. CASE ScanLock(p) \/ ScanEof(p) \/ ScanData(p)
  <2>1. /\ db' = db /\ call' = call
        /\ \E l \in {"scanrec", "scanunlock"} : pc' = [pc EXCEPT ![p] = l]
    BY <1>2 DEF ScanLock, ScanEof, ScanData, Goto
  <2> QED BY <1>1, <2>1, StayPut
<1>3. CASE ScanRecord(p)
  <2>1. /\ db' = [db EXCEPT ![p] = ReadIdx(p, pos[p])] /\ call' = call
        /\ \E l \in {"scanrec", "scandat"} : pc' = [pc EXCEPT ![p] = l]
    BY <1>3 DEF ScanRecord, Goto
  <2>2. ReadIdx(p, pos[p]).gone = db[p].gone
    BY ReadIdxRest
  <2>3. PICK h : db' = [db EXCEPT ![p] = h] /\ h.gone = db[p].gone
    BY <2>1, <2>2
  <2>4. PICK l \in {"scanrec", "scandat"} : pc' = [pc EXCEPT ![p] = l]
    BY <2>1
  <2> QED BY <1>1, <2>1, <2>3, <2>4
<1>4. CASE ScanMisaligned(p)
  BY <1>4 DEF ScanMisaligned, Exit, Goto, LockInv, LockType
<1>5. CASE ScanUnlock(p)
  <2>1. /\ pc' = [pc EXCEPT ![p] = "idle"] /\ db' = [db EXCEPT ![p] = Scratch]
        /\ call' = [call EXCEPT ![p] = NoCall] /\ ~Scratch.gone
    BY <1>5 DEF ScanUnlock, Goto, Scratch
  <2> QED BY <1>1, <2>1
<1> QED BY <1>2, <1>3, <1>4, <1>5 DEF ScanStep

-----------------------------------------------------------------------------
(* Steps of db_store and db_delete that change neither chains nor the map.  *)

\* How far a step to label l with handle h may go.
Onward(p, l, h) ==
  /\ h.gone = db[p].gone /\ l # "delunlock" /\ pc[p] # "unlock"
  /\ db[p].gone => l \in GoneLabels \ {"unlock"}
  /\ Torn(p) <=> l \in {"delhead", "delunlink"}
  /\ pc[p] \in BlankLabels => l \in BlankLabels /\ h.idxoff = db[p].idxoff
  /\ l \in StoreLabels \ {"overwrite"} => pc[p] \in StoreLabels \ {"overwrite"} \/ db[p].gone
  /\ l \in DelLabels \cup {"overwrite"} => pc[p] \in DelLabels \cup {"overwrite"}
  /\ l \in FilledLabels => pc[p] \in FilledLabels /\ h.datoff = db[p].datoff

LEMMA OnwardPlace ==
  ASSUME NEW p \in Proc, NEW l, NEW h, LockInv, FileInv, MapPlace(p), StepTo(p, l, h), Onward(p, l, h),
         call' = call, kv' = kv, dat' = dat
  PROVE  MapPlace(p)' /\ (Between(p) => Between(p)')
<1>1. pc'[p] = l /\ db'[p] = h /\ call'[p] = call[p]
  BY StepToAt
<1>2. Between(p) => Between(p)'
  BY <1>1 DEF Between, Onward, Torn
<1>3. Between(p)' => Between(p)
  BY <1>1 DEF Between, Onward, Torn
<1> QED BY <1>1, <1>2, <1>3 DEF MapPlace, Onward

LEMMA OnwardMap ==
  ASSUME NEW p \in Proc, NEW l, NEW h, NEW own, NEW nx, NEW rank, AllInv(own, nx, rank),
         StepTo(p, l, h), Onward(p, l, h), SameData, call' = call, kv' = kv, NEW own2,
         \A o \in Records : own[o] \in Chains \/ own2[o] \in Chains => own2[o] = own[o]
  PROVE  MapInv(own2)'
<1>1. LockInv /\ FileInv /\ MapPlace(p) /\ dat' = dat
  BY DEF AllInv, MapInv, SameData
<1>2. MapPlace(p)' /\ (Between(p) => Between(p)')
  BY <1>1, OnwardPlace
<1> QED BY <1>2, MapSame DEF Onward

\* Which labels those steps lead to.
Steps == {<<"dellock", "delblank">>, <<"delfree", "delidx">>, <<"delhead", "delunlink">>,
          <<"freelock", "freeptr">>, <<"freeptr", "freerec">>, <<"freerec", "freerec">>,
          <<"freerec", "freetake">>, <<"freetake", "freeunlock">>, <<"freeunlock", "reuse">>,
          <<"freeunlock", "datlock">>, <<"freerec", "datlock">>, <<"readhead", "datlock">>,
          <<"readhead", "freelock">>,
          <<"datlock", "datseek">>, <<"datseek", "datwrite">>, <<"datunlock", "idxlock">>,
          <<"idxlock", "idxseek">>, <<"idxseek", "idxwrite">>, <<"idxunlock", "link">>}

LEMMA OnwardSteps ==
  ASSUME NEW p \in Proc, NEW l, NEW h, MapPlace(p), <<pc[p], l>> \in Steps, h.gone = db[p].gone,
         l = "delidx" => h.idxoff = db[p].idxoff, l = "link" => h.datoff = db[p].datoff,
         l = "freelock" => ~db[p].gone
  PROVE  Onward(p, l, h)
<1>1. db[p].gone => pc[p] \in GoneLabels
  BY DEF MapPlace
<1>2. /\ pc[p] # "unlock" /\ l # "delunlock" /\ l # "unlock"
      /\ Torn(p) <=> l \in {"delhead", "delunlink"}
      /\ pc[p] \in BlankLabels => l = "delidx" /\ l \in BlankLabels
  BY DEF Steps, Torn, BlankLabels
<1>3. pc[p] \in GoneLabels /\ l # "freelock" => l \in GoneLabels
  BY DEF Steps, GoneLabels
<1>4. l \in StoreLabels \ {"overwrite"} => pc[p] \in StoreLabels \ {"overwrite"}
  BY DEF Steps, StoreLabels
<1>5. l \in DelLabels \cup {"overwrite"} => pc[p] \in DelLabels \cup {"overwrite"}
  BY DEF Steps, DelLabels
<1>6. l \in FilledLabels => pc[p] \in FilledLabels /\ l = "link"
  BY DEF Steps, FilledLabels, NewLabels
<1> QED BY <1>1, <1>2, <1>3, <1>4, <1>5, <1>6 DEF Onward

OnwardStep(p) ==
  \E l, h : /\ StepTo(p, l, h) /\ SameData /\ call' = call /\ kv' = kv
            /\ <<pc[p], l>> \in Steps /\ h.gone = db[p].gone
            /\ l = "delidx" => h.idxoff = db[p].idxoff
            /\ l = "link" => h.datoff = db[p].datoff
            /\ l = "freelock" => ~db[p].gone

LEMMA OnwardStepMap ==
  ASSUME NEW p \in Proc, NEW own, NEW nx, NEW rank, AllInv(own, nx, rank), OnwardStep(p), NEW own2,
         \A o \in Records : own[o] \in Chains \/ own2[o] \in Chains => own2[o] = own[o]
  PROVE  MapInv(own2)'
<1>1. PICK l, h : /\ StepTo(p, l, h) /\ SameData /\ call' = call /\ kv' = kv
                  /\ <<pc[p], l>> \in Steps /\ h.gone = db[p].gone
                  /\ l = "delidx" => h.idxoff = db[p].idxoff
                  /\ l = "link" => h.datoff = db[p].datoff
                  /\ l = "freelock" => ~db[p].gone
  BY DEF OnwardStep
<1>2. MapPlace(p)
  BY DEF AllInv, MapInv
<1>3. Onward(p, l, h)
  BY <1>1, <1>2, OnwardSteps
<1> QED BY <1>1, <1>3, OnwardMap

\* The locks, and the pointers of the free list: the handle stays.
LEMMA LocksOnward ==
  ASSUME NEW p \in Proc, LockInv, FileInv,
         DelLock(p) \/ DelHead(p) \/ FreeLock(p) \/ FreeTake(p) \/ FreeUnlock(p) \/ DatLock(p) \/ DatUnlock(p)
           \/ IdxLock(p) \/ IdxUnlock(p)
  PROVE  OnwardStep(p)
<1>1. SameData /\ call' = call /\ kv' = kv /\ db' = db
  BY DEF DelLock, DelHead, FreeLock, FreeTake, FreeUnlock, DatLock, DatUnlock, IdxLock, IdxUnlock,
         WritePtr, SameData, files
<1>2. \E l : pc' = [pc EXCEPT ![p] = l] /\ <<pc[p], l>> \in Steps /\ l # "freelock"
  <2>1. CASE DelLock(p) \/ DelHead(p) \/ FreeLock(p) \/ FreeTake(p)
    BY <2>1 DEF DelLock, DelHead, FreeLock, FreeTake, Goto, Steps
  <2>2. CASE DatLock(p) \/ DatUnlock(p) \/ IdxLock(p) \/ IdxUnlock(p)
    BY <2>2 DEF DatLock, DatUnlock, IdxLock, IdxUnlock, Goto, Steps
  <2>3. CASE FreeUnlock(p)
    <3>1. /\ pc[p] = "freeunlock" \/ (pc[p] = "freerec" /\ db[p].offset = 0)
          /\ pc' = [pc EXCEPT ![p] = IF db[p].offset = 0 THEN "datlock" ELSE "reuse"]
      BY <2>3 DEF FreeUnlock, Goto
    <3> QED BY <3>1 DEF Steps
  <2> QED BY <2>1, <2>2, <2>3
<1>3. PICK l : pc' = [pc EXCEPT ![p] = l] /\ <<pc[p], l>> \in Steps /\ l # "freelock"
  BY <1>2
<1>4. StepTo(p, l, db[p])
  BY <1>1, <1>3, StayPut DEF StepTo
<1> QED BY <1>1, <1>3, <1>4 DEF OnwardStep

\* Reading the free list or the chain head, and the seeks.
LEMMA ReadsOnward ==
  ASSUME NEW p \in Proc, LockInv, FileInv,
         DelFree(p) \/ FreePtr(p) \/ FreeNext(p) \/ FreeFound(p) \/ ReadHead(p) \/ DatSeek(p) \/ IdxSeek(p)
  PROVE  OnwardStep(p)
<1>1. ASSUME NEW l, NEW h, pc' = [pc EXCEPT ![p] = l], db' = [db EXCEPT ![p] = h], h.gone = db[p].gone,
             <<pc[p], l>> \in Steps, l = "delidx" => h.idxoff = db[p].idxoff,
             l = "freelock" => ~db[p].gone, l # "link"
      PROVE  OnwardStep(p)
  <2>1. SameData /\ call' = call /\ kv' = kv
    BY DEF DelFree, FreePtr, FreeNext, FreeFound, ReadHead, DatSeek, IdxSeek, ReadPtr, SameData, files
  <2>2. StepTo(p, l, h)
    BY <1>1, <2>1 DEF StepTo
  <2> QED BY <1>1, <2>1, <2>2 DEF OnwardStep
<1>2. db[p] \in Handles /\ db \in [Proc -> Handles]
  BY Before DEF HandleType
<1>3. CASE DelFree(p)
  <2> DEFINE h == [db[p] EXCEPT !.head = ptr[FREE_OFF], !.save = db[p].ptrval]
  <2>1. db' = [db EXCEPT ![p] = h]
    BY <1>2, <1>3 DEF DelFree, Handles
  <2>2. h.gone = db[p].gone /\ h.idxoff = db[p].idxoff
    BY <1>2 DEF Handles
  <2>3. pc[p] = "delfree" /\ pc' = [pc EXCEPT ![p] = "delidx"]
    BY <1>3 DEF DelFree, Goto
  <2>4. <<pc[p], "delidx">> \in Steps
    BY <2>3 DEF Steps
  <2> HIDE DEF h
  <2> QED BY <1>1, <2>1, <2>2, <2>3, <2>4
<1>4. CASE FreePtr(p)
  <2> DEFINE h == [db[p] EXCEPT !.offset = ptr[FREE_OFF], !.save = FREE_OFF]
  <2>1. db' = [db EXCEPT ![p] = h]
    BY <1>2, <1>4 DEF FreePtr, Handles
  <2>2. h.gone = db[p].gone
    BY <1>2 DEF Handles
  <2>3. pc[p] = "freeptr" /\ pc' = [pc EXCEPT ![p] = "freerec"]
    BY <1>4 DEF FreePtr, Goto
  <2>4. <<pc[p], "freerec">> \in Steps
    BY <2>3 DEF Steps
  <2> HIDE DEF h
  <2> QED BY <1>1, <2>1, <2>2, <2>3, <2>4
<1>5. CASE FreeNext(p)
  <2> DEFINE h == [ReadIdx(p, db[p].offset) EXCEPT !.save = db[p].offset, !.offset = ptr[db[p].offset]]
  <2>1. db' = [db EXCEPT ![p] = h] /\ pc[p] = "freerec" /\ pc' = pc
    BY <1>5 DEF FreeNext
  <2>2. h.gone = db[p].gone /\ pc' = [pc EXCEPT ![p] = "freerec"]
    BY <2>1, ReadIdxRest, StayPut
  <2>3. <<pc[p], "freerec">> \in Steps
    BY <2>1 DEF Steps
  <2> HIDE DEF h
  <2> QED BY <1>1, <2>1, <2>2, <2>3
<1>6. CASE FreeFound(p)
  <2>1. /\ db' = [db EXCEPT ![p] = ReadIdx(p, db[p].offset)]
        /\ pc[p] = "freerec" /\ pc' = [pc EXCEPT ![p] = "freetake"]
    BY <1>6 DEF FreeFound, Goto
  <2>2. <<pc[p], "freetake">> \in Steps
    BY <2>1 DEF Steps
  <2> QED BY <1>1, <2>1, <2>2, ReadIdxRest
<1>7. CASE ReadHead(p)
  <2> DEFINE h == [db[p] EXCEPT !.head = ptr[chainoff(p)]]
             l == IF db[p].gone THEN "datlock" ELSE "freelock"
  <2>1. db' = [db EXCEPT ![p] = h] /\ pc' = [pc EXCEPT ![p] = l] /\ pc[p] = "readhead"
    BY <1>7 DEF ReadHead, Goto
  <2>2. h.gone = db[p].gone
    BY <1>2 DEF Handles
  <2>3. <<pc[p], l>> \in Steps /\ (l = "freelock" => ~db[p].gone) /\ l # "link" /\ l # "delidx"
    BY <2>1 DEF Steps
  <2> HIDE DEF h, l
  <2> QED BY <1>1, <2>1, <2>2, <2>3
<1>8. CASE DatSeek(p)
  <2> DEFINE h == [db[p] EXCEPT !.datoff = datsize, !.datlen = DatLen[call[p].data]]
  <2>1. db' = [db EXCEPT ![p] = h]
    BY <1>2, <1>8 DEF DatSeek, Handles
  <2>2. h.gone = db[p].gone
    BY <1>2 DEF Handles
  <2>3. pc[p] = "datseek" /\ pc' = [pc EXCEPT ![p] = "datwrite"]
    BY <1>8 DEF DatSeek, Goto
  <2>4. <<pc[p], "datwrite">> \in Steps
    BY <2>3 DEF Steps
  <2> HIDE DEF h
  <2> QED BY <1>1, <2>1, <2>2, <2>3, <2>4
<1>9. CASE IdxSeek(p)
  <2> DEFINE h == [db[p] EXCEPT !.idxoff = idxsize]
  <2>1. db' = [db EXCEPT ![p] = h] /\ pc[p] = "idxseek" /\ pc' = [pc EXCEPT ![p] = "idxwrite"]
    BY <1>9 DEF IdxSeek, Goto
  <2>2. h.gone = db[p].gone
    BY <1>2 DEF Handles
  <2>3. <<pc[p], "idxwrite">> \in Steps
    BY <2>1 DEF Steps
  <2> HIDE DEF h
  <2> QED BY <1>1, <2>1, <2>2, <2>3
<1> QED BY <1>3, <1>4, <1>5, <1>6, <1>7, <1>8, <1>9

-----------------------------------------------------------------------------
(* The answers of _db_find_and_lock, and the ends of a process.             *)

LEMMA FindMap ==
  ASSUME NEW p \in Proc, NEW own, NEW nx, NEW rank, AllInv(own, nx, rank),
         NotFound(p) \/ Found(p), pc'[p] \in {"readhead", "dellock", "overwrite"}
  PROVE  MapInv(own)'
<1>1. LockInv /\ FileInv /\ MapPlace(p) /\ CallOK(p) /\ pc[p] = "findrec" /\ pc \in [Proc -> Labels]
  BY DEF AllInv, MapInv, NotFound, Found, LockInv, LockType
<1>2. SameData /\ call' = call /\ kv' = kv
  BY DEF NotFound, Found, SameData, files
<1>3. ~Between(p) /\ ~db[p].gone /\ pc[p] \notin BlankLabels
  BY <1>1 DEF MapPlace, Between, Torn, GoneLabels, BlankLabels
<1>4. ASSUME NEW l, NEW h, pc' = [pc EXCEPT ![p] = l], db' = [db EXCEPT ![p] = h], ~h.gone,
             \/ l = "readhead" /\ kv[call[p].key] = None /\ call[p].flag # "DB_REPLACE"
             \/ l \in {"dellock", "overwrite"} /\ (call[p].op = "store" => call[p].flag # "DB_INSERT")
      PROVE  MapInv(own)'
  <2>1. StepTo(p, l, h)
    BY <1>2, <1>4 DEF StepTo
  <2>2. pc'[p] = l /\ db'[p] = h
    BY <1>1, <2>1, StepToAt
  <2>3. ~Between(p)' /\ l \notin FilledLabels /\ l # "delunlock"
    BY <1>4, <2>2 DEF Between, Torn, FilledLabels, NewLabels
  <2>4. CASE l = "readhead"
    <3>1. "readhead" \notin DelLabels \cup {"overwrite"}
      BY DEF DelLabels
    <3>2. MapPlace(p)'
      BY <1>2, <1>4, <2>2, <2>3, <2>4, <3>1 DEF MapPlace
    <3> QED BY <1>2, <1>3, <2>1, <3>2, MapSame
  <2>5. CASE l \in {"dellock", "overwrite"}
    <3>1. l \notin StoreLabels \ {"overwrite"}
      BY <2>5 DEF StoreLabels
    <3>2. MapPlace(p)'
      BY <1>2, <1>4, <2>2, <2>3, <2>5, <3>1 DEF MapPlace
    <3> QED BY <1>2, <1>3, <2>1, <3>2, MapSame
  <2> QED BY <1>4, <2>4, <2>5
<1>5. CASE NotFound(p)
  <2>1. (pc' = [pc EXCEPT ![p] = "readhead"] /\ call[p].flag # "DB_REPLACE") \/ pc' = [pc EXCEPT ![p] = "unlock"]
    BY <1>5 DEF NotFound, Goto
  <2>2. pc' = [pc EXCEPT ![p] = "readhead"] /\ call[p].flag # "DB_REPLACE"
    BY <1>1, <2>1
  <2>3. db' = [db EXCEPT ![p] = db[p]] /\ kv[call[p].key] = None
    BY <1>1, <1>5, StayPut, MissNone DEF NotFound
  <2> QED BY <1>3, <1>4, <2>2, <2>3
<1>6. CASE Found(p)
  <2>1. pc' = [pc EXCEPT ![p] = AfterFound(p)] /\ db' = [db EXCEPT ![p] = ReadIdx(p, db[p].offset)]
    BY <1>6 DEF Found, Goto
  <2>2. AfterFound(p) \in {"dellock", "overwrite"}
    <3>1. AfterFound(p) \in {"unlock", "readdat", "dellock", "overwrite"}
      BY DEF AfterFound
    <3> QED BY <1>1, <2>1, <3>1
  <2>3. call[p].op = "store" => call[p].flag # "DB_INSERT"
    BY <2>2 DEF AfterFound
  <2>4. ~ReadIdx(p, db[p].offset).gone
    BY <1>1, <1>3, ReadIdxRest
  <2> QED BY <1>4, <2>1, <2>2, <2>3, <2>4
<1> QED BY <1>5, <1>6

\* The key of a db_store is on no chain once its old record is gone.
LEMMA GoneMiss ==
  ASSUME NEW p \in Proc, NEW own, NEW nx, NEW rank, AllInv(own, nx, rank),
         pc[p] \in MissLabels, NEW o \in Records, own[o] \in Chains
  PROVE  rec[o].key # call[p].key
<1>1. Hash[rec[o].key] = own[o] /\ Place(p, own, nx, rank)
  BY DEF AllInv, ListInv, OnFile
<1> QED BY <1>1 DEF Place, FindPlace, chainoff

LEMMA ExitMap ==
  ASSUME NEW p \in Proc, NEW own, NEW nx, NEW rank, AllInv(own, nx, rank),
         Exit(p), UNCHANGED files, ~Torn(p), pc[p] \notin BlankLabels, pc[p] # "unlock"
  PROVE  MapInv(own)'
<1>1. LockInv /\ FileInv /\ OnMap(own) /\ Kept(own) /\ \A q \in Proc : MapPlace(q)
  BY DEF AllInv, MapInv
<1>2. /\ StepTo(p, "dead", Scratch) /\ rec' = rec /\ dat' = dat
      /\ kv' = IF db[p].gone THEN [kv EXCEPT ![call[p].key] = None] ELSE kv
  BY DEF Exit, Goto, StepTo, files
<1>3. db[p].gone => InChain(p) /\ call[p].op # "fetch" /\ call[p].key \in Keys /\ pc[p] \in MissLabels
  <2> SUFFICES ASSUME db[p].gone PROVE InChain(p) /\ call[p].op # "fetch" /\ call[p].key \in Keys /\ pc[p] \in MissLabels
    OBVIOUS
  <2>1. Between(p) /\ pc[p] \in GoneLabels
    BY <1>1 DEF Between, MapPlace
  <2>2. pc[p] \in MissLabels
    BY <2>1 DEF GoneLabels, MissLabels, StoreLabels
  <2> QED BY <1>1, <2>1, <2>2, BetweenInChain
<1>4. \A k \in Keys : kv'[k] = kv[k] \/ (db[p].gone /\ k = call[p].key /\ kv'[k] = None)
  BY <1>1, <1>2, Before
<1>5. KvSafe(p)
  BY <1>3, <1>4 DEF KvSafe
<1>6. OnMap(own)'
  <2>1. ASSUME NEW o \in Records, own[o] \in Chains PROVE kv'[rec[o].key] = kv[rec[o].key]
    <3>1. rec[o].key \in Keys
      BY <2>1 DEF AllInv, ListInv, OnFile
    <3> QED BY <1>3, <1>4, <2>1, <3>1, GoneMiss
  <2> QED BY <1>1, <1>2, <2>1, OnMapKeeps
<1>7. Kept(own)'
  <2>1. Between(p) => kv'[call[p].key] = None
    BY <1>1, <1>2, <1>3, Before DEF Between
  <2>2. \A k \in Keys : kv'[k] # None => kv[k] # None
    BY <1>4
  <2> QED BY <1>1, <1>2, <2>1, <2>2, KeptKeeps
<1>8. MapPlace(p)'
  <2>1. pc'[p] = "dead" /\ db'[p] = Scratch /\ ~Scratch.gone
    BY <1>1, <1>2, StepToAt DEF Scratch
  <2> QED BY <2>1 DEF MapPlace, Between, Torn, FilledLabels, NewLabels, StoreLabels, DelLabels
<1>9. \A q \in Proc : MapPlace(q)'
  BY <1>1, <1>2, <1>5, <1>8, MapPlaces
<1> QED BY <1>6, <1>7, <1>9 DEF MapInv

-----------------------------------------------------------------------------
(* Writing the data file.                                                   *)

LEMMA WriteDatMap ==
  ASSUME NEW p \in Proc, NEW own, NEW nx, NEW rank, AllInv(own, nx, rank), DelBlank(p) \/ Overwrite(p) \/ Reuse(p)
  PROVE  MapInv(own)'
<1> DEFINE r == db[p].idxoff
           i == db[p].datoff
<1>1. /\ LockInv /\ FileInv /\ OnMap(own) /\ Kept(own) /\ (\A q \in Proc : MapPlace(q)) /\ DOMAIN dat = 1 .. DatCap
      /\ pc[p] \in {"delblank", "overwrite", "reuse"} /\ call[p].key \in Keys /\ CallOK(p)
  <2>1. LockInv /\ FileInv /\ OnMap(own) /\ Kept(own) /\ \A q \in Proc : MapPlace(q)
    BY DEF AllInv, MapInv
  <2>2. pc[p] \in {"delblank", "overwrite", "reuse"} /\ InChain(p)
    BY DEF DelBlank, Overwrite, Reuse, InChain, OutLabels
  <2> QED BY <2>1, <2>2, InKeys DEF FileInv, FileType, LockInv
<1>2. PICK d, l : /\ dat' = [dat EXCEPT ![i] = d] /\ StepTo(p, l, db[p]) /\ call' = call /\ rec' = rec
                  /\ \/ pc[p] = "delblank" /\ l = "delfree" /\ kv' = kv
                     \/ pc[p] = "overwrite" /\ l = "unlock" /\ kv' = [kv EXCEPT ![call[p].key] = call[p].data] /\ d = call[p].data
                     \/ pc[p] = "reuse" /\ l = "idxrewrite" /\ kv' = kv /\ d = call[p].data
  BY <1>1, StayPut DEF DelBlank, Overwrite, Reuse, WriteDat, StepTo, Goto
<1>3. /\ \A q \in Proc \ {p} : pc[q] \in FilledLabels => db[q].datoff # i
      /\ \A o \in Records : own[o] # NoList /\ o # r => rec[o].datoff # i
      /\ pc[p] # "reuse" => own[r] = chainoff(p) /\ rec[r].key = call[p].key
      /\ pc[p] = "reuse" => own[r] = NoList
      /\ rec[r].datoff = i /\ i \in 1 .. DatCap /\ r \in Records
  BY <1>1, DataElsewhere
<1>4. dat'[i] = d /\ \A j : j # i => dat'[j] = dat[j]
  BY <1>1, <1>2, <1>3
<1>5. pc'[p] = l /\ db'[p] = db[p] /\ call'[p] = call[p]
  BY <1>1, <1>2, StepToAt
<1>6. /\ pc[p] = "overwrite" => kv'[call[p].key] = call[p].data /\ call[p].data # None /\ call[p].op = "store"
      /\ \A k \in Keys : kv'[k] = kv[k] \/ (pc[p] = "overwrite" /\ k = call[p].key)
  <2>1. pc[p] = "overwrite" => call[p].data \in Data /\ call[p].op = "store"
    BY <1>1 DEF CallOK, StoreLabels, InChain, OutLabels
  <2>2. kv \in [Keys -> Data \cup {None}] /\ None \notin Data
    BY <1>1, Before, DbConstants
  <2> QED BY <1>1, <1>2, <2>1, <2>2
<1> HIDE DEF r, i
<1>7. KvSafe(p)
  BY <1>1, <1>6 DEF KvSafe, InChain, OutLabels
<1>8. ~Between(p) /\ ~db[p].gone /\ pc[p] \notin BlankLabels
  BY <1>1 DEF MapPlace, Between, Torn, GoneLabels, BlankLabels
<1>9. OnMap(own)'
  <2>1. ASSUME NEW o \in Records, own[o] \in Chains
        PROVE  \/ /\ rec'[o] = rec[o] /\ kv'[rec[o].key] = kv[rec[o].key] /\ dat'[rec[o].datoff] = dat[rec[o].datoff]
               \/ /\ kv'[rec'[o].key] # None
                  /\ dat'[rec'[o].datoff] = kv'[rec'[o].key] \/ (l \in BlankLabels /\ db[p].idxoff = o)
    <3>1. own[o] # NoList /\ rec[o].key \in Keys /\ kv[rec[o].key] # None
      BY <1>1, <2>1, Places DEF AllInv, ListInv, OnFile, OnMap
    <3>2. CASE o = r
      <4>1. pc[p] # "reuse" /\ rec[o].key = call[p].key /\ rec[o].datoff = i
        BY <1>3, <3>1, <3>2
      <4>2. CASE pc[p] = "overwrite"
        BY <1>2, <1>4, <1>6, <4>1, <4>2
      <4>3. CASE pc[p] = "delblank"
        BY <1>2, <3>1, <3>2, <4>3 DEF BlankLabels, r
      <4> QED BY <1>1, <4>1, <4>2, <4>3
    <3>3. CASE o # r
      <4>1. dat'[rec[o].datoff] = dat[rec[o].datoff] /\ rec'[o] = rec[o]
        BY <1>2, <1>3, <1>4, <3>1, <3>3
      <4>2. pc[p] = "overwrite" => rec[o].key # call[p].key
        <5> SUFFICES ASSUME pc[p] = "overwrite", rec[o].key = call[p].key PROVE FALSE
          OBVIOUS
        <5>1. own[r] = chainoff(p) /\ rec[r].key = call[p].key /\ r \in Records
          BY <1>3
        <5>2. OnFile(own, nx)
          BY DEF AllInv, ListInv
        <5>3. own[o] = chainoff(p)
          BY <2>1, <5>2 DEF OnFile, chainoff
        <5> QED BY <2>1, <3>3, <5>1, <5>2, <5>3 DEF OnFile
      <4> QED BY <1>6, <3>1, <4>1, <4>2
    <3> QED BY <3>2, <3>3
  <2> QED BY <1>1, <1>2, <1>8, <2>1, OnMapKeeps
<1>10. Kept(own)'
  <2>1. ASSUME NEW k \in Keys, kv'[k] # None
        PROVE  kv[k] # None \/ \E o \in Records : own[o] = Hash[k] /\ rec'[o].key = k
    <3>1. CASE pc[p] = "overwrite" /\ k = call[p].key
      BY <1>2, <1>3, <3>1 DEF chainoff
    <3> QED BY <1>6, <2>1, <3>1
  <2> QED BY <1>1, <1>2, <1>8, <2>1, KeptKeeps
<1>11. MapPlace(p)'
  <2>1. ~Between(p)' /\ l # "delunlock"
    BY <1>2, <1>5, <1>8 DEF Between, Torn
  <2>2. CASE pc[p] = "reuse"
    <3>1. pc[p] \in StoreLabels \ {"overwrite"} /\ l \notin DelLabels \cup {"overwrite"} /\ kv' = kv /\ d = call[p].data
      BY <1>2, <2>2 DEF StoreLabels, DelLabels
    <3> QED BY <1>1, <1>4, <1>5, <1>8, <2>1, <3>1 DEF MapPlace, i
  <2>3. CASE pc[p] # "reuse"
    <3>1. /\ l \notin StoreLabels /\ l \notin FilledLabels
          /\ l \in DelLabels => pc[p] \in DelLabels
      BY <1>2, <2>3 DEF StoreLabels, FilledLabels, NewLabels, DelLabels
    <3>2. "overwrite" \in StoreLabels
      BY DEF StoreLabels
    <3> QED BY <1>1, <1>5, <1>8, <2>1, <3>1, <3>2 DEF MapPlace
  <2> QED BY <2>2, <2>3
<1>12. \A q \in Proc : MapPlace(q)'
  BY <1>1, <1>2, <1>3, <1>4, <1>7, <1>11, MapPlaces
<1> QED BY <1>9, <1>10, <1>12 DEF MapInv

\* Nobody has the data record that is appended.
LEMMA DatAppendMap ==
  ASSUME NEW p \in Proc, NEW own, NEW nx, NEW rank, AllInv(own, nx, rank), DatAppend(p)
  PROVE  MapInv(own)'
<1>1. /\ LockInv /\ FileInv /\ OnMap(own) /\ Kept(own) /\ (\A q \in Proc : MapPlace(q))
      /\ DOMAIN dat = 1 .. DatCap
  BY DEF AllInv, MapInv, FileInv, FileType
<1>2. /\ pc[p] = "datwrite" /\ dat' = [dat EXCEPT ![db[p].datoff] = call[p].data] /\ call' = call /\ kv' = kv
      /\ rec' = rec /\ StepTo(p, "datunlock", db[p])
  BY <1>1, StayPut DEF DatAppend, WriteDat, Goto, StepTo
<1>3. \A j : j # datsize => dat'[j] = dat[j]
  BY <1>1, <1>2, Before
<1>4. pc'[p] = "datunlock" /\ db'[p] = db[p] /\ call'[p] = call[p]
  BY <1>1, <1>2, StepToAt
<1>5. \A q \in Proc : pc[q] \in FilledLabels => dat'[db[q].datoff] = dat[db[q].datoff]
  <2>1. FilledLabels \subseteq AgreeLabels
    BY DEF FilledLabels, AgreeLabels, TakenLabels
  <2> QED BY <1>1, <1>3, <2>1, HandleData
<1>6. OnMap(own)'
  <2>1. ASSUME NEW o \in Records, own[o] \in Chains PROVE dat'[rec[o].datoff] = dat[rec[o].datoff]
    <3>1. o \in Written
      BY <2>1, Places DEF AllInv, ListInv, OnFile
    <3> QED BY <1>1, <1>3, <3>1, WrittenData
  <2>2. pc[p] \notin BlankLabels
    BY <1>2 DEF BlankLabels
  <2> QED BY <1>1, <1>2, <2>1, <2>2, OnMapKeeps
<1>7. Between(p) <=> Between(p)'
  BY <1>2, <1>4 DEF Between, Torn
<1>8. Kept(own)'
  BY <1>1, <1>2, <1>4, <1>7, KeptKeeps
<1>9. MapPlace(p)'
  <2>1. /\ pc[p] \in StoreLabels \ {"overwrite"} /\ "datunlock" \notin DelLabels \cup {"overwrite"}
        /\ "datunlock" \notin FilledLabels /\ "datunlock" \in GoneLabels
    BY <1>2 DEF StoreLabels, DelLabels, FilledLabels, NewLabels, GoneLabels
  <2> QED BY <1>1, <1>2, <1>4, <1>7, <2>1 DEF MapPlace
<1>10. KvSafe(p)
  BY <1>2 DEF KvSafe
<1>11. \A q \in Proc : MapPlace(q)'
  BY <1>1, <1>2, <1>5, <1>9, <1>10, MapPlaces
<1> QED BY <1>6, <1>8, <1>11 DEF MapInv

-----------------------------------------------------------------------------
(* Writing the index file.                                                  *)

\* The record leaves the chain; its key stays in the map until the call takes effect.
LEMMA DelIdxMap ==
  ASSUME NEW p \in Proc, NEW own, NEW nx, NEW rank, AllInv(own, nx, rank), DelIdx(p),
         NEW r, r = db[p].idxoff
  PROVE  MapInv([own EXCEPT ![r] = NoList])'
<1> DEFINE own2 == [own EXCEPT ![r] = NoList]
           h == [db[p] EXCEPT !.ptrval = db[p].head]
<1>1. /\ LockInv /\ FileInv /\ OnMap(own) /\ Kept(own) /\ (\A q \in Proc : MapPlace(q))
      /\ DataInv /\ ListInv(own, nx, rank)
  BY DEF AllInv, MapInv
<1>2. /\ pc[p] = "delidx" /\ call' = call /\ kv' = kv /\ dat' = dat /\ StepTo(p, "delhead", h)
      /\ rec' = [rec EXCEPT ![r] = [key |-> Blank, klen |-> KeyLen[call[p].key],
                                    datoff |-> db[p].datoff, datlen |-> db[p].datlen]]
  BY DEF DelIdx, WriteIdx, Goto, StepTo
<1>3. /\ pc[p] \in FoundLabels /\ pc[p] \in DelLabels \cup StoreLabels /\ pc[p] \in DelLabels
      /\ pc[p] \in RecordLabels
  BY <1>2 DEF FoundLabels, DelLabels, RecordLabels
<1>4. /\ own[db[p].ptroff] = chainoff(p) /\ nx[db[p].ptroff] = r /\ rec[r].key = call[p].key
      /\ db[p].ptroff \in Offsets /\ chainoff(p) \in 0 .. NHash /\ Shape(own, nx, rank)
      /\ chainoff(p) \in Chains /\ own \in [Offsets -> NoList .. NHash] /\ DOMAIN rec = Records
  <2>1. /\ FindPlace(p, own, nx, rank)
        /\ db[p].ptroff \in Offsets /\ chainoff(p) \in 0 .. NHash /\ Shape(own, nx, rank)
        /\ chainoff(p) \in Chains /\ own \in [Offsets -> NoList .. NHash] /\ DOMAIN rec = Records
    BY <1>1, <1>3, AtWork
  <2> QED BY <1>3, <2>1 DEF FindPlace
<1>5. r \in Records /\ r # 0
  BY <1>1, <1>3, Before, WrittenOffsets, Places
<1>6. own[r] = chainoff(p)
  BY <1>4, <1>5, FollowingOne
<1>7. kv[call[p].key] # None
  BY <1>1, <1>4, <1>5, <1>6 DEF OnMap
<1>8. h.gone = db[p].gone /\ ~db[p].gone
  <2>1. h.gone = db[p].gone
    BY <1>1, Before DEF Handles
  <2>2. pc[p] \notin GoneLabels
    BY <1>2 DEF GoneLabels
  <2> QED BY <1>1, <2>1, <2>2 DEF MapPlace
<1> HIDE DEF h
<1>9. \A o \in Records : o # r => own2[o] = own[o] /\ rec'[o] = rec[o]
  BY <1>2, <1>4, Places
<1>10. own2[r] = NoList
  BY <1>4, <1>5, Places
<1> HIDE DEF own2
<1>11. pc'[p] = "delhead" /\ db'[p] = h /\ call'[p] = call[p]
  BY <1>1, <1>2, StepToAt
<1>12. Between(p)' /\ ~Between(p)
  BY <1>2, <1>8, <1>11 DEF Between, Torn
<1>13. OnMap(own2)'
  <2>1. NoList \notin Chains
    BY Places
  <2>2. \A o \in Records : own2[o] \in Chains =>
          /\ own[o] = own2[o] /\ rec'[o].key = rec[o].key /\ rec'[o].datoff = rec[o].datoff
          /\ kv'[rec[o].key] = kv[rec[o].key] /\ dat'[rec[o].datoff] = dat[rec[o].datoff]
          /\ db[p].idxoff # o
    BY <1>2, <1>9, <1>10, <2>1
  <2> QED BY <1>1, <1>2, <2>2, OnMapKeeps
<1>14. Kept(own2)'
  <2>1. \A o \in Records : own[o] \in Chains =>
          \/ own2[o] = own[o] /\ rec'[o].key = rec[o].key
          \/ Between(p)' /\ call'[p].key = rec[o].key
    BY <1>4, <1>9, <1>11, <1>12
  <2>2. \A k \in Keys : kv'[k] # None => kv[k] # None
    BY <1>2
  <2> QED BY <1>1, <1>2, <1>12, <2>1, <2>2, KeptKeeps
<1>15. MapPlace(p)'
  <2>1. /\ "delhead" \notin StoreLabels /\ "delhead" \notin FilledLabels
    BY DEF StoreLabels, FilledLabels, NewLabels
  <2> QED BY <1>1, <1>2, <1>3, <1>7, <1>8, <1>11, <2>1 DEF MapPlace
<1>16. KvSafe(p)
  BY <1>2 DEF KvSafe
<1>17. \A q \in Proc : MapPlace(q)'
  BY <1>1, <1>2, <1>15, <1>16, MapPlaces
<1>18. MapInv(own2)'
  BY <1>13, <1>14, <1>17 DEF MapInv
<1> QED BY <1>18 DEF own2

\* The record that is written is on no chain yet.
LEMMA WriteIdxMap ==
  ASSUME NEW p \in Proc, NEW own, NEW nx, NEW rank, AllInv(own, nx, rank), IdxRewrite(p) \/ IdxAppend(p)
  PROVE  MapInv(own)'
<1> DEFINE r == db[p].idxoff
<1>1. /\ LockInv /\ FileInv /\ OnMap(own) /\ Kept(own) /\ (\A q \in Proc : MapPlace(q))
      /\ DataInv /\ ListInv(own, nx, rank) /\ DOMAIN rec = Records
  BY DEF AllInv, MapInv, FileInv, FileType
<1>2. PICK l, x : /\ StepTo(p, l, db[p]) /\ call' = call /\ kv' = kv /\ dat' = dat
                  /\ rec' = [rec EXCEPT ![r] = x]
                  /\ \/ pc[p] = "idxrewrite" /\ l = "link"
                     \/ pc[p] = "idxwrite" /\ l = "idxunlock"
  BY <1>1, StayPut DEF IdxRewrite, IdxAppend, WriteIdx, Goto, StepTo
<1>3. \A o \in Records : own[o] \in Chains => o # r
  <2>1. CASE pc[p] = "idxrewrite"
    <3>1. pc[p] \in HoldLabels
      BY <2>1 DEF HoldLabels, TakenLabels
    <3>2. own[r] = NoList
      BY <1>1, <3>1 DEF ListInv, Place, StorePlace
    <3> QED BY <3>2, Places
  <2>2. CASE pc[p] = "idxwrite"
    <3>1. r = idxsize /\ FileType
      BY <1>1, <2>2, Before
    <3>2. r \notin Written
      BY <3>1, FileSizes, Sizes DEF Written
    <3>3. \A o \in Records : own[o] # NoList => o \in Written
      BY <1>1 DEF ListInv, OnFile
    <3>4. NoList \notin Chains
      BY Places
    <3> QED BY <3>2, <3>3, <3>4
  <2> QED BY <1>2, <2>1, <2>2
<1>4. \A o \in Records : own[o] \in Chains => rec'[o] = rec[o]
  BY <1>1, <1>2, <1>3
<1> HIDE DEF r
<1>5. pc'[p] = l /\ db'[p] = db[p] /\ call'[p] = call[p]
  BY <1>1, <1>2, StepToAt
<1>6. pc[p] \notin BlankLabels /\ l # "unlock"
  BY <1>2 DEF BlankLabels
<1>7. Between(p) <=> Between(p)'
  BY <1>2, <1>5 DEF Between, Torn
<1>8. OnMap(own)'
  BY <1>1, <1>2, <1>4, <1>6, OnMapKeeps
<1>9. Kept(own)'
  BY <1>1, <1>2, <1>4, <1>5, <1>7, KeptKeeps
<1>10. dat[db[p].datoff] = call[p].data
  <2>1. pc[p] \in FilledLabels \/ pc[p] \in AppendedLabels
    BY <1>2 DEF FilledLabels, AppendedLabels
  <2> QED BY <1>1, <2>1 DEF MapPlace, DataInv, DataPlace
<1>11. MapPlace(p)'
  <2>1. /\ pc[p] \in StoreLabels \ {"overwrite"} /\ l \notin DelLabels \cup {"overwrite"}
        /\ l \in GoneLabels /\ l # "delunlock"
    BY <1>2 DEF StoreLabels, DelLabels, GoneLabels
  <2> QED BY <1>1, <1>2, <1>5, <1>7, <1>10, <2>1 DEF MapPlace
<1>12. KvSafe(p)
  BY <1>2 DEF KvSafe
<1>13. \A q \in Proc : MapPlace(q)'
  BY <1>1, <1>2, <1>11, <1>12, MapPlaces
<1> QED BY <1>8, <1>9, <1>13 DEF MapInv

\* db_delete takes effect; the old record of a db_store is gone.
LEMMA DelUnlinkMap ==
  ASSUME NEW p \in Proc, NEW own, NEW nx, NEW rank, AllInv(own, nx, rank), DelUnlink(p)
  PROVE  MapInv(own)'
<1>1. /\ LockInv /\ FileInv /\ OnMap(own) /\ Kept(own) /\ (\A q \in Proc : MapPlace(q))
      /\ ListInv(own, nx, rank)
  BY DEF AllInv, MapInv
<1>2. /\ pc[p] = "delunlink" /\ pc[p] \in DelLabels \cup StoreLabels /\ pc[p] \in DelLabels /\ pc[p] \in MissLabels
      /\ ~db[p].gone /\ pc[p] \notin BlankLabels /\ Torn(p)
  <2>1. pc[p] = "delunlink"
    BY DEF DelUnlink
  <2>2. pc[p] \notin GoneLabels /\ pc[p] \in DelLabels /\ pc[p] \in MissLabels /\ pc[p] \notin BlankLabels /\ Torn(p)
    BY <2>1 DEF GoneLabels, DelLabels, MissLabels, BlankLabels, Torn
  <2> QED BY <1>1, <2>1, <2>2 DEF MapPlace
<1>3. /\ InChain(p) /\ call[p].op # "fetch" /\ call[p].key \in Keys /\ call[p].op \in {"store", "delete"}
      /\ kv[call[p].key] # None /\ kv \in [Keys -> Data \cup {None}]
  BY <1>1, <1>2, AtWork, Before DEF CallOK, MapPlace, Between
<1>4. /\ pc' = [pc EXCEPT ![p] = "delunlock"] /\ call' = call /\ rec' = rec /\ dat' = dat
      /\ \/ call[p].op = "delete" /\ kv' = [kv EXCEPT ![call[p].key] = None] /\ db' = db
         \/ call[p].op # "delete" /\ kv' = kv /\ db' = [db EXCEPT ![p].gone = TRUE]
  BY DEF DelUnlink, WritePtr, Goto
<1>5. "delunlock" \in GoneLabels /\ "delunlock" \notin StoreLabels /\ "delunlock" \notin FilledLabels
      /\ "delunlock" \notin BlankLabels
  BY DEF GoneLabels, StoreLabels, FilledLabels, NewLabels, BlankLabels
<1>6. CASE call[p].op = "delete"
  <2>1. StepTo(p, "delunlock", db[p])
    BY <1>1, <1>4, <1>6, StayPut DEF StepTo
  <2>2. pc'[p] = "delunlock" /\ db'[p] = db[p] /\ call'[p] = call[p]
    BY <1>1, <1>4, <2>1, StepToAt
  <2>3. \A k \in Keys : (k # call[p].key => kv'[k] = kv[k]) /\ (k = call[p].key => kv'[k] = None)
    BY <1>3, <1>4, <1>6
  <2>4. KvSafe(p)
    BY <1>3, <2>3 DEF KvSafe
  <2>5. OnMap(own)'
    <3>1. ASSUME NEW o \in Records, own[o] \in Chains PROVE kv'[rec[o].key] = kv[rec[o].key]
      <4>1. rec[o].key \in Keys
        BY <1>1, <3>1 DEF ListInv, OnFile
      <4> QED BY <1>2, <2>3, <3>1, <4>1, GoneMiss
    <3> QED BY <1>1, <1>2, <1>4, <2>1, <3>1, OnMapKeeps
  <2>6. Kept(own)'
    BY <1>1, <1>3, <1>4, <2>1, <2>3, KeptKeeps
  <2>7. MapPlace(p)'
    BY <1>2, <1>5, <1>6, <2>2 DEF MapPlace, Between, Torn
  <2>8. \A q \in Proc : MapPlace(q)'
    BY <1>1, <1>4, <2>1, <2>4, <2>7, MapPlaces
  <2> QED BY <2>5, <2>6, <2>8 DEF MapInv
<1>7. CASE call[p].op # "delete"
  <2> DEFINE h == [db[p] EXCEPT !.gone = TRUE]
  <2>0. db \in [Proc -> Handles] /\ db[p] \in Handles
    BY <1>1, <1>2, AtWork
  <2>1. StepTo(p, "delunlock", h) /\ kv' = kv /\ h.gone
    <3>1. db' = [db EXCEPT ![p] = h]
      BY <1>4, <1>7, <2>0
    <3>2. h.gone
      BY <2>0 DEF Handles
    <3> QED BY <1>4, <1>7, <3>1, <3>2 DEF StepTo
  <2> HIDE DEF h
  <2>2. pc'[p] = "delunlock" /\ db'[p] = h /\ call'[p] = call[p]
    BY <1>1, <1>4, <2>1, StepToAt
  <2>3. Between(p)'
    BY <2>1, <2>2 DEF Between
  <2>4. MapPlace(p)'
    BY <1>1, <1>2, <1>3, <1>5, <1>7, <2>1, <2>2 DEF MapPlace
  <2>5. SameData
    <3>1. idxsize' = idxsize
      BY DEF DelUnlink, WritePtr
    <3>2. datsize' = datsize
      BY DEF DelUnlink, WritePtr
    <3> QED BY <1>4, <3>1, <3>2 DEF SameData
  <2> QED BY <1>2, <1>4, <2>1, <2>3, <2>4, <2>5, MapSame
<1> QED BY <1>6, <1>7

LEMMA DelUnlockMap ==
  ASSUME NEW p \in Proc, NEW own, NEW nx, NEW rank, AllInv(own, nx, rank), DelUnlock(p)
  PROVE  MapInv(own)'
<1>1. /\ LockInv /\ FileInv /\ MapPlace(p) /\ CallOK(p)
  BY DEF AllInv, MapInv, LockInv
<1>2. PICK l : /\ pc[p] = "delunlock" /\ StepTo(p, l, db[p]) /\ SameData /\ call' = call /\ kv' = kv
               /\ l = IF call[p].op = "delete" THEN "unlock" ELSE "readhead"
  BY <1>1, StayPut DEF DelUnlock, Goto, StepTo, SameData, files
<1>3. pc'[p] = l /\ db'[p] = db[p] /\ call'[p] = call[p]
  BY <1>1, <1>2, StepToAt
<1>4. call[p].op \in {"store", "delete"} /\ pc[p] \notin BlankLabels
  BY <1>1, <1>2 DEF CallOK, DelLabels, BlankLabels
<1>5. CASE call[p].op = "delete"
  <2>1. ~db[p].gone /\ l = "unlock"
    BY <1>1, <1>2, <1>5 DEF MapPlace
  <2>2. ~Between(p) /\ ~Between(p)'
    BY <1>2, <1>3, <2>1 DEF Between, Torn
  <2>3. MapPlace(p)'
    BY <1>3, <2>1, <2>2 DEF MapPlace, StoreLabels, DelLabels, FilledLabels, NewLabels
  <2> QED BY <1>2, <1>4, <2>2, <2>3, MapSame
<1>6. CASE call[p].op = "store"
  <2>1. db[p].gone /\ l = "readhead"
    BY <1>1, <1>2, <1>6 DEF MapPlace
  <2>2. Between(p) /\ Between(p)'
    BY <1>2, <1>3, <2>1 DEF Between
  <2>3. "readhead" \notin DelLabels \cup {"overwrite"} /\ "readhead" \notin FilledLabels /\ "readhead" \in GoneLabels
    BY DEF DelLabels, FilledLabels, NewLabels, GoneLabels
  <2>4. MapPlace(p)'
    BY <1>1, <1>2, <1>3, <2>1, <2>2, <2>3 DEF MapPlace
  <2> QED BY <1>2, <1>3, <1>4, <2>2, <2>4, MapSame
<1> QED BY <1>4, <1>5, <1>6

\* db_store takes effect: the record becomes part of its chain.
LEMMA LinkMap ==
  ASSUME NEW p \in Proc, NEW own, NEW nx, NEW rank, AllInv(own, nx, rank), Link(p),
         NEW r, NEW c, r = db[p].idxoff, c = chainoff(p)
  PROVE  MapInv([own EXCEPT ![r] = c])'
<1> DEFINE own2 == [own EXCEPT ![r] = c]
<1>1. /\ LockInv /\ FileInv /\ OnMap(own) /\ Kept(own) /\ (\A q \in Proc : MapPlace(q))
      /\ DataInv /\ ListInv(own, nx, rank)
  BY DEF AllInv, MapInv
<1>2. /\ pc[p] = "link" /\ call' = call /\ kv' = [kv EXCEPT ![call[p].key] = call[p].data] /\ rec' = rec
      /\ dat' = dat /\ StepTo(p, "unlock", db[p])
  BY <1>1, StayPut DEF Link, WritePtr, Goto, StepTo
<1>3. /\ pc[p] \in DelLabels \cup StoreLabels /\ pc[p] \in StoreLabels /\ pc[p] \in MissLabels /\ pc[p] \in NewLabels
      /\ pc[p] \in HoldLabels /\ pc[p] \in AgreeLabels /\ pc[p] \in FilledLabels /\ pc[p] \notin BlankLabels
  BY <1>2 DEF StoreLabels, MissLabels, NewLabels, HoldLabels, AgreeLabels, FilledLabels, BlankLabels
<1>4. /\ InChain(p) /\ call[p].op # "fetch" /\ call[p].key \in Keys /\ c \in Chains
      /\ own \in [Offsets -> NoList .. NHash] /\ OnFile(own, nx)
      /\ rec[r].key = call[p].key /\ own[r] = NoList
  BY <1>1, <1>3, AtWork DEF StorePlace
<1>5. call[p].op = "store" /\ call[p].data # None /\ kv \in [Keys -> Data \cup {None}] /\ call[p].data \in Data
  <2>1. call[p].op = "store" /\ call[p].data \in Data
    BY <1>1, <1>3, <1>4, Before DEF CallOK
  <2> QED BY <1>1, <2>1, Before, DbConstants
<1>6. r \in Written /\ r \in Records /\ r \in Offsets /\ rec[r].datoff = db[p].datoff
      /\ dat[db[p].datoff] = call[p].data
  <2>1. r \in Written
    BY <1>1, <1>3, HandleData
  <2>2. rec[r].datoff = db[p].datoff /\ dat[db[p].datoff] = call[p].data
    BY <1>1, <1>3 DEF DataInv, DataPlace, MapPlace
  <2> QED BY <1>1, <2>1, <2>2, Before, WrittenOffsets, Places
<1>7. \A k \in Keys : (k # call[p].key => kv'[k] = kv[k]) /\ (k = call[p].key => kv'[k] = call[p].data)
  BY <1>2, <1>4, <1>5
<1>8. own2[r] = c /\ \A o \in Records : o # r => own2[o] = own[o]
  BY <1>4, <1>6, Places
<1> HIDE DEF own2
<1>9. pc'[p] = "unlock" /\ db'[p] = db[p] /\ call'[p] = call[p]
  BY <1>1, <1>2, StepToAt
<1>10. KvSafe(p)
  BY <1>4, <1>7 DEF KvSafe
<1>11. OnMap(own2)'
  <2>1. ASSUME NEW o \in Records, own2[o] \in Chains, o # r
        PROVE  own[o] = own2[o] /\ kv'[rec[o].key] = kv[rec[o].key]
    <3>1. own[o] = own2[o] /\ rec[o].key \in Keys
      BY <1>4, <1>8, <2>1 DEF OnFile
    <3>2. pc[p] \in MissLabels /\ own[o] \in Chains
      BY <1>3, <2>1, <3>1
    <3>3. rec[o].key # call[p].key
      BY <3>2, GoneMiss
    <3> QED BY <1>7, <3>1, <3>3
  <2>2. kv'[rec[r].key] # None /\ dat[rec[r].datoff] = kv'[rec[r].key]
    BY <1>4, <1>5, <1>6, <1>7
  <2>3. \A o \in Records : own2[o] \in Chains =>
          \/ /\ own[o] = own2[o] /\ rec'[o].key = rec[o].key /\ rec'[o].datoff = rec[o].datoff
             /\ kv'[rec[o].key] = kv[rec[o].key] /\ dat'[rec[o].datoff] = dat[rec[o].datoff]
          \/ kv'[rec'[o].key] # None /\ dat'[rec'[o].datoff] = kv'[rec'[o].key]
    BY <1>2, <2>1, <2>2
  <2>4. pc[p] \notin BlankLabels
    BY <1>3
  <2>5. \A o \in Records : own2[o] \in Chains =>
          \/ /\ own[o] = own2[o] /\ rec'[o].key = rec[o].key /\ rec'[o].datoff = rec[o].datoff
             /\ kv'[rec[o].key] = kv[rec[o].key] /\ dat'[rec[o].datoff] = dat[rec[o].datoff]
             /\ pc[p] \in BlankLabels /\ db[p].idxoff = o => "unlock" \in BlankLabels /\ db[p].idxoff = o
          \/ /\ kv'[rec'[o].key] # None
             /\ dat'[rec'[o].datoff] = kv'[rec'[o].key] \/ ("unlock" \in BlankLabels /\ db[p].idxoff = o)
    BY <2>3, <2>4
  <2> QED BY <1>1, <1>2, <2>5, OnMapKeeps
<1>12. Kept(own2)'
  <2>1. own2[r] = Hash[call[p].key] /\ rec'[r].key = call[p].key
    BY <1>2, <1>4, <1>8 DEF chainoff
  <2>2. \A o \in Records : own[o] \in Chains => own2[o] = own[o] /\ rec'[o].key = rec[o].key
    BY <1>2, <1>4, <1>8, Places
  <2>3. \A k \in Keys : kv'[k] # None =>
          kv[k] # None \/ \E o \in Records : own2[o] = Hash[k] /\ rec'[o].key = k
    BY <1>6, <1>7, <2>1
  <2>4. \E o \in Records : own2[o] = Hash[call[p].key] /\ rec'[o].key = call[p].key
    BY <1>6, <2>1
  <2> QED BY <1>1, <1>2, <2>2, <2>3, <2>4, KeptKeeps
<1>13. MapPlace(p)'
  <2>1. "unlock" \notin StoreLabels /\ "unlock" \notin DelLabels /\ "unlock" \notin FilledLabels /\ "unlock" \in GoneLabels
    BY DEF StoreLabels, DelLabels, FilledLabels, NewLabels, GoneLabels
  <2> QED BY <1>1, <1>9, <2>1 DEF MapPlace, Between, Torn
<1>14. \A q \in Proc : MapPlace(q)'
  BY <1>1, <1>2, <1>10, <1>13, MapPlaces
<1>15. MapInv(own2)'
  BY <1>11, <1>12, <1>14 DEF MapInv
<1> QED BY <1>15 DEF own2

-----------------------------------------------------------------------------
(* The invariant holds in every run without kills.                          *)

LEMMA StillMap ==
  ASSUME NEW p \in Proc, NEW own, NEW nx, NEW rank, AllInv(own, nx, rank),
         Begin(p) \/ Step(p) \/ Reopen(p), ~DelIdx(p), ~Link(p)
  PROVE  MapInv(own)'
<1>1. LockInv /\ FileInv /\ pc \in [Proc -> Labels]
  BY DEF AllInv, LockInv, LockType
<1>2. CASE StoreStep(p) /\ ~(DatFull(p) \/ IdxFull(p) \/ LinkRefused(p))
  <2>1. CASE ReadHead(p) \/ DatSeek(p) \/ IdxSeek(p)
    BY <1>1, <2>1, ReadsOnward, OnwardStepMap
  <2>2. CASE DatLock(p) \/ DatUnlock(p) \/ IdxLock(p) \/ IdxUnlock(p)
    BY <1>1, <2>2, LocksOnward, OnwardStepMap
  <2>3. CASE Overwrite(p) \/ Reuse(p)
    BY <2>3, WriteDatMap
  <2>4. CASE IdxRewrite(p) \/ IdxAppend(p)
    BY <2>4, WriteIdxMap
  <2>5. CASE DatAppend(p)
    BY <2>5, DatAppendMap
  <2> QED BY <1>2, <2>1, <2>2, <2>3, <2>4, <2>5 DEF StoreStep
<1>3. CASE DatFull(p) \/ IdxFull(p) \/ LinkRefused(p) \/ ScanMisaligned(p)
  <2>1. Exit(p) /\ UNCHANGED files /\ pc[p] \in {"datwrite", "idxwrite", "link", "scanrec"}
    BY <1>3 DEF DatFull, IdxFull, LinkRefused, ScanMisaligned
  <2> QED BY <2>1, ExitMap DEF Torn, BlankLabels
<1>4. CASE DeleteStep(p)
  <2>1. CASE DelLock(p) \/ DelHead(p)
    BY <1>1, <2>1, LocksOnward, OnwardStepMap
  <2>2. CASE DelFree(p)
    BY <1>1, <2>2, ReadsOnward, OnwardStepMap
  <2> QED BY <1>4, <2>1, <2>2, WriteDatMap, DelUnlinkMap, DelUnlockMap DEF DeleteStep
<1>5. CASE FreeStep(p)
  <2>1. CASE FreeLock(p) \/ FreeTake(p) \/ FreeUnlock(p)
    BY <1>1, <2>1, LocksOnward, OnwardStepMap
  <2>2. CASE FreePtr(p) \/ FreeNext(p) \/ FreeFound(p)
    BY <1>1, <2>2, ReadsOnward, OnwardStepMap
  <2> QED BY <1>5, <2>1, <2>2 DEF FreeStep
<1>6. CASE FindStep(p) \/ FetchData(p)
  <2>1. CASE pc'[p] \in {"readhead", "dellock", "overwrite"}
    <3>1. ~FindLock(p) /\ ~FindPtr(p) /\ ~FindNext(p) /\ ~FetchData(p)
      BY <1>1, <2>1 DEF FindLock, FindPtr, FindNext, FetchData, Goto
    <3> QED BY <1>6, <2>1, <3>1, FindMap DEF FindStep
  <2>2. CASE pc'[p] \notin {"readhead", "dellock", "overwrite"}
    BY <1>1, <1>6, <2>2, FindOut, OutMap DEF FindStep
  <2> QED BY <2>1, <2>2
<1>7. CASE ScanStep(p) /\ ~ScanMisaligned(p)
  <2>1. pc'[p] # "dead"
    BY <1>1, <1>7 DEF ScanStep, ScanLock, ScanRecord, ScanEof, ScanData, ScanUnlock, Goto
  <2> QED BY <1>1, <1>7, <2>1, ScanOut, OutMap
<1>8. CASE Begin(p) \/ Reopen(p) \/ UnlockChain(p)
  <2>1. CASE pc'[p] # "dead"
    BY <1>1, <1>8, <2>1, CallsOut, OutMap
  <2>2. CASE pc'[p] = "dead"
    <3>1. ~Reopen(p) /\ ~UnlockChain(p)
      BY <1>1, <2>2 DEF Reopen, UnlockChain, Goto
    <3>2. PICK d \in Menu[p] : Call(p, d) \/ StoreCall(p, d) \/ StoreBadFlag(p, d) \/ StoreBadLength(p, d) \/ Rewind(p, d)
      BY <1>8, <3>1 DEF Begin
    <3>3. ~Call(p, d) /\ ~StoreCall(p, d) /\ ~StoreBadFlag(p, d) /\ ~Rewind(p, d)
      BY <1>1, <2>2 DEF Call, StoreCall, StoreBadFlag, Rewind, Goto
    <3>4. pc[p] = "idle" /\ Exit(p) /\ UNCHANGED files
      BY <3>2, <3>3 DEF StoreBadLength
    <3> QED BY <3>4, ExitMap DEF Torn, BlankLabels
  <2> QED BY <2>1, <2>2
<1> QED BY <1>2, <1>3, <1>4, <1>5, <1>6, <1>7, <1>8 DEF Step, ScanStep, StoreStep

-----------------------------------------------------------------------------
(* No index record drops off the lists.                                     *)

\* Only the append of an index record makes the file longer.
LEMMA SizeStays ==
  ASSUME NEW p \in Proc, LockInv, FileInv, Begin(p) \/ Step(p) \/ Reopen(p), ~IdxAppend(p)
  PROVE  idxsize' = idxsize
<1>1. CASE DelIdx(p) \/ IdxRewrite(p)
  <2>1. pc[p] \in RecordLabels
    BY <1>1 DEF DelIdx, IdxRewrite, RecordLabels, DelLabels
  <2>2. db[p].idxoff \in Written /\ FileType
    BY <2>1, Before
  <2>3. db[p].idxoff < idxsize
    BY <2>2, FileSizes, Sizes DEF Written
  <2>4. idxsize' = IF db[p].idxoff < idxsize THEN idxsize ELSE db[p].idxoff + 1
    BY <1>1 DEF DelIdx, IdxRewrite, WriteIdx
  <2> QED BY <2>3, <2>4
<1>2. CASE Begin(p)
  BY <1>2 DEF Begin, Call, StoreCall, StoreBadFlag, StoreBadLength, Rewind, files
<1>3. CASE Reopen(p) \/ UnlockChain(p) \/ FetchData(p) \/ FindStep(p)
  BY <1>3 DEF Reopen, UnlockChain, FetchData, FindStep, FindLock, FindPtr, FindNext, Found, NotFound, ReadPtr, files
<1>4. CASE DeleteStep(p) /\ ~DelIdx(p)
  BY <1>4 DEF DeleteStep, DelLock, DelBlank, DelFree, DelHead, DelUnlink, DelUnlock, ReadPtr, WritePtr, WriteDat, files
<1>5. CASE FreeStep(p)
  BY <1>5 DEF FreeStep, FreeLock, FreePtr, FreeNext, FreeFound, FreeTake, FreeUnlock, ReadPtr, WritePtr, files
<1>6. CASE StoreStep(p) /\ ~IdxRewrite(p)
  <2>1. CASE ReadHead(p) \/ Overwrite(p) \/ Reuse(p) \/ DatLock(p) \/ DatSeek(p) \/ DatAppend(p)
    BY <2>1 DEF ReadHead, Overwrite, Reuse, DatLock, DatSeek, DatAppend, ReadPtr, WriteDat, files
  <2>2. CASE DatFull(p) \/ IdxFull(p) \/ LinkRefused(p) \/ DatUnlock(p) \/ IdxLock(p) \/ IdxSeek(p) \/ IdxUnlock(p) \/ Link(p)
    BY <2>2 DEF DatFull, IdxFull, LinkRefused, DatUnlock, IdxLock, IdxSeek, IdxUnlock, Link, WritePtr, files
  <2> QED BY <1>6, <2>1, <2>2 DEF StoreStep
<1>7. CASE ScanStep(p)
  BY <1>7 DEF ScanStep, ScanLock, ScanRecord, ScanEof, ScanMisaligned, ScanData, ScanUnlock, files
<1> QED BY <1>1, <1>2, <1>3, <1>4, <1>5, <1>6, <1>7 DEF Step

\* A record that p holds stays with p until it is on a list.
LEMMA HoldStays ==
  ASSUME NEW p \in Proc, LockInv, FileInv, NEW own, NEW nx, NEW rank, ListInv(own, nx, rank),
         Begin(p) \/ Step(p) \/ Reopen(p), ~DelHead(p), ~Link(p), pc[p] \in HoldLabels, db[p].idxoff <= PtrMax
  PROVE  pc'[p] \in HoldLabels /\ db'[p] = db[p]
<1>1. pc \in [Proc -> Labels] /\ pc[p] \in {"delhead", "freeunlock", "reuse", "idxrewrite", "idxunlock", "link"}
  BY DEF LockInv, LockType, HoldLabels, TakenLabels, NewLabels
<1>2. ~(Begin(p) \/ Reopen(p) \/ UnlockChain(p) \/ FetchData(p) \/ FindStep(p) \/ ScanStep(p))
  BY <1>1 DEF Begin, Call, StoreCall, StoreBadFlag, StoreBadLength, Rewind, Reopen, UnlockChain, FetchData,
              FindStep, FindLock, FindPtr, FindNext, Found, NotFound,
              ScanStep, ScanLock, ScanRecord, ScanEof, ScanMisaligned, ScanData, ScanUnlock
<1>3. ~DeleteStep(p)
  BY <1>1 DEF DeleteStep, DelLock, DelBlank, DelFree, DelIdx, DelUnlink, DelUnlock
<1>4. FreeStep(p) => FreeUnlock(p) /\ pc[p] = "freeunlock"
  BY <1>1 DEF FreeStep, FreeLock, FreePtr, FreeNext, FreeFound, FreeTake, FreeUnlock
<1>5. StoreStep(p) => Reuse(p) \/ IdxRewrite(p) \/ IdxUnlock(p) \/ LinkRefused(p)
  BY <1>1 DEF StoreStep, ReadHead, Overwrite, DatLock, DatSeek, DatAppend, DatFull, DatUnlock,
              IdxLock, IdxSeek, IdxAppend, IdxFull
<1>6. ~LinkRefused(p)
  <2> SUFFICES ASSUME LinkRefused(p) PROVE FALSE
    OBVIOUS
  <2>1. pc[p] \in RecordLabels /\ db[p].idxoff > PtrMax
    BY DEF LinkRefused, RecordLabels
  <2>2. db[p].idxoff \in Records
    BY <2>1, Before, WrittenOffsets
  <2>3. db[p].idxoff \in Int /\ PtrMax \in Int
    BY <2>2, DbConstants, Places
  <2> QED BY <2>1, <2>3
<1>7. CASE FreeUnlock(p) /\ pc[p] = "freeunlock"
  <2>1. pc[p] \in {"freeunlock"} /\ db[p].offset # 0
    BY <1>7 DEF ListInv, Place, StorePlace
  <2>2. pc' = [pc EXCEPT ![p] = "reuse"] /\ db' = db
    BY <1>7, <2>1 DEF FreeUnlock, Goto
  <2> QED BY <1>1, <2>2 DEF HoldLabels, TakenLabels
<1>8. CASE Reuse(p) \/ IdxRewrite(p) \/ IdxUnlock(p)
  <2>1. pc'[p] \in {"idxrewrite", "link"} /\ db' = db
    BY <1>1, <1>8 DEF Reuse, IdxRewrite, IdxUnlock, Goto
  <2> QED BY <2>1 DEF HoldLabels, TakenLabels, NewLabels
<1> QED BY <1>2, <1>3, <1>4, <1>5, <1>6, <1>7, <1>8 DEF Step

\* Records that were on a list are on one, or with p.
LEMMA WholeKeeps ==
  ASSUME NEW p \in Proc, LockInv, FileInv, NEW own, NEW nx, NEW rank, ListInv(own, nx, rank), Whole(own),
         Begin(p) \/ Step(p) \/ Reopen(p), NEW own2,
         \A o \in Records : own[o] # NoList =>
           own2[o] # NoList \/ (pc'[p] \in HoldLabels /\ db'[p].idxoff = o),
         DelHead(p) \/ Link(p) => own2[db[p].idxoff] # NoList
  PROVE  Whole(own2)'
<1> SUFFICES ASSUME NEW o \in Written', o <= PtrMax
             PROVE  own2[o] # NoList \/ \E q \in Proc : pc'[q] \in HoldLabels /\ db'[q].idxoff = o
  BY DEF Whole
<1>1. \A q \in Proc \ {p} : pc'[q] = pc[q] /\ db'[q] = db[q]
  BY OthersStay
<1>2. CASE o \in Written
  <2>1. o \in Records
    BY <1>2, WrittenOffsets DEF FileInv
  <2>2. own[o] # NoList \/ \E q \in Proc : pc[q] \in HoldLabels /\ db[q].idxoff = o
    BY <1>2 DEF Whole
  <2>3. CASE own[o] # NoList
    BY <2>1, <2>3
  <2>4. ASSUME NEW q \in Proc, pc[q] \in HoldLabels, db[q].idxoff = o
        PROVE  own2[o] # NoList \/ \E x \in Proc : pc'[x] \in HoldLabels /\ db'[x].idxoff = o
    BY <1>1, <2>4, HoldStays
  <2> QED BY <2>2, <2>3, <2>4
<1>3. CASE o \notin Written
  <2>1. IdxAppend(p)
    BY <1>3, SizeStays DEF Written
  <2>2. pc[p] = "idxwrite" /\ pc' = [pc EXCEPT ![p] = "idxunlock"] /\ db' = db /\ db[p].idxoff = idxsize /\ FileType
    BY <2>1, Before DEF IdxAppend, Goto
  <2>3. pc'[p] \in HoldLabels
    BY <2>2 DEF LockInv, LockType, HoldLabels, NewLabels
  <2>4. idxsize' = idxsize + 1
    <3>1. idxsize' = IF idxsize < idxsize THEN idxsize ELSE idxsize + 1
      BY <2>1, <2>2 DEF IdxAppend, WriteIdx
    <3> QED BY <2>2, <3>1, FileSizes, Sizes
  <2>5. o = idxsize
    BY <1>3, <2>2, <2>4, FileSizes, Sizes DEF Written
  <2> QED BY <2>2, <2>3, <2>5
<1> QED BY <1>2, <1>3

LEMMA StepMap ==
  ASSUME NEW p \in Proc, LockInv, FileInv, DataInv, MapLists, Begin(p) \/ Step(p) \/ Reopen(p)
  PROVE  MapLists'
<1>1. PICK own, nx, rank : ListInv(own, nx, rank) /\ MapInv(own) /\ Whole(own)
  BY DEF MapLists
<1>2. PICK r, y, s, c : r = db[p].idxoff /\ y = db[p].ptroff /\ s = db[p].save /\ c = chainoff(p)
  OBVIOUS
<1>3. /\ AllInv(own, nx, rank) /\ own \in [Offsets -> NoList .. NHash] /\ pc \in [Proc -> Labels]
      /\ \A o \in Records : o \in Offsets
  BY <1>1, Places DEF AllInv, ListInv, Shape, LockInv, LockType
<1>4. CASE DelIdx(p)
  <2> DEFINE own2 == [own EXCEPT ![r] = NoList]
  <2>1. ListInv(own2, [nx EXCEPT ![y] = nx[r]], rank)'
    BY <1>1, <1>2, <1>4, DelIdxLists
  <2>2. MapInv(own2)'
    BY <1>2, <1>3, <1>4, DelIdxMap
  <2>3. pc'[p] \in HoldLabels /\ db'[p].idxoff = r
    <3>1. pc' = [pc EXCEPT ![p] = "delhead"] /\ db' = [db EXCEPT ![p].ptrval = db[p].head]
      BY <1>4 DEF DelIdx, Goto
    <3>2. db \in [Proc -> Handles]
      BY Before DEF HandleType
    <3> QED BY <1>2, <1>3, <3>1, <3>2 DEF HoldLabels, Handles
  <2>4. \A o \in Records : o # r => own2[o] = own[o]
    BY <1>3
  <2>5. ~DelHead(p) /\ ~Link(p)
    BY <1>4 DEF DelIdx, DelHead, Link
  <2> HIDE DEF own2
  <2>6. Whole(own2)'
    BY <1>1, <2>3, <2>4, <2>5, WholeKeeps
  <2> QED BY <2>1, <2>2, <2>6 DEF MapLists
<1>5. CASE DelHead(p)
  <2> DEFINE own2 == [own EXCEPT ![r] = FREE_OFF]
  <2>1. ListInv(own2, [nx EXCEPT ![FREE_OFF] = r, ![r] = nx[FREE_OFF]],
                [rank EXCEPT ![r] = rank[FREE_OFF], ![FREE_OFF] = rank[FREE_OFF] + 1])'
    BY <1>1, <1>2, <1>5, DelHeadLists
  <2>2. pc[p] \in HoldLabels /\ pc[p] \in RecordLabels
    BY <1>5 DEF DelHead, HoldLabels, RecordLabels, DelLabels
  <2>3. own[r] = NoList /\ r \in Records
    <3>1. own[r] = NoList
      BY <1>1, <1>2, <2>2 DEF ListInv, Place, StorePlace
    <3> QED BY <1>2, <2>2, <3>1, Before, WrittenOffsets
  <2>4. own2[r] = FREE_OFF /\ \A o \in Records : o # r => own2[o] = own[o]
    BY <1>3, <2>3
  <2> HIDE DEF own2
  <2>5. OnwardStep(p)
    BY <1>5, LocksOnward
  <2>6. MapInv(own2)'
    BY <1>3, <2>3, <2>4, <2>5, OnwardStepMap, Places
  <2>7. Whole(own2)'
    <3>1. own2[r] # NoList
      BY <2>4, Places
    <3>2. \A o \in Records : own[o] # NoList => own2[o] # NoList
      BY <2>4, <3>1
    <3> QED BY <1>1, <1>2, <3>1, <3>2, WholeKeeps
  <2> QED BY <2>1, <2>6, <2>7 DEF MapLists
<1>6. CASE FreeTake(p)
  <2> DEFINE own2 == [own EXCEPT ![r] = NoList]
  <2>1. ListInv(own2, [nx EXCEPT ![s] = nx[r]], rank)'
    BY <1>1, <1>2, <1>6, FreeTakeLists
  <2>2. pc[p] = "freetake" /\ pc[p] \in DelLabels \cup StoreLabels /\ pc[p] \in RecordLabels /\ ~Link(p) /\ ~DelHead(p)
    BY <1>6 DEF FreeTake, StoreLabels, RecordLabels, Link, DelHead
  <2>3. own[r] = FREE_OFF /\ r \in Records
    <3>1. r \in Records
      BY <1>2, <2>2, Before, WrittenOffsets
    <3>2. /\ own[s] = FREE_OFF /\ nx[s] = r /\ s \in Offsets /\ Shape(own, nx, rank)
      <4>1. StorePlace(p, own, nx) /\ s \in Offsets /\ Shape(own, nx, rank)
        BY <1>1, <1>2, <2>2, AtWork
      <4>2. own[s] = FREE_OFF /\ nx[s] = r
        BY <1>2, <2>2, <4>1 DEF StorePlace
      <4> QED BY <4>1, <4>2
    <3>3. FREE_OFF \in 0 .. NHash /\ r # 0
      BY <3>1, Places
    <3> QED BY <3>1, <3>2, <3>3, FollowingOne
  <2>4. own2[r] = NoList /\ \A o \in Records : o # r => own2[o] = own[o]
    BY <1>3, <2>3
  <2> HIDE DEF own2
  <2>5. OnwardStep(p)
    BY <1>6, LocksOnward
  <2>6. MapInv(own2)'
    BY <1>3, <2>3, <2>4, <2>5, OnwardStepMap, Places
  <2>7. pc'[p] \in HoldLabels /\ db'[p].idxoff = r
    <3>1. pc' = [pc EXCEPT ![p] = "freeunlock"] /\ db' = db
      BY <1>6 DEF FreeTake, Goto
    <3> QED BY <1>2, <1>3, <3>1 DEF HoldLabels, TakenLabels
  <2>8. Whole(own2)'
    <3>1. \A o \in Records : own[o] # NoList =>
            own2[o] # NoList \/ (pc'[p] \in HoldLabels /\ db'[p].idxoff = o)
      BY <2>4, <2>7
    <3> QED BY <1>1, <2>2, <3>1, WholeKeeps
  <2> QED BY <2>1, <2>6, <2>8 DEF MapLists
<1>7. CASE Link(p)
  <2> DEFINE own2 == [own EXCEPT ![r] = c]
  <2>1. ListInv(own2, [nx EXCEPT ![c] = r, ![r] = nx[c]], [rank EXCEPT ![r] = rank[c], ![c] = rank[c] + 1])'
    BY <1>1, <1>2, <1>7, LinkLists
  <2>2. MapInv(own2)'
    BY <1>2, <1>3, <1>7, LinkMap
  <2>3. pc[p] \in DelLabels \cup StoreLabels /\ pc[p] \in RecordLabels
    BY <1>7 DEF Link, StoreLabels, RecordLabels
  <2>4. c # NoList /\ r \in Records
    BY <1>1, <1>2, <2>3, AtWork, Before, WrittenOffsets
  <2>5. own2[r] # NoList /\ \A o \in Records : o # r => own2[o] = own[o]
    BY <1>3, <2>4
  <2> HIDE DEF own2
  <2>6. Whole(own2)'
    BY <1>1, <1>2, <2>5, WholeKeeps
  <2> QED BY <2>1, <2>2, <2>6 DEF MapLists
<1>8. CASE ~Moving(p)
  <2>1. ListInv(own, nx, rank)'
    BY <1>1, <1>8, StillLists
  <2>2. MapInv(own)'
    BY <1>3, <1>8, StillMap DEF Moving
  <2>3. Whole(own)'
    BY <1>1, <1>8, WholeKeeps DEF Moving
  <2> QED BY <2>1, <2>2, <2>3 DEF MapLists
<1> QED BY <1>4, <1>5, <1>6, <1>7, <1>8 DEF Moving

-----------------------------------------------------------------------------
(* The invariant holds.                                                     *)

LEMMA InitMap == Init => MapLists
<1> SUFFICES ASSUME Init PROVE MapLists
  OBVIOUS
<1>1. PICK own, nx, rank : ListInv(own, nx, rank)
  BY InitLists DEF Lists
<1>2. Written = {}
  BY Sizes DEF Init, Written
<1>3. \A o \in Records : own[o] = NoList
  BY <1>1, <1>2 DEF ListInv, OnFile
<1>4. \A p \in Proc : pc[p] = "idle" /\ ~db[p].gone
  BY DEF Init, Scratch
<1>5. \A k \in Keys : kv[k] = None
  BY DEF Init
<1>6. MapInv(own)
  <2>1. OnMap(own)
    BY <1>3, Places DEF OnMap
  <2>2. \A p \in Proc : MapPlace(p)
    BY <1>4 DEF MapPlace, Between, Torn, FilledLabels, NewLabels, StoreLabels, DelLabels
  <2> QED BY <1>5, <2>1, <2>2 DEF MapInv, Kept
<1>7. Whole(own)
  BY <1>2 DEF Whole
<1> QED BY <1>1, <1>6, <1>7 DEF MapLists

LEMMA NextMap == LockInv /\ FileInv /\ DataInv /\ MapLists /\ [Next]_vars => MapLists'
<1> SUFFICES ASSUME LockInv, FileInv, DataInv, MapLists, [Next]_vars PROVE MapLists'
  OBVIOUS
<1>1. CASE Next
  <2>1. PICK p \in Proc : Begin(p) \/ Step(p) \/ Reopen(p)
    BY <1>1 DEF Next
  <2> QED BY <2>1, StepMap
<1>2. CASE UNCHANGED vars
  <2>1. UNCHANGED <<rec, dat, idxsize, pc, db, call, kv>>
    BY <1>2 DEF vars, files
  <2>2. PICK own, nx, rank : ListInv(own, nx, rank) /\ MapInv(own) /\ Whole(own)
    BY DEF MapLists
  <2>3. ListInv(own, nx, rank)'
    BY <1>2, <2>2, SameLists
  <2>4. ASSUME NEW p \in Proc PROVE MapPlace(p)' /\ Between(p)' = Between(p)
    BY <2>1, <2>2 DEF MapInv, MapPlace, Between, Torn
  <2>5. OnMap(own)' /\ Kept(own)'
    BY <2>1, <2>2, <2>4 DEF MapInv, OnMap, Kept
  <2>6. Whole(own)'
    BY <2>1, <2>2 DEF Whole, Written
  <2> QED BY <2>3, <2>4, <2>5, <2>6 DEF MapLists, MapInv
<1> QED BY <1>1, <1>2

=============================================================================
