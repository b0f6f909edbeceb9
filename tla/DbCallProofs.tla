---------------------------- MODULE DbCallProofs ----------------------------
(***************************************************************************)
(* What a step of a call does to the data file and what it does in the map: *)
(* no two index records share a data record, and every step of a process is *)
(* a step of the map of DbMap or is not seen there, as long as the lists    *)
(* are those of DbLists.                                                    *)
(***************************************************************************)
EXTENDS DbProofs, DbAsMap

\* Most leaves are first-order: Zenon first, the others go to the SMT solver.
USE ZenonT(3), SMT

-----------------------------------------------------------------------------
(* Index records and their data records.                                    *)

\* What is written into the data file is p's own, and fits the record that has it.
DatSafe(p) ==
  \A i \in 1 .. DatCap : dat'[i] = dat[i] \/
    /\ \A q \in Proc \ {p} : pc[q] \in AppendedLabels => db[q].datoff # i
    /\ \A o \in Written : rec[o].datoff = i /\ dat'[i] \in Data => DatLen[dat'[i]] = rec[o].datlen

LEMMA DataKeeps ==
  ASSUME NEW p \in Proc, NEW l, NEW h, LockInv, FileInv, DataInv, StepTo(p, l, h), idxsize' = idxsize,
         \A o \in Written : rec'[o].datoff = rec[o].datoff /\ rec'[o].datlen = rec[o].datlen,
         DatSafe(p), DataPlace(p)',
         l \in AppendedLabels => \A q \in Proc \ {p} : pc[q] \in AppendedLabels => h.datoff # db[q].datoff
  PROVE  DataInv'
<1>1. /\ pc'[p] = l /\ db'[p] = h
      /\ \A q \in Proc \ {p} : pc'[q] = pc[q] /\ db'[q] = db[q] /\ call'[q] = call[q]
  BY StepToAt
<1>2. Written' = Written
  BY DEF Written
<1>3. DataUnshared'
  <2> SUFFICES ASSUME NEW o \in Written
               PROVE  /\ \A o2 \in Written : rec'[o].datoff = rec'[o2].datoff => o = o2
                      /\ dat'[rec'[o].datoff] \in Data => DatLen[dat'[rec'[o].datoff]] = rec'[o].datlen
    BY <1>2 DEF DataUnshared, Written
  <2>1. /\ \A o2 \in Written : rec[o].datoff = rec[o2].datoff => o = o2
        /\ dat[rec[o].datoff] \in Data => DatLen[dat[rec[o].datoff]] = rec[o].datlen
    BY DEF DataInv, DataUnshared, Written
  <2>2. rec[o].datoff \in 1 .. DatCap
    BY WrittenData
  <2> QED BY <2>1, <2>2 DEF DatSafe
<1>4. ASSUME NEW q \in Proc \ {p} PROVE DataPlace(q)'
  <2>1. DataPlace(q) /\ pc'[q] = pc[q] /\ db'[q] = db[q] /\ call'[q] = call[q]
    BY <1>1 DEF DataInv
  <2>2. pc[q] \in AgreeLabels => db[q].idxoff \in Written
    BY HandleData
  <2>3. pc[q] \in AppendedLabels => dat'[db[q].datoff] = dat[db[q].datoff]
    BY HandleData DEF DatSafe
  <2> QED BY <1>2, <2>1, <2>2, <2>3 DEF DataPlace
<1>5. ASSUME NEW q \in Proc, NEW r \in Proc \ {p}, q # r,
             pc'[q] \in AppendedLabels, pc'[r] \in AppendedLabels
      PROVE  db'[q].datoff # db'[r].datoff
  <2>1. CASE q = p
    BY <1>1, <1>5, <2>1
  <2>2. CASE q # p
    BY <1>1, <1>5, <2>2 DEF DataInv
  <2> QED BY <2>1, <2>2
<1> QED BY <1>3, <1>4, <1>5 DEF DataInv

LEMMA DataLooks ==
  ASSUME NEW p \in Proc, NEW l, NEW h, LockInv, FileInv, DataInv, StepTo(p, l, h), SameData,
         DataPlace(p)', l \in AppendedLabels => pc[p] \in AppendedLabels /\ h.datoff = db[p].datoff
  PROVE  DataInv'
<1>1. DatSafe(p)
  BY DEF DatSafe, SameData
<1>2. l \in AppendedLabels => \A q \in Proc \ {p} : pc[q] \in AppendedLabels => h.datoff # db[q].datoff
  BY DEF DataInv
<1> QED BY <1>1, <1>2, DataKeeps DEF SameData

\* Labels at which the handle is tied to no data record.
LooseLabels == Labels \ (AgreeLabels \cup SizeLabels)

LEMMA Loose ==
  /\ OutLabels \cup {"unlock", "findptr", "findrec", "delhead", "delunlink", "delunlock", "readhead",
                     "freelock", "freeptr", "freerec", "datlock", "datseek"} \subseteq LooseLabels
  /\ AppendedLabels \subseteq SizeLabels
BY DEF LooseLabels, Labels, OutLabels, AgreeLabels, FoundLabels, TakenLabels, NewLabels, SizeLabels, AppendedLabels

LEMMA DataLoose ==
  ASSUME NEW p \in Proc, NEW l \in LooseLabels, NEW h, LockInv, FileInv, DataInv,
         StepTo(p, l, h), SameData
  PROVE  DataInv'
<1>1. l \notin AgreeLabels /\ l \notin SizeLabels /\ l \notin AppendedLabels
  BY Loose DEF LooseLabels
<1>2. pc'[p] = l
  BY StepToAt
<1>3. DataPlace(p)'
  BY <1>1, <1>2 DEF DataPlace
<1> QED BY <1>1, <1>3, DataLooks

\* Steps within the labels that tie the handle to a data record.
LEMMA DataMoves ==
  ASSUME NEW p \in Proc, NEW l, NEW h, LockInv, FileInv, DataInv, StepTo(p, l, h), SameData, call' = call,
         l \in AgreeLabels => pc[p] \in AgreeLabels /\ h.idxoff = db[p].idxoff,
         l \in SizeLabels => pc[p] \in SizeLabels, l \in AppendedLabels => pc[p] \in AppendedLabels,
         h.datoff = db[p].datoff, h.datlen = db[p].datlen
  PROVE  DataInv'
<1>1. pc'[p] = l /\ db'[p] = h /\ DataPlace(p)
  BY StepToAt DEF DataInv
<1>2. DataPlace(p)'
  BY <1>1 DEF DataPlace, SameData, Written
<1> QED BY <1>2, DataLooks

LooseStep(p) == \E l \in LooseLabels : \E h : StepTo(p, l, h) /\ SameData

LEMMA CallsLoose ==
  ASSUME NEW p \in Proc, LockInv, FileInv,
         Begin(p) \/ Reopen(p) \/ UnlockChain(p) \/ Crash(p) \/ DatFull(p) \/ IdxFull(p) \/ LinkRefused(p)
  PROVE  LooseStep(p)
<1>1. "idle" \in LooseLabels /\ "dead" \in LooseLabels /\ "findlock" \in LooseLabels /\ "scanlock" \in LooseLabels
  BY Loose DEF OutLabels
<1>2. \A c : call' = [call EXCEPT ![p] = c] \/ call' = call => \A q \in Proc \ {p} : call'[q] = call[q]
  BY DEF LockInv, LockType
<1>3. ASSUME NEW l \in LooseLabels, NEW h, pc' = [pc EXCEPT ![p] = l], db' = [db EXCEPT ![p] = h],
             \A q \in Proc \ {p} : call'[q] = call[q], UNCHANGED files
      PROVE  LooseStep(p)
  BY <1>3 DEF LooseStep, StepTo, SameData, files
<1>4. CASE Begin(p)
  <2>1. PICK c \in Menu[p] : Call(p, c) \/ StoreCall(p, c) \/ StoreBadFlag(p, c) \/ StoreBadLength(p, c) \/ Rewind(p, c)
    BY <1>4 DEF Begin
  <2>2. CASE Call(p, c) \/ StoreCall(p, c)
    <3>1. /\ pc' = [pc EXCEPT ![p] = "scanlock"] \/ pc' = [pc EXCEPT ![p] = "findlock"]
          /\ db' = db /\ UNCHANGED files /\ call' = [call EXCEPT ![p] = c]
      BY <2>2 DEF Call, StoreCall, Goto
    <3> QED BY <1>1, <1>2, <1>3, <3>1, StayPut
  <2>3. CASE StoreBadFlag(p, c) \/ Rewind(p, c)
    <3>1. pc' = pc /\ db' = db /\ UNCHANGED files /\ call' = call /\ pc[p] = "idle"
      BY <2>3 DEF StoreBadFlag, Rewind
    <3> QED BY <1>1, <1>2, <1>3, <3>1, StayPut
  <2>4. CASE StoreBadLength(p, c)
    <3>1. pc' = [pc EXCEPT ![p] = "dead"] /\ db' = [db EXCEPT ![p] = Scratch] /\ UNCHANGED files /\ call' = call
      BY <2>4 DEF StoreBadLength, Exit, Goto
    <3> QED BY <1>1, <1>2, <1>3, <3>1
  <2> QED BY <2>1, <2>2, <2>3, <2>4
<1>5. CASE Reopen(p)
  <2>1. pc' = [pc EXCEPT ![p] = "idle"] /\ db' = db /\ UNCHANGED files /\ call' = [call EXCEPT ![p] = NoCall]
    BY <1>5 DEF Reopen, Goto
  <2> QED BY <1>1, <1>2, <1>3, <2>1, StayPut
<1>6. CASE UnlockChain(p)
  <2>1. /\ pc' = [pc EXCEPT ![p] = "idle"] /\ db' = [db EXCEPT ![p] = Scratch] /\ UNCHANGED files
        /\ call' = [call EXCEPT ![p] = NoCall]
    BY <1>6 DEF UnlockChain, Goto
  <2> QED BY <1>1, <1>2, <1>3, <2>1
<1>7. CASE Crash(p) \/ DatFull(p) \/ IdxFull(p) \/ LinkRefused(p)
  <2>1. pc' = [pc EXCEPT ![p] = "dead"] /\ db' = [db EXCEPT ![p] = Scratch] /\ UNCHANGED files /\ call' = call
    BY <1>7 DEF Crash, DatFull, IdxFull, LinkRefused, Exit, Goto
  <2> QED BY <1>1, <1>2, <1>3, <2>1
<1> QED BY <1>4, <1>5, <1>6, <1>7

LEMMA FindLoose ==
  ASSUME NEW p \in Proc, LockInv, FileInv,
         FindLock(p) \/ FindPtr(p) \/ FindNext(p) \/ NotFound(p) \/ FetchData(p)
           \/ (Found(p) /\ AfterFound(p) = "unlock")
  PROVE  LooseStep(p)
<1>1. {"unlock", "findptr", "findrec", "readhead"} \subseteq LooseLabels
  BY Loose
<1>2. ASSUME NEW l \in LooseLabels, NEW h, pc' = [pc EXCEPT ![p] = l], db' = [db EXCEPT ![p] = h],
             call' = call, UNCHANGED files
      PROVE  LooseStep(p)
  BY <1>2 DEF LooseStep, StepTo, SameData, files
<1>3. call' = call /\ UNCHANGED files
  BY DEF FindLock, FindPtr, FindNext, NotFound, FetchData, Found, ReadPtr
<1>4. CASE FindLock(p)
  <2>1. pc' = [pc EXCEPT ![p] = "findptr"] /\ db' = [db EXCEPT ![p] = [db[p] EXCEPT !.ptroff = chainoff(p)]]
    BY <1>4 DEF FindLock, Goto
  <2> QED BY <1>1, <1>2, <1>3, <2>1
<1>5. CASE FindPtr(p)
  <2>1. pc' = [pc EXCEPT ![p] = "findrec"] /\ db' = [db EXCEPT ![p] = [db[p] EXCEPT !.offset = ptr[chainoff(p)]]]
    BY <1>5 DEF FindPtr, Goto
  <2> QED BY <1>1, <1>2, <1>3, <2>1
<1>6. CASE FindNext(p)
  <2>1. PICK h : db' = [db EXCEPT ![p] = h] /\ pc' = pc /\ pc[p] = "findrec"
    BY <1>6 DEF FindNext
  <2>2. pc' = [pc EXCEPT ![p] = "findrec"]
    BY <2>1, StayPut
  <2> QED BY <1>1, <1>2, <1>3, <2>1, <2>2
<1>7. CASE NotFound(p) \/ FetchData(p)
  <2>1. (pc' = [pc EXCEPT ![p] = "readhead"] \/ pc' = [pc EXCEPT ![p] = "unlock"]) /\ db' = db
    BY <1>7 DEF NotFound, FetchData, Goto
  <2> QED BY <1>1, <1>2, <1>3, <2>1, StayPut
<1>8. CASE Found(p) /\ AfterFound(p) = "unlock"
  <2>1. PICK h : db' = [db EXCEPT ![p] = h] /\ pc' = [pc EXCEPT ![p] = "unlock"]
    BY <1>8 DEF Found, Goto
  <2> QED BY <1>1, <1>2, <1>3, <2>1
<1> QED BY <1>4, <1>5, <1>6, <1>7, <1>8

LEMMA DeleteLoose ==
  ASSUME NEW p \in Proc, LockInv, FileInv,
         DelHead(p) \/ DelUnlink(p) \/ DelUnlock(p) \/ Link(p) \/ ReadHead(p) \/ DatLock(p)
           \/ FreeLock(p) \/ FreePtr(p) \/ FreeNext(p)
  PROVE  LooseStep(p)
<1>1. {"delunlink", "delunlock", "unlock", "readhead", "freelock", "freeptr", "freerec", "datlock", "datseek"} \subseteq LooseLabels
  BY Loose
<1>2. ASSUME NEW l \in LooseLabels, NEW h, pc' = [pc EXCEPT ![p] = l], db' = [db EXCEPT ![p] = h],
             call' = call, SameData
      PROVE  LooseStep(p)
  BY <1>2 DEF LooseStep, StepTo
<1>3. call' = call /\ SameData
  BY DEF DelHead, DelUnlink, DelUnlock, Link, ReadHead, DatLock, FreeLock, FreePtr, FreeNext,
         ReadPtr, WritePtr, SameData, files
<1>4. CASE DelHead(p) \/ DelUnlock(p) \/ Link(p) \/ DatLock(p) \/ FreeLock(p)
  <2>1. /\ db' = db
        /\ \E l \in {"delunlink", "unlock", "readhead", "datseek", "freeptr"} : pc' = [pc EXCEPT ![p] = l]
    BY <1>4 DEF DelHead, DelUnlock, Link, DatLock, FreeLock, Goto
  <2> QED BY <1>1, <1>2, <1>3, <2>1, StayPut
<1>5. CASE DelUnlink(p)
  <2>1. /\ pc' = [pc EXCEPT ![p] = "delunlock"]
        /\ db' = db \/ db' = [db EXCEPT ![p] = [db[p] EXCEPT !.gone = TRUE]]
    BY <1>5 DEF DelUnlink, Goto
  <2> QED BY <1>1, <1>2, <1>3, <2>1, StayPut
<1>6. CASE ReadHead(p)
  <2>1. /\ pc' = [pc EXCEPT ![p] = "datlock"] \/ pc' = [pc EXCEPT ![p] = "freelock"]
        /\ db' = [db EXCEPT ![p] = [db[p] EXCEPT !.head = ptr[chainoff(p)]]]
    BY <1>6 DEF ReadHead, Goto
  <2> QED BY <1>1, <1>2, <1>3, <2>1
<1>7. CASE FreePtr(p)
  <2>1. /\ pc' = [pc EXCEPT ![p] = "freerec"]
        /\ db' = [db EXCEPT ![p] = [db[p] EXCEPT !.offset = ptr[FREE_OFF], !.save = FREE_OFF]]
    BY <1>7, Before DEF FreePtr, Goto, HandleType, Handles
  <2> QED BY <1>1, <1>2, <1>3, <2>1
<1>8. CASE FreeNext(p)
  <2>1. PICK h : db' = [db EXCEPT ![p] = h] /\ pc' = pc /\ pc[p] = "freerec"
    BY <1>8 DEF FreeNext
  <2> QED BY <1>1, <1>2, <1>3, <2>1, StayPut
<1> QED BY <1>4, <1>5, <1>6, <1>7, <1>8

LEMMA ScanLoose ==
  ASSUME NEW p \in Proc, LockInv, FileInv, ScanStep(p)
  PROVE  LooseStep(p)
<1>1. {"idle", "dead", "scanrec", "scandat", "scanunlock"} \subseteq LooseLabels
  BY Loose DEF OutLabels
<1>2. ASSUME NEW l \in LooseLabels, NEW h, pc' = [pc EXCEPT ![p] = l], db' = [db EXCEPT ![p] = h],
             \A q \in Proc \ {p} : call'[q] = call[q], UNCHANGED files
      PROVE  LooseStep(p)
  BY <1>2 DEF LooseStep, StepTo, SameData, files
<1>3. \A c : call' = [call EXCEPT ![p] = c] \/ call' = call => \A q \in Proc \ {p} : call'[q] = call[q]
  BY DEF LockInv, LockType
<1>4. CASE ScanLock(p) \/ ScanEof(p) \/ ScanData(p)
  <2>1. /\ db' = db /\ call' = call /\ UNCHANGED files
        /\ \E l \in {"scanrec", "scanunlock"} : pc' = [pc EXCEPT ![p] = l]
    BY <1>4 DEF ScanLock, ScanEof, ScanData, Goto
  <2> QED BY <1>1, <1>2, <1>3, <2>1, StayPut
<1>5. CASE ScanRecord(p)
  <2>1. /\ db' = [db EXCEPT ![p] = ReadIdx(p, pos[p])] /\ call' = call /\ UNCHANGED files
        /\ \E l \in {"scanrec", "scandat"} : pc' = [pc EXCEPT ![p] = l]
    BY <1>5 DEF ScanRecord, Goto
  <2> QED BY <1>1, <1>2, <1>3, <2>1
<1>6. CASE ScanMisaligned(p)
  <2>1. pc' = [pc EXCEPT ![p] = "dead"] /\ db' = [db EXCEPT ![p] = Scratch] /\ UNCHANGED files /\ call' = call
    BY <1>6 DEF ScanMisaligned, Exit, Goto
  <2> QED BY <1>1, <1>2, <1>3, <2>1
<1>7. CASE ScanUnlock(p)
  <2>1. /\ pc' = [pc EXCEPT ![p] = "idle"] /\ db' = [db EXCEPT ![p] = Scratch] /\ UNCHANGED files
        /\ call' = [call EXCEPT ![p] = NoCall]
    BY <1>7 DEF ScanUnlock, Goto
  <2> QED BY <1>1, <1>2, <1>3, <2>1
<1> QED BY <1>4, <1>5, <1>6, <1>7 DEF ScanStep

\* _db_readidx: the handle agrees with the record it has read.
LEMMA ReadData ==
  ASSUME NEW p \in Proc, NEW l, LockInv, FileInv, DataInv, NEW o \in Written, call' = call, SameData,
         pc' = [pc EXCEPT ![p] = l], db' = [db EXCEPT ![p] = ReadIdx(p, o)],
         l \notin AppendedLabels, l \in SizeLabels => rec[o].datlen = DatLen[call[p].data]
  PROVE  DataInv'
<1>1. StepTo(p, l, ReadIdx(p, o))
  BY DEF StepTo
<1>2. pc'[p] = l /\ db'[p] = ReadIdx(p, o)
  BY <1>1, StepToAt
<1>3. /\ ReadIdx(p, o).idxoff = o /\ ReadIdx(p, o).datoff = rec[o].datoff
      /\ ReadIdx(p, o).datlen = rec[o].datlen
  <2>1. db[p] \in Handles
    BY Before
  <2> QED BY <2>1 DEF ReadIdx, Handles
<1>4. DataPlace(p)'
  BY <1>2, <1>3 DEF DataPlace, SameData
<1> QED BY <1>1, <1>4, DataLooks

LEMMA FoundData ==
  ASSUME NEW p \in Proc, LockInv, FileInv, DataInv, Found(p) \/ FreeFound(p)
  PROVE  DataInv'
<1>1. db[p].offset \in Written
  BY Before DEF Found, FreeFound, Ref
<1>2. call' = call /\ SameData
  BY DEF Found, FreeFound, files, SameData
<1>3. CASE FreeFound(p)
  <2>1. rec[db[p].offset].datlen = DatLen[call[p].data]
    BY <1>3 DEF FreeFound, FreeFits
  <2>2. pc' = [pc EXCEPT ![p] = "freetake"] /\ db' = [db EXCEPT ![p] = ReadIdx(p, db[p].offset)]
    BY <1>3 DEF FreeFound, Goto
  <2> QED BY <1>1, <1>2, <2>1, <2>2, ReadData DEF AppendedLabels
<1>4. CASE Found(p)
  <2>1. /\ pc' = [pc EXCEPT ![p] = AfterFound(p)] /\ db' = [db EXCEPT ![p] = ReadIdx(p, db[p].offset)]
    BY <1>4 DEF Found, Goto
  <2>2. AfterFound(p) \in {"unlock", "readdat", "dellock", "overwrite"}
    BY DEF AfterFound
  <2>3. AfterFound(p) = "overwrite" => rec[db[p].offset].datlen = DatLen[call[p].data]
    BY DEF AfterFound
  <2>4. AfterFound(p) \notin AppendedLabels /\ (AfterFound(p) \in SizeLabels => AfterFound(p) = "overwrite")
    BY <2>2 DEF SizeLabels, AppendedLabels, TakenLabels, NewLabels
  <2> QED BY <1>1, <1>2, <2>1, <2>3, <2>4, ReadData
<1> QED BY <1>3, <1>4

\* Steps that keep the handle and its data record.
LEMMA TiedData ==
  ASSUME NEW p \in Proc, LockInv, FileInv, DataInv,
         DelLock(p) \/ DelFree(p) \/ FreeTake(p) \/ FreeUnlock(p) \/ DatUnlock(p) \/ IdxLock(p) \/ IdxSeek(p)
           \/ IdxUnlock(p)
  PROVE  DataInv'
<1>1. ASSUME NEW l, NEW h, pc' = [pc EXCEPT ![p] = l], db' = [db EXCEPT ![p] = h],
             l \in AgreeLabels => pc[p] \in AgreeLabels /\ h.idxoff = db[p].idxoff,
             l \in SizeLabels => pc[p] \in SizeLabels, l \in AppendedLabels => pc[p] \in AppendedLabels,
             h.datoff = db[p].datoff, h.datlen = db[p].datlen
      PROVE  DataInv'
  <2>1. call' = call /\ SameData
    BY DEF DelLock, DelFree, FreeTake, FreeUnlock, DatUnlock, IdxLock, IdxSeek, IdxUnlock,
           SameData, files, ReadPtr, WritePtr
  <2>2. StepTo(p, l, h)
    BY <1>1, <2>1 DEF StepTo
  <2> QED BY <1>1, <2>1, <2>2, DataMoves
<1>2. CASE DelLock(p) \/ FreeTake(p) \/ DatUnlock(p) \/ IdxLock(p) \/ IdxUnlock(p)
  <2>1. db' = [db EXCEPT ![p] = db[p]]
    BY <1>2, StayPut DEF DelLock, FreeTake, DatUnlock, IdxLock, IdxUnlock
  <2>2. \E l : /\ pc' = [pc EXCEPT ![p] = l]
               /\ <<pc[p], l>> \in {<<"dellock", "delblank">>, <<"freetake", "freeunlock">>,
                    <<"datunlock", "idxlock">>, <<"idxlock", "idxseek">>, <<"idxunlock", "link">>}
    BY <1>2 DEF DelLock, FreeTake, DatUnlock, IdxLock, IdxUnlock, Goto
  <2> QED BY <1>1, <2>1, <2>2
             DEF AgreeLabels, FoundLabels, TakenLabels, NewLabels, SizeLabels, AppendedLabels
<1>3. CASE DelFree(p) \/ IdxSeek(p)
  <2>1. db[p] \in Handles
    BY Before
  <2>2. CASE DelFree(p)
    <3> DEFINE h == [db[p] EXCEPT !.head = ptr[FREE_OFF], !.save = db[p].ptrval]
    <3>0. db' = [db EXCEPT ![p] = h]
      BY <2>2, Before DEF DelFree, HandleType, Handles
    <3>1. h.idxoff = db[p].idxoff /\ h.datoff = db[p].datoff /\ h.datlen = db[p].datlen
      BY <2>1 DEF Handles
    <3> HIDE DEF h
    <3>2. pc' = [pc EXCEPT ![p] = "delidx"] /\ pc[p] = "delfree"
      BY <2>2 DEF DelFree, Goto
    <3> QED BY <1>1, <3>0, <3>1, <3>2
               DEF AgreeLabels, FoundLabels, TakenLabels, NewLabels, SizeLabels, AppendedLabels
  <2>3. CASE IdxSeek(p)
    <3> DEFINE h == [db[p] EXCEPT !.idxoff = idxsize]
    <3>0. db' = [db EXCEPT ![p] = h]
      BY <2>3 DEF IdxSeek
    <3>1. h.datoff = db[p].datoff /\ h.datlen = db[p].datlen
      BY <2>1 DEF Handles
    <3> HIDE DEF h
    <3>2. pc' = [pc EXCEPT ![p] = "idxwrite"] /\ pc[p] = "idxseek"
      BY <2>3 DEF IdxSeek, Goto
    <3> QED BY <1>1, <3>0, <3>1, <3>2
               DEF AgreeLabels, FoundLabels, TakenLabels, NewLabels, SizeLabels, AppendedLabels
  <2> QED BY <1>3, <2>2, <2>3
<1>4. CASE FreeUnlock(p)
  <2>1. db' = [db EXCEPT ![p] = db[p]]
    BY <1>4, StayPut DEF FreeUnlock
  <2>2. \/ pc' = [pc EXCEPT ![p] = "datlock"]
        \/ pc' = [pc EXCEPT ![p] = "reuse"] /\ pc[p] = "freeunlock"
    BY <1>4 DEF FreeUnlock, Goto
  <2> QED BY <1>1, <2>1, <2>2
             DEF AgreeLabels, FoundLabels, TakenLabels, NewLabels, SizeLabels, AppendedLabels
<1> QED BY <1>2, <1>3, <1>4

\* Writing over the data record that the index record of the handle has.
LEMMA OverData ==
  ASSUME NEW p \in Proc, NEW l, NEW d, LockInv, FileInv, DataInv, WriteDat(p, db[p].datoff, d),
         call' = call, pc' = [pc EXCEPT ![p] = l], db' = db,
         pc[p] \in AgreeLabels, d \in Data => db[p].datlen = DatLen[d],
         l \in SizeLabels => pc[p] \in SizeLabels, l \notin AppendedLabels
  PROVE  DataInv'
<1>1. StepTo(p, l, db[p]) /\ pc'[p] = l /\ db'[p] = db[p]
  BY StayPut DEF StepTo, LockInv, LockType
<1>2. db[p].idxoff \in Written /\ db[p].datoff \in 1 .. DatCap
  BY HandleData
<1>3. DataPlace(p) /\ rec[db[p].idxoff].datoff = db[p].datoff /\ rec[db[p].idxoff].datlen = db[p].datlen
  BY DEF DataInv, DataPlace
<1>4. dat' = [dat EXCEPT ![db[p].datoff] = d] /\ rec' = rec /\ idxsize' = idxsize
  BY DEF WriteDat
<1>5. DatSafe(p)
  <2> SUFFICES ASSUME NEW i \in 1 .. DatCap, dat'[i] # dat[i]
               PROVE  /\ \A q \in Proc \ {p} : pc[q] \in AppendedLabels => db[q].datoff # i
                      /\ \A o \in Written : rec[o].datoff = i /\ dat'[i] \in Data => DatLen[dat'[i]] = rec[o].datlen
    BY DEF DatSafe
  <2>1. i = db[p].datoff /\ dat'[i] = d
    BY <1>4 DEF FileInv, FileType
  <2>2. \A q \in Proc \ {p} : pc[q] \in AppendedLabels => db[q].datoff # i
    BY <1>2, <1>3, <2>1 DEF DataInv, DataPlace
  <2>3. \A o \in Written : rec[o].datoff = i => o = db[p].idxoff
    BY <1>2, <1>3, <2>1 DEF DataInv, DataUnshared, Written
  <2> QED BY <1>3, <2>1, <2>2, <2>3
<1>6. DataPlace(p)'
  BY <1>1, <1>3, <1>4 DEF DataPlace
<1> QED BY <1>1, <1>4, <1>5, <1>6, DataKeeps

LEMMA WriteData ==
  ASSUME NEW p \in Proc, LockInv, FileInv, DataInv, DelBlank(p) \/ Overwrite(p) \/ Reuse(p)
  PROVE  DataInv'
<1>1. pc[p] \in AgreeLabels
  BY DEF DelBlank, Overwrite, Reuse, AgreeLabels, FoundLabels, TakenLabels
<1>2. call' = call /\ db' = db
  BY DEF DelBlank, Overwrite, Reuse
<1>3. CASE DelBlank(p)
  <2>1. Blank \notin Data
    BY DbConstants
  <2>2. WriteDat(p, db[p].datoff, Blank) /\ pc' = [pc EXCEPT ![p] = "delfree"]
    BY <1>3 DEF DelBlank, Goto
  <2>3. "delfree" \notin SizeLabels /\ "delfree" \notin AppendedLabels
    BY DEF SizeLabels, AppendedLabels, TakenLabels, NewLabels
  <2> QED BY <1>1, <1>2, <2>1, <2>2, <2>3, OverData
<1>4. CASE Overwrite(p) \/ Reuse(p)
  <2>1. pc[p] \in SizeLabels
    BY <1>4 DEF Overwrite, Reuse, SizeLabels, TakenLabels
  <2>2. db[p].datlen = DatLen[call[p].data]
    BY <2>1 DEF DataInv, DataPlace
  <2>3. /\ WriteDat(p, db[p].datoff, call[p].data)
        /\ pc' = [pc EXCEPT ![p] = "unlock"] \/ pc' = [pc EXCEPT ![p] = "idxrewrite"]
    BY <1>4 DEF Overwrite, Reuse, Goto
  <2>4. "unlock" \notin AppendedLabels /\ "idxrewrite" \notin AppendedLabels
    BY DEF AppendedLabels
  <2> QED BY <1>1, <1>2, <2>1, <2>2, <2>3, <2>4, OverData
<1> QED BY <1>3, <1>4

\* Appending to the data file.
LEMMA AppendData ==
  ASSUME NEW p \in Proc, LockInv, FileInv, DataInv, DatSeek(p) \/ DatAppend(p)
  PROVE  DataInv'
<1>1. CASE DatSeek(p)
  <2> DEFINE h == [db[p] EXCEPT !.datoff = datsize, !.datlen = DatLen[call[p].data]]
  <2>1. db' = [db EXCEPT ![p] = h]
    BY <1>1, Before DEF DatSeek, HandleType, Handles
  <2>2. h.datlen = DatLen[call[p].data]
    BY Before DEF Handles
  <2> HIDE DEF h
  <2>3. pc' = [pc EXCEPT ![p] = "datwrite"] /\ call' = call /\ SameData
    BY <1>1 DEF DatSeek, Goto, files, SameData
  <2>0. StepTo(p, "datwrite", h)
    BY <2>1, <2>3 DEF StepTo
  <2>4. pc'[p] = "datwrite" /\ db'[p] = h
    BY <2>0, StepToAt
  <2>5. "datwrite" \notin AgreeLabels /\ "datwrite" \notin AppendedLabels
    BY DEF AgreeLabels, FoundLabels, TakenLabels, NewLabels, AppendedLabels
  <2>6. DataPlace(p)'
    BY <2>2, <2>3, <2>4, <2>5 DEF DataPlace
  <2> QED BY <2>0, <2>3, <2>5, <2>6, DataLooks
<1>2. CASE DatAppend(p)
  <2>1. /\ pc[p] = "datwrite" /\ pc' = [pc EXCEPT ![p] = "datunlock"] /\ db' = db /\ call' = call
        /\ WriteDat(p, db[p].datoff, call[p].data) /\ db[p].datoff <= DatCap
    BY <1>2 DEF DatAppend, Goto
  <2>2. dat' = [dat EXCEPT ![db[p].datoff] = call[p].data] /\ rec' = rec /\ idxsize' = idxsize
    BY <2>1 DEF WriteDat
  <2>3. db[p].datoff = datsize /\ FileType /\ datsize \in 1 .. DatCap
    <3>1. db[p].datoff = datsize /\ FileType
      BY <2>1, Before
    <3> QED BY <2>1, <3>1, FileSizes, Sizes
  <2>4. /\ \A o \in Written : rec[o].datoff # datsize
        /\ \A q \in Proc : pc[q] \in AppendedLabels => db[q].datoff # datsize
    BY WrittenData, HandleData
  <2>0. StepTo(p, "datunlock", db[p])
    BY <2>1, StayPut DEF StepTo
  <2>5. pc'[p] = "datunlock" /\ db'[p] = db[p]
    BY <2>0, StepToAt
  <2>6. DatSafe(p)
    <3>1. \A i \in 1 .. DatCap : i # datsize => dat'[i] = dat[i]
      BY <2>2, <2>3 DEF FileType
    <3> QED BY <2>4, <3>1 DEF DatSafe
  <2>7. DataPlace(p)'
    <3>1. "datunlock" \notin AgreeLabels /\ pc[p] \in SizeLabels
      BY <2>1 DEF AgreeLabels, FoundLabels, TakenLabels, NewLabels, SizeLabels
    <3>2. db[p].datlen = DatLen[call[p].data]
      BY <3>1 DEF DataInv, DataPlace
    <3>3. dat'[db[p].datoff] = call[p].data
      BY <2>2, <2>3 DEF FileType
    <3>4. Written' = Written
      BY <2>2 DEF Written
    <3> QED BY <2>1, <2>2, <2>3, <2>4, <2>5, <3>1, <3>2, <3>3, <3>4 DEF DataPlace
  <2> QED BY <2>0, <2>2, <2>3, <2>4, <2>6, <2>7, DataKeeps
<1> QED BY <1>1, <1>2

\* Writing over an index record keeps the data record that it has.
LEMMA RewriteData ==
  ASSUME NEW p \in Proc, LockInv, FileInv, DataInv, DelIdx(p) \/ IdxRewrite(p)
  PROVE  DataInv'
<1>1. pc[p] \in AgreeLabels /\ call' = call
  BY DEF DelIdx, IdxRewrite, AgreeLabels, FoundLabels, TakenLabels
<1>2. PICK r : r = db[p].idxoff
  OBVIOUS
<1>3. r \in Written /\ DataPlace(p) /\ rec[r].datoff = db[p].datoff /\ rec[r].datlen = db[p].datlen
  BY <1>1, <1>2, HandleData DEF DataInv, DataPlace
<1>4. PICK k, n, v : WriteIdx(p, r, k, n, v)
  BY <1>2 DEF DelIdx, IdxRewrite
<1>5. FileType /\ r \in Records /\ idxsize \in Int /\ r \in Int /\ r < idxsize
  <2>1. FileType
    BY DEF FileInv
  <2> QED BY <1>3, <2>1, WrittenOffsets, FileSizes, Sizes DEF Written
<1>6. /\ rec' = [rec EXCEPT ![r] = [key |-> k, klen |-> n, datoff |-> db[p].datoff, datlen |-> db[p].datlen]]
      /\ idxsize' = idxsize /\ dat' = dat
  BY <1>4, <1>5 DEF WriteIdx
<1>7. rec'[r].datoff = db[p].datoff /\ rec'[r].datlen = db[p].datlen
  BY <1>5, <1>6 DEF FileType
<1>8. \A o \in Written : rec'[o].datoff = rec[o].datoff /\ rec'[o].datlen = rec[o].datlen
  <2>1. \A o \in Written : o # r => rec'[o] = rec[o]
    BY <1>5, <1>6, WrittenOffsets DEF FileType
  <2> QED BY <1>3, <1>7, <2>1
<1>9. DatSafe(p)
  BY <1>6 DEF DatSafe
<1>10. ASSUME NEW l, NEW h, StepTo(p, l, h), l \in {"delhead", "link"}, l = "link" => h = db[p] /\ pc[p] = "idxrewrite"
       PROVE  DataInv'
  <2>1. pc'[p] = l /\ db'[p] = h
    BY <1>10, StepToAt
  <2>2. l \notin AppendedLabels /\ (l = "delhead" => l \notin AgreeLabels /\ l \notin SizeLabels)
    BY <1>10 DEF AgreeLabels, FoundLabels, TakenLabels, NewLabels, SizeLabels, AppendedLabels
  <2>3. pc[p] = "idxrewrite" => pc[p] \in SizeLabels
    BY DEF SizeLabels, TakenLabels
  <2>4. DataPlace(p)'
    BY <1>1, <1>2, <1>3, <1>7, <1>10, <2>1, <2>2, <2>3 DEF DataPlace
  <2> QED BY <1>6, <1>8, <1>9, <1>10, <2>2, <2>4, DataKeeps
<1>11. CASE DelIdx(p)
  <2>1. StepTo(p, "delhead", [db[p] EXCEPT !.ptrval = db[p].head])
    BY <1>1, <1>11 DEF StepTo, DelIdx, Goto
  <2> QED BY <1>10, <2>1
<1>12. CASE IdxRewrite(p)
  <2>1. StepTo(p, "link", db[p]) /\ pc[p] = "idxrewrite"
    BY <1>1, <1>12, StayPut DEF StepTo, IdxRewrite, Goto
  <2> QED BY <1>10, <2>1
<1> QED BY <1>11, <1>12

\* A new index record has the data record that its db_store has appended.
LEMMA NewData ==
  ASSUME NEW p \in Proc, LockInv, FileInv, DataInv, IdxAppend(p)
  PROVE  DataInv'
<1> DEFINE r == db[p].idxoff
           i == db[p].datoff
<1>1. /\ pc[p] = "idxwrite" /\ call' = call /\ db' = db /\ pc' = [pc EXCEPT ![p] = "idxunlock"]
      /\ r <= IdxCap /\ WriteIdx(p, r, call[p].key, KeyLen[call[p].key], db[p].head)
  BY DEF IdxAppend, Goto
<1>2. r = idxsize /\ FileType
  BY <1>1, Before
<1>3. r \in Records /\ r \notin Written /\ \A o : o \in Written' <=> o \in Written \/ o = r
  <2>1. idxsize \in Int /\ RecOff \in Int /\ RecOff <= idxsize /\ IdxCap \in Int
    BY <1>2, FileSizes, Sizes
  <2>2. idxsize' = idxsize + 1
    BY <1>1, <1>2, <2>1 DEF WriteIdx
  <2> QED BY <1>1, <1>2, <2>1, <2>2 DEF Records, Written
<1>4. /\ rec' = [rec EXCEPT ![r] = [key |-> call[p].key, klen |-> KeyLen[call[p].key],
                                    datoff |-> i, datlen |-> db[p].datlen]]
      /\ dat' = dat
  BY <1>1 DEF WriteIdx
<1>5. rec'[r].datoff = i /\ rec'[r].datlen = db[p].datlen
  BY <1>2, <1>3, <1>4 DEF FileType
<1>6. \A o \in Written : rec'[o] = rec[o]
  BY <1>2, <1>3, <1>4, WrittenOffsets DEF FileType
<1>7. /\ DataPlace(p) /\ dat[i] = call[p].data /\ db[p].datlen = DatLen[call[p].data]
      /\ \A o \in Written : rec[o].datoff # i
  <2>1. pc[p] \in AppendedLabels /\ pc[p] \in SizeLabels
    BY <1>1 DEF AppendedLabels, SizeLabels
  <2> QED BY <2>1 DEF DataInv, DataPlace
<1> HIDE DEF r, i
<1>8. /\ pc'[p] = "idxunlock" /\ db'[p] = db[p]
      /\ \A q \in Proc \ {p} : pc'[q] = pc[q] /\ db'[q] = db[q] /\ call'[q] = call[q]
  BY <1>1 DEF LockInv, LockType
<1>9. DataUnshared'
  <2>1. \A o \in Written : /\ \A o2 \in Written : rec[o].datoff = rec[o2].datoff => o = o2
                           /\ dat[rec[o].datoff] \in Data => DatLen[dat[rec[o].datoff]] = rec[o].datlen
    BY DEF DataInv, DataUnshared, Written
  <2>2. \A o \in Written' : /\ \A o2 \in Written' : rec'[o].datoff = rec'[o2].datoff => o = o2
                            /\ dat'[rec'[o].datoff] \in Data => DatLen[dat'[rec'[o].datoff]] = rec'[o].datlen
    BY <1>3, <1>4, <1>5, <1>6, <1>7, <2>1
  <2> QED BY <2>2 DEF DataUnshared, Written
<1>10. "idxunlock" \notin AppendedLabels /\ pc[p] \in AppendedLabels
  BY <1>1 DEF AppendedLabels
<1>11. DataPlace(p)'
  BY <1>1, <1>5, <1>7, <1>8, <1>10 DEF DataPlace, r, i
<1>12. ASSUME NEW q \in Proc \ {p} PROVE DataPlace(q)'
  <2>1. DataPlace(q) /\ pc'[q] = pc[q] /\ db'[q] = db[q] /\ call'[q] = call[q]
    BY <1>8 DEF DataInv
  <2>2. pc[q] \in AgreeLabels => rec'[db[q].idxoff] = rec[db[q].idxoff]
    BY <1>6, HandleData
  <2>3. pc[q] \in AppendedLabels => db[q].datoff # i
    BY <1>10 DEF DataInv, i
  <2>4. pc[q] \in AppendedLabels => \A o \in Written' : rec'[o].datoff # db[q].datoff
    BY <1>3, <1>5, <1>6, <2>1, <2>3 DEF DataPlace
  <2> QED BY <1>4, <2>1, <2>2, <2>4 DEF DataPlace
<1>13. \A q, o \in Proc : q # o /\ pc'[q] \in AppendedLabels /\ pc'[o] \in AppendedLabels
                            => db'[q].datoff # db'[o].datoff
  BY <1>1, <1>8, <1>10 DEF DataInv
<1> QED BY <1>9, <1>11, <1>12, <1>13 DEF DataInv

LEMMA StepData ==
  ASSUME NEW p \in Proc, LockInv, FileInv, DataInv, Begin(p) \/ Step(p) \/ Reopen(p) \/ Crash(p)
  PROVE  DataInv'
<1>1. CASE LooseStep(p)
  BY <1>1, DataLoose DEF LooseStep
<1>2. CASE Begin(p) \/ Reopen(p) \/ UnlockChain(p) \/ Crash(p) \/ DatFull(p) \/ IdxFull(p) \/ LinkRefused(p)
  BY <1>1, <1>2, CallsLoose
<1>3. CASE ScanStep(p)
  BY <1>1, <1>3, ScanLoose
<1>4. CASE FindStep(p) \/ FetchData(p)
  <2>1. CASE Found(p)
    BY <2>1, FoundData
  <2>2. CASE ~Found(p)
    BY <1>1, <1>4, <2>2, FindLoose DEF FindStep
  <2> QED BY <2>1, <2>2
<1>5. CASE DeleteStep(p)
  BY <1>1, <1>5, DeleteLoose, TiedData, WriteData, RewriteData DEF DeleteStep
<1>6. CASE FreeStep(p)
  BY <1>1, <1>6, DeleteLoose, TiedData, FoundData DEF FreeStep
<1>7. CASE StoreStep(p)
  BY <1>1, <1>2, <1>7, DeleteLoose, TiedData, WriteData, AppendData, RewriteData, NewData DEF StoreStep
<1> QED BY <1>2, <1>3, <1>4, <1>5, <1>6, <1>7 DEF Step

LEMMA NextData == LockInv /\ FileInv /\ DataInv /\ [KillNext]_vars => DataInv'
<1> SUFFICES ASSUME LockInv, FileInv, DataInv, [KillNext]_vars PROVE DataInv'
  OBVIOUS
<1>1. CASE KillNext
  <2>1. PICK p \in Proc : Begin(p) \/ Step(p) \/ Reopen(p) \/ Crash(p)
    BY <1>1 DEF KillNext, Next
  <2> QED BY <2>1, StepData
<1>2. CASE UNCHANGED vars
  <2>1. UNCHANGED <<rec, idxsize, dat, pc, db, call>>
    BY <1>2 DEF vars, files
  <2> QED BY <2>1 DEF DataInv, DataUnshared, DataPlace, Written
<1> QED BY <1>1, <1>2

LEMMA InitData == Init => DataInv
<1> SUFFICES ASSUME Init PROVE DataInv
  OBVIOUS
<1>1. idxsize = RecOff /\ \A p \in Proc : pc[p] = "idle"
  BY DEF Init
<1>2. RecOff .. idxsize - 1 = {}
  BY <1>1, Sizes
<1>3. "idle" \notin AgreeLabels /\ "idle" \notin SizeLabels /\ "idle" \notin AppendedLabels
  BY DEF AgreeLabels, FoundLabels, TakenLabels, NewLabels, SizeLabels, AppendedLabels
<1> QED BY <1>1, <1>2, <1>3 DEF DataInv, DataUnshared, DataPlace

LEMMA DataHolds == KillSpec => [](DbIInv /\ DataInv)
<1>1. Init => DbIInv /\ DataInv
  BY InitLockInv, InitFileInv, InitData DEF DbIInv
<1>2. DbIInv /\ DataInv /\ [KillNext]_vars => (DbIInv /\ DataInv)'
  BY NextLockInv, NextFileInv, NextData DEF DbIInv
<1> QED BY <1>1, <1>2, PTL DEF KillSpec

\* No two index records share a data record, and the data in it has the length that
\* the index record says, for any number of processes, keys and records and however
\* processes are killed: _db_writedat in place never touches another record's data.
THEOREM UnsharedData == KillSpec => []DataUnshared
<1>1. DbIInv /\ DataInv => DataUnshared
  BY DEF DataInv
<1> QED BY <1>1, DataHolds, PTL

-----------------------------------------------------------------------------
(* The calls of the map.                                                    *)

\* All the invariants, with the answers.
FullInv(own, nx, rank) == AllInv(own, nx, rank) /\ Whole(own) /\ \A p \in Proc : AnswerPlace(p)

\* What a step does in the map.
MapStep == Map!Next \/ UNCHANGED Map!vars

ActiveLabels == Labels \ {"idle", "dead"}

-----------------------------------------------------------------------------
(* The abstract call of a process.                                          *)

LEMMA AbstractAt ==
  ASSUME NEW p \in Proc
  PROVE  AbstractCall[p] = IF pc[p] = "dead" THEN NoCall ELSE call[p]
BY DEF AbstractCall

LEMMA AbstractStays ==
  ASSUME call' = call, \A q \in Proc : pc'[q] = "dead" <=> pc[q] = "dead"
  PROVE  AbstractCall' = AbstractCall
BY DEF AbstractCall

LEMMA AbstractMoves ==
  ASSUME NEW p \in Proc, NEW c, c = IF pc'[p] = "dead" THEN NoCall ELSE call'[p],
         \A q \in Proc \ {p} : pc'[q] = pc[q] /\ call'[q] = call[q]
  PROVE  AbstractCall' = [AbstractCall EXCEPT ![p] = c]
BY DEF AbstractCall

\* A process inside a call has a call.
LEMMA ActiveCall ==
  ASSUME NEW p \in Proc, LockInv, AnswerPlace(p), pc[p] \in ActiveLabels
  PROVE  call[p] # NoCall /\ AbstractCall[p] = call[p]
<1>1. call[p].op \in {"fetch", "store", "delete", "nextrec"}
  <2>1. CASE pc[p] \in {"scanlock"} \cup ReadLabels
    BY <2>1 DEF AnswerPlace
  <2>2. CASE pc[p] \notin {"scanlock"} \cup ReadLabels
    <3>1. InChain(p) \/ pc[p] = "findlock"
      BY <2>2 DEF InChain, OutLabels, ReadLabels, ActiveLabels
    <3> QED BY <3>1 DEF LockInv, CallOK
  <2> QED BY <2>1, <2>2
<1> QED BY <1>1, AbstractAt DEF NoCall, ActiveLabels

-----------------------------------------------------------------------------
(* Steps inside a call that the map does not see.                           *)

\* Labels of a call that has not taken effect, outside the scan.
OpenLabels == ActiveLabels \ ({"scanlock", "unlock", "delunlock"} \cup ReadLabels)

Hidden(p) == call' = call /\ ret' = ret /\ kv' = kv /\ pc[p] \in OpenLabels /\ pc'[p] \in OpenLabels

LEMMA HiddenStep ==
  ASSUME NEW p \in Proc, LockInv, AnswerPlace(p), Hidden(p), \A q \in Proc \ {p} : pc'[q] = pc[q]
  PROVE  AnswerPlace(p)' /\ MapStep
<1>1. /\ pc[p] \notin {"idle", "dead", "scanlock", "unlock", "delunlock"} \cup ReadLabels
      /\ pc'[p] \notin {"idle", "dead", "scanlock", "unlock", "delunlock"} \cup ReadLabels
  BY DEF Hidden, OpenLabels, ActiveLabels
<1>2. AnswerPlace(p)'
  BY <1>1 DEF AnswerPlace, DoneLabels, ReadLabels, Hidden
<1>3. AbstractCall' = AbstractCall
  BY <1>1, AbstractStays DEF Hidden
<1>4. UNCHANGED Map!vars
  BY <1>3 DEF Map!vars, Hidden
<1> QED BY <1>2, <1>4 DEF MapStep

LEMMA HiddenSteps ==
  ASSUME NEW p \in Proc, LockInv,
         \/ FindLock(p) \/ FindPtr(p) \/ FindNext(p)
         \/ NotFound(p) /\ pc'[p] # "unlock"
         \/ Found(p) /\ pc'[p] # "unlock"
         \/ DelLock(p) \/ DelBlank(p) \/ DelFree(p) \/ DelIdx(p) \/ DelHead(p)
         \/ FreeStep(p)
         \/ ReadHead(p) \/ Reuse(p) \/ IdxRewrite(p) \/ DatLock(p) \/ DatSeek(p) \/ DatAppend(p)
         \/ DatUnlock(p) \/ IdxLock(p) \/ IdxSeek(p) \/ IdxAppend(p) \/ IdxUnlock(p)
  PROVE  Hidden(p)
<1>1. /\ pc \in [Proc -> Labels]
      /\ OpenLabels = {"findlock", "findptr", "findrec", "readdat", "dellock", "delblank", "delfree", "delidx",
                       "delhead", "delunlink", "readhead", "freelock", "freeptr", "freerec", "freetake",
                       "freeunlock", "overwrite", "reuse", "idxrewrite", "datlock", "datseek", "datwrite",
                       "datunlock", "idxlock", "idxseek", "idxwrite", "idxunlock", "link"}
  BY DEF LockInv, LockType, OpenLabels, ActiveLabels, ReadLabels, Labels
<1>2. CASE FindLock(p) \/ FindPtr(p) \/ FindNext(p)
  BY <1>1, <1>2 DEF FindLock, FindPtr, FindNext, Goto, Hidden
<1>3. CASE NotFound(p) /\ pc'[p] # "unlock"
  BY <1>1, <1>3 DEF NotFound, Goto, Hidden
<1>4. CASE Found(p) /\ pc'[p] # "unlock"
  <2>1. AfterFound(p) \in {"unlock", "readdat", "dellock", "overwrite"}
    BY DEF AfterFound
  <2> QED BY <1>1, <1>4, <2>1 DEF Found, Goto, Hidden
<1>5. CASE DelLock(p) \/ DelBlank(p) \/ DelFree(p) \/ DelIdx(p) \/ DelHead(p)
  BY <1>1, <1>5 DEF DelLock, DelBlank, DelFree, DelIdx, DelHead, Goto, Hidden
<1>6. CASE FreeStep(p)
  BY <1>1, <1>6 DEF FreeStep, FreeLock, FreePtr, FreeNext, FreeFound, FreeTake, FreeUnlock, Goto, Hidden
<1>7. CASE ReadHead(p) \/ Reuse(p) \/ IdxRewrite(p) \/ DatLock(p) \/ DatSeek(p) \/ DatAppend(p)
  BY <1>1, <1>7 DEF ReadHead, Reuse, IdxRewrite, DatLock, DatSeek, DatAppend, Goto, Hidden
<1>8. CASE DatUnlock(p) \/ IdxLock(p) \/ IdxSeek(p) \/ IdxAppend(p) \/ IdxUnlock(p)
  BY <1>1, <1>8 DEF DatUnlock, IdxLock, IdxSeek, IdxAppend, IdxUnlock, Goto, Hidden
<1> QED BY <1>2, <1>3, <1>4, <1>5, <1>6, <1>7, <1>8

-----------------------------------------------------------------------------
(* Steps at which a call takes effect.                                      *)

\* p answers with r and goes to label l.
Answers(p, r, l) ==
  /\ pc[p] \in OpenLabels \cup {"scanrec", "scandat"} /\ call' = call /\ ret' = [ret EXCEPT ![p] = r]
  /\ pc' = [pc EXCEPT ![p] = l] /\ r.code # 2
  /\ l = "unlock" \/ (l = "scanunlock" /\ call[p].op = "nextrec") \/ (l = "delunlock" /\ call[p].op = "delete")

LEMMA AnswersPlace ==
  ASSUME NEW p \in Proc, LockInv, FileInv, AnswerPlace(p), NEW r, NEW l, Answers(p, r, l)
  PROVE  /\ AnswerPlace(p)' /\ Map!Answer(p, r) /\ AbstractCall[p] = call[p] /\ ret[p] = Pending
         /\ AbstractCall' = AbstractCall
<1>1. pc \in [Proc -> Labels] /\ DOMAIN ret = Proc /\ pc[p] \in ActiveLabels
      /\ pc[p] \notin {"idle", "dead", "unlock", "scanunlock", "delunlock"}
  BY DEF LockInv, LockType, FileInv, HandleType, Answers, OpenLabels, ActiveLabels, ReadLabels, Labels
<1>2. pc'[p] = l /\ ret'[p] = r /\ ret[p] = Pending /\ \A q \in Proc \ {p} : pc'[q] = pc[q]
  BY <1>1 DEF Answers, AnswerPlace, DoneLabels
<1>3. r # Pending
  BY DEF Answers, Pending, Result
<1>4. AbstractCall[p] = call[p] /\ call[p] # NoCall
  BY <1>1, ActiveCall
<1>5. AbstractCall' = AbstractCall
  BY <1>1, <1>2, AbstractStays DEF Answers
<1>6. AnswerPlace(p)'
  BY <1>2, <1>3 DEF AnswerPlace, Answers, DoneLabels, ReadLabels
<1>7. Map!Answer(p, r)
  BY <1>2, <1>4, <1>5 DEF Map!Answer, Map!Pending, Map!Result, Pending, Result, Answers
<1> QED BY <1>2, <1>4, <1>5, <1>6, <1>7

\* The record that _db_find_and_lock has found says what the map says.
LEMMA FoundInMap ==
  ASSUME NEW p \in Proc, NEW own, NEW nx, NEW rank, AllInv(own, nx, rank), InChain(p), pc[p] \notin BlankLabels,
         NEW o \in Records, own[o] = chainoff(p), rec[o].key = call[p].key
  PROVE  kv[call[p].key] # None /\ dat[rec[o].datoff] = kv[call[p].key]
<1>1. LockInv /\ FileInv /\ ListInv(own, nx, rank) /\ OnMap(own)
  BY DEF AllInv, MapInv
<1>2. chainoff(p) \in Chains
  BY <1>1, InKeys
<1>3. ASSUME NEW q \in Proc, pc[q] \in BlankLabels, db[q].idxoff = o PROVE FALSE
  <2>1. pc[q] \in FoundLabels /\ pc[q] \in DelLabels \cup StoreLabels /\ p # q
    BY <1>3 DEF BlankLabels, FoundLabels, DelLabels
  <2>2. rec[o].key = call[q].key /\ InChain(q) /\ call[q].op # "fetch"
    BY <1>1, <1>3, <2>1, AtWork DEF FindPlace
  <2> QED BY <1>1, <2>1, <2>2, LockInvExcludes DEF ChainExclusion, chainoff
<1> QED BY <1>1, <1>2, <1>3 DEF OnMap, BlankLabels

LEMMA MissedStep ==
  ASSUME NEW p \in Proc, NEW own, NEW nx, NEW rank, FullInv(own, nx, rank), NotFound(p), pc'[p] = "unlock"
  PROVE  AnswerPlace(p)' /\ MapStep
<1> DEFINE r == Result(-1, None, None)
<1>1. LockInv /\ FileInv /\ AnswerPlace(p) /\ AllInv(own, nx, rank) /\ pc[p] = "findrec" /\ db[p].offset = 0
  BY DEF FullInv, AllInv, NotFound
<1>2. kv[call[p].key] = None /\ kv \in [Keys -> Data \cup {None}] /\ call[p].op \in {"fetch", "store", "delete"}
      /\ pc \in [Proc -> Labels]
  BY <1>1, MissNone, Before DEF CallOK, InChain, OutLabels, LockType
<1>3. /\ pc' = [pc EXCEPT ![p] = "unlock"] /\ ret' = [ret EXCEPT ![p] = r]
      /\ ~(call[p].op = "store" /\ call[p].flag # "DB_REPLACE")
  <2>1. ~(call[p].op = "store" /\ call[p].flag # "DB_REPLACE")
    BY <1>2 DEF NotFound, Goto
  <2> QED BY <2>1 DEF NotFound, Goto, SetRet
<1>4. call' = call /\ kv' = kv
  BY DEF NotFound
<1>5. Answers(p, r, "unlock")
  BY <1>1, <1>3, <1>4 DEF Answers, OpenLabels, ActiveLabels, ReadLabels, Labels, Result
<1>6. AnswerPlace(p)' /\ Map!Answer(p, r) /\ AbstractCall[p] = call[p]
  BY <1>1, <1>5, AnswersPlace
<1>7. Map!Result(-1, None, None) = r /\ kv' = [kv EXCEPT ![call[p].key] = None]
  BY <1>2, <1>4 DEF Map!Result, Result
<1> HIDE DEF r
<1>8. Map!Fetch(p) \/ Map!Delete(p) \/ Map!Store(p)
  <2>1. CASE call[p].op = "fetch"
    BY <1>2, <1>4, <1>6, <1>7, <2>1 DEF Map!Fetch
  <2>2. CASE call[p].op = "delete"
    BY <1>2, <1>4, <1>6, <1>7, <2>2 DEF Map!Delete
  <2>3. CASE call[p].op = "store"
    BY <1>2, <1>3, <1>4, <1>6, <1>7, <2>3 DEF Map!Store
  <2> QED BY <1>2, <2>1, <2>2, <2>3
<1> QED BY <1>6, <1>8 DEF MapStep, Map!Next

LEMMA RefusedStep ==
  ASSUME NEW p \in Proc, NEW own, NEW nx, NEW rank, FullInv(own, nx, rank), Found(p), pc'[p] = "unlock"
  PROVE  AnswerPlace(p)' /\ MapStep
<1> DEFINE r == Result(1, None, None)
<1>1. LockInv /\ FileInv /\ AnswerPlace(p) /\ AllInv(own, nx, rank) /\ ListInv(own, nx, rank) /\ pc[p] = "findrec"
      /\ db[p].offset # 0 /\ rec[db[p].offset].key = call[p].key
  BY DEF FullInv, AllInv, Found
<1>2. InChain(p) /\ pc[p] \notin BlankLabels /\ pc \in [Proc -> Labels]
  BY <1>1 DEF InChain, OutLabels, BlankLabels, LockInv, LockType
<1>3. pc' = [pc EXCEPT ![p] = AfterFound(p)] /\ call' = call /\ kv' = kv
      /\ (AfterFound(p) = "unlock" => ret' = [ret EXCEPT ![p] = r])
  BY DEF Found, Goto, SetRet
<1>4. AfterFound(p) = "unlock"
  BY <1>2, <1>3
<1>5. call[p].op = "store" /\ call[p].flag = "DB_INSERT"
  BY <1>1, <1>2, <1>4, Before DEF AfterFound, CallOK
<1>6. own[db[p].offset] = chainoff(p) /\ db[p].offset \in Records
  <2>1. own[db[p].ptroff] = chainoff(p) /\ nx[db[p].ptroff] = db[p].offset /\ Shape(own, nx, rank)
    BY <1>1 DEF ListInv, Place, FindPlace
  <2>2. db[p].ptroff \in Offsets /\ chainoff(p) \in 0 .. NHash
    BY <1>1, <1>2, Before, InKeys DEF Handles
  <2> QED BY <1>1, <2>1, <2>2, FollowingOne
<1>7. kv[call[p].key] # None
  BY <1>1, <1>2, <1>6, FoundInMap
<1>8. Answers(p, r, "unlock")
  BY <1>1, <1>3, <1>4 DEF Answers, OpenLabels, ActiveLabels, ReadLabels, Labels, Result
<1>9. AnswerPlace(p)' /\ Map!Answer(p, r) /\ AbstractCall[p] = call[p]
  BY <1>1, <1>8, AnswersPlace
<1>10. Map!Result(1, None, None) = r
  BY DEF Map!Result, Result
<1> HIDE DEF r
<1>11. Map!Store(p)
  BY <1>3, <1>5, <1>7, <1>9, <1>10 DEF Map!Store
<1> QED BY <1>9, <1>11 DEF MapStep, Map!Next

LEMMA FetchedStep ==
  ASSUME NEW p \in Proc, NEW own, NEW nx, NEW rank, FullInv(own, nx, rank), FetchData(p)
  PROVE  AnswerPlace(p)' /\ MapStep
<1> DEFINE r == Result(0, None, dat[db[p].datoff])
<1>1. /\ LockInv /\ FileInv /\ DataInv /\ AnswerPlace(p) /\ AllInv(own, nx, rank) /\ ListInv(own, nx, rank)
      /\ pc[p] = "readdat"
  BY DEF FullInv, AllInv, FetchData
<1>2. InChain(p) /\ pc[p] \notin BlankLabels /\ pc[p] \in FoundLabels /\ pc[p] \in AgreeLabels /\ pc[p] \in RecordLabels
  BY <1>1 DEF InChain, OutLabels, BlankLabels, FoundLabels, AgreeLabels, RecordLabels
<1>3. pc' = [pc EXCEPT ![p] = "unlock"] /\ call' = call /\ kv' = kv /\ ret' = [ret EXCEPT ![p] = r]
  BY DEF FetchData, Goto, SetRet
<1>4. call[p].op = "fetch"
  BY <1>1, Before DEF CallOK
<1>5. db[p].idxoff \in Records /\ own[db[p].idxoff] = chainoff(p) /\ rec[db[p].idxoff].key = call[p].key
  <2>1. /\ own[db[p].ptroff] = chainoff(p) /\ nx[db[p].ptroff] = db[p].idxoff /\ Shape(own, nx, rank)
        /\ rec[db[p].idxoff].key = call[p].key
    BY <1>1, <1>2 DEF ListInv, Place, FindPlace
  <2>2. db[p].ptroff \in Offsets /\ chainoff(p) \in 0 .. NHash
    BY <1>1, <1>2, Before, InKeys DEF Handles
  <2>3. db[p].idxoff \in Records /\ db[p].idxoff # 0
    BY <1>1, <1>2, Before, WrittenOffsets, Places
  <2> QED BY <2>1, <2>2, <2>3, FollowingOne
<1>6. kv[call[p].key] # None /\ dat[db[p].datoff] = kv[call[p].key]
  <2>1. rec[db[p].idxoff].datoff = db[p].datoff
    BY <1>1, <1>2 DEF DataInv, DataPlace
  <2> QED BY <1>1, <1>2, <1>5, <2>1, FoundInMap
<1>7. Answers(p, r, "unlock")
  BY <1>1, <1>3 DEF Answers, OpenLabels, ActiveLabels, ReadLabels, Labels, Result
<1>8. AnswerPlace(p)' /\ Map!Answer(p, r) /\ AbstractCall[p] = call[p]
  BY <1>1, <1>7, AnswersPlace
<1>9. Map!Result(0, None, kv[call[p].key]) = r
  BY <1>6 DEF Map!Result, Result
<1> HIDE DEF r
<1>10. Map!Fetch(p)
  BY <1>3, <1>4, <1>6, <1>8, <1>9 DEF Map!Fetch
<1> QED BY <1>8, <1>10 DEF MapStep, Map!Next

LEMMA DeletedStep ==
  ASSUME NEW p \in Proc, NEW own, NEW nx, NEW rank, FullInv(own, nx, rank), DelUnlink(p)
  PROVE  AnswerPlace(p)' /\ MapStep
<1> DEFINE r == Result(0, None, None)
<1>1. /\ LockInv /\ FileInv /\ AnswerPlace(p) /\ MapPlace(p) /\ CallOK(p)
      /\ pc[p] = "delunlink" /\ pc' = [pc EXCEPT ![p] = "delunlock"] /\ call' = call
      /\ pc[p] \in OpenLabels /\ pc \in [Proc -> Labels]
  BY DEF FullInv, AllInv, MapInv, LockInv, LockType, DelUnlink, Goto, OpenLabels, ActiveLabels, ReadLabels, Labels
<1>2. kv[call[p].key] # None
  BY <1>1 DEF MapPlace, Between, Torn
<1>3. CASE call[p].op = "delete"
  <2>1. kv' = [kv EXCEPT ![call[p].key] = None] /\ ret' = [ret EXCEPT ![p] = r]
    BY <1>3 DEF DelUnlink, SetRet
  <2>2. Answers(p, r, "delunlock")
    BY <1>1, <1>3, <2>1 DEF Answers, Result
  <2>3. AnswerPlace(p)' /\ Map!Answer(p, r) /\ AbstractCall[p] = call[p]
    BY <1>1, <2>2, AnswersPlace
  <2>4. Map!Result(0, None, None) = r
    BY DEF Map!Result, Result
  <2> HIDE DEF r
  <2>5. Map!Delete(p)
    BY <1>2, <1>3, <2>1, <2>3, <2>4 DEF Map!Delete
  <2> QED BY <2>3, <2>5 DEF MapStep, Map!Next
<1>4. CASE call[p].op # "delete"
  <2>1. kv' = kv /\ ret' = ret
    BY <1>4 DEF DelUnlink
  <2>2. pc'[p] = "delunlock" /\ \A q \in Proc \ {p} : pc'[q] = pc[q]
    BY <1>1
  <2>3. AbstractCall' = AbstractCall
    BY <1>1, <2>2, AbstractStays
  <2>4. UNCHANGED Map!vars
    BY <2>1, <2>3 DEF Map!vars
  <2>5. ret[p] = Pending
    BY <1>1 DEF AnswerPlace, DoneLabels
  <2>6. AnswerPlace(p)'
    BY <1>1, <1>4, <2>1, <2>2, <2>5 DEF AnswerPlace, DoneLabels, ReadLabels
  <2> QED BY <2>4, <2>6 DEF MapStep
<1> QED BY <1>3, <1>4

\* db_store takes effect by writing over the data, or by linking a new record.
LEMMA StoredStep ==
  ASSUME NEW p \in Proc, NEW own, NEW nx, NEW rank, FullInv(own, nx, rank), Overwrite(p) \/ Link(p)
  PROVE  AnswerPlace(p)' /\ MapStep
<1> DEFINE r == Result(0, None, None)
<1>1. /\ LockInv /\ FileInv /\ AllInv(own, nx, rank) /\ AnswerPlace(p) /\ MapPlace(p) /\ CallOK(p)
      /\ pc[p] \in {"overwrite", "link"} /\ pc' = [pc EXCEPT ![p] = "unlock"] /\ call' = call
      /\ ret' = [ret EXCEPT ![p] = r] /\ kv' = [kv EXCEPT ![call[p].key] = call[p].data]
  BY DEF FullInv, AllInv, MapInv, LockInv, Overwrite, Link, Goto, SetRet
<1>2. pc[p] \in OpenLabels /\ pc[p] \in StoreLabels /\ InChain(p) /\ pc[p] \notin BlankLabels
  BY <1>1 DEF OpenLabels, ActiveLabels, ReadLabels, Labels, StoreLabels, InChain, OutLabels, BlankLabels
<1>3. call[p].op = "store"
  BY <1>1, <1>2 DEF CallOK
<1>4. \/ kv[call[p].key] # None /\ call[p].flag # "DB_INSERT"
      \/ kv[call[p].key] = None /\ call[p].flag # "DB_REPLACE"
  <2>1. CASE pc[p] = "overwrite"
    <3>1. call[p].flag # "DB_INSERT"
      BY <1>1, <1>3, <2>1 DEF MapPlace
    <3>2. pc[p] \in {"delblank", "overwrite", "reuse"} /\ pc[p] # "reuse"
      BY <2>1
    <3>3. db[p].idxoff \in Records /\ own[db[p].idxoff] = chainoff(p) /\ rec[db[p].idxoff].key = call[p].key
      BY <1>1, <3>2, DataElsewhere
    <3> QED BY <1>1, <1>2, <3>1, <3>3, FoundInMap
  <2>2. CASE pc[p] = "link"
    BY <1>1, <1>2, <2>2 DEF MapPlace, Between
  <2> QED BY <1>1, <2>1, <2>2
<1>5. Answers(p, r, "unlock")
  BY <1>1, <1>2 DEF Answers, Result
<1>6. AnswerPlace(p)' /\ Map!Answer(p, r) /\ AbstractCall[p] = call[p]
  BY <1>1, <1>5, AnswersPlace
<1>7. Map!Result(0, None, None) = r
  BY DEF Map!Result, Result
<1> HIDE DEF r
<1>8. Map!Store(p)
  BY <1>1, <1>3, <1>4, <1>6, <1>7 DEF Map!Store
<1> QED BY <1>6, <1>8 DEF MapStep, Map!Next

-----------------------------------------------------------------------------
(* db_nextrec.                                                              *)

\* What a scan has read is in the map, or in a db_store that has written its record.
LEMMA ScannedInMap ==
  ASSUME NEW p \in Proc, NEW own, NEW nx, NEW rank, FullInv(own, nx, rank), IdxCap <= PtrMax, pc[p] = "scandat"
  PROVE  LET k == db[p].idxbuf
             d == dat[db[p].datoff]
         IN  /\ k \in Keys /\ d \in Data
             /\ kv[k] = d \/ \E q \in Proc : AbstractCall[q].op = "store" /\ AbstractCall[q].key = k
                                              /\ AbstractCall[q].data = d
<1> DEFINE o == db[p].idxoff
           k == db[p].idxbuf
           d == dat[db[p].datoff]
<1>1. LockInv /\ FileInv /\ DataInv /\ ListInv(own, nx, rank) /\ OnMap(own) /\ Whole(own) /\ AnswerPlace(p)
      /\ \A q \in Proc : MapPlace(q)
  BY DEF FullInv, AllInv, MapInv
<1>2. Scans(p) /\ pc[p] \in RecordLabels
  BY DEF Scans, ReadLabels, RecordLabels
<1>3. o \in Written /\ o \in Records /\ rec[o].key = k /\ rec[o].datoff = db[p].datoff /\ k # Blank
      /\ kv \in [Keys -> Data \cup {None}]
  BY <1>1, <1>2, Before, WrittenOffsets DEF AnswerPlace
<1>4. \A q \in Proc : ~ChangesFree(q)
  <2>1. ~ChangesFree(p)
    BY DEF ChangesFree, FreeLabels
  <2> QED BY <1>1, <1>2, <2>1, LockInvExcludes DEF FreeExclusion
<1>5. o <= PtrMax
  <2>1. o \in Int /\ o <= IdxCap /\ IdxCap \in Int /\ PtrMax \in Int
    BY <1>3, DbConstants, Sizes DEF Records
  <2> QED BY <2>1
<1> HIDE DEF o, k, d
<1>6. CASE own[o] # NoList
  <2>1. own[o] \in Chains
    <3>1. own \in [Offsets -> NoList .. NHash] /\ o \in Offsets /\ own[o] # FREE_OFF
      BY <1>1, <1>3, Places DEF ListInv, Shape, OnFile
    <3>2. own[o] \in NoList .. NHash
      BY <3>1
    <3>3. own[o] \in 0 .. NHash
      BY <1>6, <3>2, DbConstants DEF NoList
    <3> QED BY <3>1, <3>3, Places
  <2>2. \A q \in Proc : pc[q] \notin BlankLabels
    BY <1>4 DEF BlankLabels, ChangesFree, FreeLabels
  <2>3. rec[o].key \in Keys /\ kv[k] # None /\ d = kv[k]
    BY <1>1, <1>3, <2>1, <2>2 DEF ListInv, OnFile, OnMap, BlankLabels, d
  <2> QED BY <1>3, <2>3 DEF k, d
<1>7. ASSUME NEW q \in Proc, pc[q] \in HoldLabels, db[q].idxoff = o
      PROVE  /\ k \in Keys /\ d \in Data
             /\ AbstractCall[q].op = "store" /\ AbstractCall[q].key = k /\ AbstractCall[q].data = d
  <2>1. pc[q] \in NewLabels
    <3>1. pc[q] # "delhead"
      BY <1>4 DEF ChangesFree, FreeLabels
    <3>2. pc[q] \notin TakenLabels
      BY <1>1, <1>3, <1>7 DEF ListInv, Place, StorePlace
    <3> QED BY <1>7, <3>1, <3>2 DEF HoldLabels
  <2>2. pc[q] \in FilledLabels /\ pc[q] \in StoreLabels /\ pc[q] \in AgreeLabels /\ pc[q] # "dead" /\ InChain(q)
    BY <2>1 DEF FilledLabels, StoreLabels, AgreeLabels, NewLabels, InChain, OutLabels
  <2>3. call[q].op = "store" /\ call[q].key \in Keys /\ call[q].data \in Data
    BY <1>1, <2>2, Before DEF CallOK
  <2>4. rec[o].key = call[q].key
    BY <1>1, <1>7, <2>1 DEF ListInv, Place, StorePlace
  <2>5. rec[o].datoff = db[q].datoff /\ dat[db[q].datoff] = call[q].data
    BY <1>1, <1>7, <2>2 DEF DataInv, DataPlace, MapPlace
  <2>6. AbstractCall[q] = call[q]
    BY <2>2, AbstractAt
  <2> QED BY <1>3, <2>3, <2>4, <2>5, <2>6 DEF d
<1>8. own[o] # NoList \/ \E q \in Proc : pc[q] \in HoldLabels /\ db[q].idxoff = o
  BY <1>1, <1>3, <1>5 DEF Whole
<1> QED BY <1>6, <1>7, <1>8 DEF k, d

LEMMA ScannedStep ==
  ASSUME NEW p \in Proc, NEW own, NEW nx, NEW rank, FullInv(own, nx, rank), IdxCap <= PtrMax,
         ScanEof(p) \/ ScanData(p)
  PROVE  AnswerPlace(p)' /\ MapStep
<1>1. /\ LockInv /\ FileInv /\ AnswerPlace(p) /\ pc[p] \in {"scanrec", "scandat"}
      /\ pc' = [pc EXCEPT ![p] = "scanunlock"] /\ call' = call /\ kv' = kv
  BY DEF FullInv, AllInv, ScanEof, ScanData, Goto
<1>2. call[p].op = "nextrec"
  BY <1>1 DEF AnswerPlace, ReadLabels
<1>3. ASSUME NEW r, ret' = [ret EXCEPT ![p] = r], r.code # 2
      PROVE  AnswerPlace(p)' /\ Map!Answer(p, r) /\ AbstractCall[p] = call[p]
  <2>1. Answers(p, r, "scanunlock")
    BY <1>1, <1>2, <1>3 DEF Answers
  <2> QED BY <1>1, <2>1, AnswersPlace
<1>4. CASE ScanEof(p)
  <2>1. ret' = [ret EXCEPT ![p] = Map!Result(-1, None, None)] /\ Map!Result(-1, None, None).code # 2
    BY <1>4 DEF ScanEof, SetRet, Map!Result, Result
  <2>2. AnswerPlace(p)' /\ Map!Answer(p, Map!Result(-1, None, None)) /\ AbstractCall[p] = call[p]
    BY <1>3, <2>1
  <2>3. Map!Nextrec(p)
    BY <1>1, <1>2, <2>2 DEF Map!Nextrec
  <2> QED BY <2>2, <2>3 DEF MapStep, Map!Next
<1>5. CASE ScanData(p)
  <2>1. PICK k, d : k = db[p].idxbuf /\ d = dat[db[p].datoff]
    OBVIOUS
  <2>2. ret' = [ret EXCEPT ![p] = Map!Result(0, k, d)] /\ Map!Result(0, k, d).code # 2 /\ pc[p] = "scandat"
    BY <1>5, <2>1 DEF ScanData, SetRet, Map!Result, Result
  <2>3. AnswerPlace(p)' /\ Map!Answer(p, Map!Result(0, k, d)) /\ AbstractCall[p] = call[p]
    BY <1>3, <2>2
  <2>4. /\ k \in Keys /\ d \in Data
        /\ kv[k] = d \/ \E q \in Proc : AbstractCall[q].op = "store" /\ AbstractCall[q].key = k
                                         /\ AbstractCall[q].data = d
    BY <2>1, <2>2, ScannedInMap
  <2>5. Map!Nextrec(p)
    BY <1>1, <1>2, <2>3, <2>4 DEF Map!Nextrec
  <2> QED BY <2>3, <2>5 DEF MapStep, Map!Next
<1> QED BY <1>4, <1>5

LEMMA ScanningStep ==
  ASSUME NEW p \in Proc, NEW own, NEW nx, NEW rank, FullInv(own, nx, rank), ScanLock(p) \/ ScanRecord(p)
  PROVE  AnswerPlace(p)' /\ MapStep
<1>1. /\ LockInv /\ FileInv /\ AnswerPlace(p) /\ pc[p] \in {"scanlock", "scanrec"} /\ pc \in [Proc -> Labels]
      /\ call' = call /\ kv' = kv /\ ret' = ret /\ rec' = rec
  BY DEF FullInv, AllInv, ScanLock, ScanRecord, Goto, LockInv, LockType, files
<1>2. /\ pc'[p] \in {"scanrec", "scandat"} /\ \A q \in Proc \ {p} : pc'[q] = pc[q]
      /\ pc'[p] = "scandat" => ScanRecord(p) /\ rec[pos[p]].key # Blank
  BY <1>1 DEF ScanLock, ScanRecord, Goto
<1>3. AbstractCall' = AbstractCall
  BY <1>1, <1>2, AbstractStays
<1>4. UNCHANGED Map!vars
  BY <1>1, <1>3 DEF Map!vars
<1>5. call[p].op = "nextrec" /\ ret[p] = Pending
  BY <1>1 DEF AnswerPlace, ReadLabels, DoneLabels
<1>6. pc'[p] = "scandat" =>
        /\ rec[db'[p].idxoff].key = db'[p].idxbuf /\ rec[db'[p].idxoff].datoff = db'[p].datoff
        /\ db'[p].idxbuf # Blank
  <2> SUFFICES ASSUME pc'[p] = "scandat"
               PROVE  /\ rec[db'[p].idxoff].key = db'[p].idxbuf /\ rec[db'[p].idxoff].datoff = db'[p].datoff
                      /\ db'[p].idxbuf # Blank
    OBVIOUS
  <2>1. db' = [db EXCEPT ![p] = ReadIdx(p, pos[p])] /\ db \in [Proc -> Handles] /\ db[p] \in Handles
    BY <1>1, <1>2, Before DEF ScanRecord, HandleType
  <2>2. db'[p] = ReadIdx(p, pos[p])
    BY <2>1
  <2>3. /\ ReadIdx(p, pos[p]).idxoff = pos[p] /\ ReadIdx(p, pos[p]).idxbuf = rec[pos[p]].key
        /\ ReadIdx(p, pos[p]).datoff = rec[pos[p]].datoff
    BY <2>1 DEF ReadIdx, Handles
  <2> QED BY <1>2, <2>2, <2>3
<1>7. AnswerPlace(p)'
  BY <1>1, <1>2, <1>5, <1>6 DEF AnswerPlace, DoneLabels, ReadLabels
<1> QED BY <1>4, <1>7 DEF MapStep

-----------------------------------------------------------------------------
(* Starting, returning from and dying in a call.                            *)

LEMMA BeginStep ==
  ASSUME NEW p \in Proc, NEW own, NEW nx, NEW rank, FullInv(own, nx, rank), Begin(p) \/ Reopen(p)
  PROVE  AnswerPlace(p)' /\ MapStep
<1>1. /\ LockInv /\ FileInv /\ AnswerPlace(p) /\ MapPlace(p) /\ pc \in [Proc -> Labels]
      /\ call \in [Proc -> Calls] /\ DOMAIN ret = Proc
  BY DEF FullInv, AllInv, MapInv, LockInv, LockType, FileInv, HandleType
<1>2. ASSUME NEW c \in Menu[p], Call(p, c) \/ StoreCall(p, c) PROVE AnswerPlace(p)' /\ MapStep
  <2>1. PICK l \in {"findlock", "scanlock"} :
          /\ pc[p] = "idle" /\ pc' = [pc EXCEPT ![p] = l] /\ call' = [call EXCEPT ![p] = c]
          /\ ret' = [ret EXCEPT ![p] = Pending] /\ kv' = kv /\ (l = "scanlock" => c.op = "nextrec")
    BY <1>2 DEF Call, StoreCall, Goto, SetRet
  <2>2. pc'[p] = l /\ call'[p] = c /\ ret'[p] = Pending
        /\ \A q \in Proc \ {p} : pc'[q] = pc[q] /\ call'[q] = call[q]
    BY <1>1, <2>1
  <2>3. AbstractCall' = [AbstractCall EXCEPT ![p] = c] /\ AbstractCall[p] = NoCall
    BY <1>1, <2>1, <2>2, AbstractMoves, AbstractAt DEF AnswerPlace
  <2>4. Map!Begin(p, c)
    BY <2>1, <2>3 DEF Map!Begin, Map!Pending, Map!Result, Pending, Result
  <2>5. AnswerPlace(p)'
    BY <2>1, <2>2 DEF AnswerPlace, DoneLabels, ReadLabels
  <2> QED BY <2>4, <2>5 DEF MapStep, Map!Next
<1>3. ASSUME NEW c \in Menu[p], StoreBadFlag(p, c) PROVE AnswerPlace(p)' /\ MapStep
  <2>1. pc[p] = "idle" /\ pc' = pc /\ call' = call /\ kv' = kv
        /\ ret' = [ret EXCEPT ![p] = Map!Result(-1, None, None)]
    BY <1>3 DEF StoreBadFlag, SetRet, Map!Result, Result
  <2>2. AbstractCall' = AbstractCall /\ AbstractCall[p] = NoCall
    BY <1>1, <2>1, AbstractStays, AbstractAt DEF AnswerPlace
  <2>3. Map!Reject(p)
    BY <2>1, <2>2 DEF Map!Reject
  <2>4. AnswerPlace(p)'
    BY <1>1, <2>1 DEF AnswerPlace, DoneLabels, ReadLabels
  <2> QED BY <2>3, <2>4 DEF MapStep, Map!Next
<1>4. ASSUME pc[p] \in {"idle", "dead"}, NEW l \in {"idle", "dead"}, pc' = [pc EXCEPT ![p] = l], kv' = kv, ret' = ret,
             call' = call \/ call' = [call EXCEPT ![p] = NoCall],
             l = "idle" => call'[p] = NoCall
      PROVE  AnswerPlace(p)' /\ MapStep
  <2>1. pc'[p] = l /\ \A q \in Proc \ {p} : pc'[q] = pc[q] /\ call'[q] = call[q]
    BY <1>1, <1>4
  <2>2. AbstractCall[p] = NoCall /\ AbstractCall' = [AbstractCall EXCEPT ![p] = NoCall]
    BY <1>1, <1>4, <2>1, AbstractMoves, AbstractAt DEF AnswerPlace
  <2>3. AbstractCall' = AbstractCall
    BY <2>2 DEF AbstractCall
  <2>4. UNCHANGED Map!vars
    BY <1>4, <2>3 DEF Map!vars
  <2>5. AnswerPlace(p)'
    BY <1>4, <2>1 DEF AnswerPlace, DoneLabels, ReadLabels
  <2> QED BY <2>4, <2>5 DEF MapStep
<1>5. ASSUME NEW c \in Menu[p], StoreBadLength(p, c) PROVE AnswerPlace(p)' /\ MapStep
  <2>1. pc[p] = "idle" /\ ~db[p].gone
    BY <1>1, <1>5 DEF StoreBadLength, MapPlace, GoneLabels
  <2>2. pc' = [pc EXCEPT ![p] = "dead"] /\ kv' = kv /\ ret' = ret /\ call' = call
    BY <1>5, <2>1 DEF StoreBadLength, Exit, Goto
  <2> QED BY <1>4, <2>1, <2>2
<1>6. ASSUME NEW c \in Menu[p], Rewind(p, c) PROVE AnswerPlace(p)' /\ MapStep
  <2>1. pc[p] = "idle" /\ pc' = pc /\ kv' = kv /\ ret' = ret /\ call' = call
    BY <1>6 DEF Rewind
  <2>2. pc' = [pc EXCEPT ![p] = "idle"] /\ call'[p] = NoCall
    BY <1>1, <2>1 DEF AnswerPlace
  <2> QED BY <1>4, <2>1, <2>2
<1>7. CASE Reopen(p)
  <2>1. /\ pc[p] = "dead" /\ pc' = [pc EXCEPT ![p] = "idle"] /\ kv' = kv /\ ret' = ret
        /\ call' = [call EXCEPT ![p] = NoCall]
    BY <1>7 DEF Reopen, Goto
  <2>2. call'[p] = NoCall
    BY <1>1, <2>1
  <2> QED BY <1>4, <2>1, <2>2
<1> QED BY <1>2, <1>3, <1>5, <1>6, <1>7 DEF Begin

LEMMA ReturnStep ==
  ASSUME NEW p \in Proc, NEW own, NEW nx, NEW rank, FullInv(own, nx, rank), UnlockChain(p) \/ ScanUnlock(p)
  PROVE  AnswerPlace(p)' /\ MapStep
<1>1. /\ LockInv /\ FileInv /\ AnswerPlace(p) /\ pc[p] \in {"unlock", "scanunlock"} /\ pc \in [Proc -> Labels]
      /\ call \in [Proc -> Calls] /\ pc' = [pc EXCEPT ![p] = "idle"] /\ call' = [call EXCEPT ![p] = NoCall]
      /\ kv' = kv /\ ret' = ret
  BY DEF FullInv, AllInv, LockInv, LockType, UnlockChain, ScanUnlock, Goto
<1>2. pc'[p] = "idle" /\ call'[p] = NoCall /\ \A q \in Proc \ {p} : pc'[q] = pc[q] /\ call'[q] = call[q]
  BY <1>1
<1>3. ret[p] # Pending /\ AbstractCall[p] # NoCall
  <2>1. pc[p] \in ActiveLabels /\ ret[p] # Pending
    BY <1>1 DEF ActiveLabels, Labels, AnswerPlace, DoneLabels
  <2> QED BY <1>1, <2>1, ActiveCall
<1>4. AbstractCall' = [AbstractCall EXCEPT ![p] = NoCall]
  BY <1>2, AbstractMoves
<1>5. Map!Return(p)
  BY <1>1, <1>3, <1>4 DEF Map!Return, Map!Pending, Map!Result, Pending, Result
<1>6. AnswerPlace(p)'
  BY <1>2 DEF AnswerPlace, DoneLabels, ReadLabels
<1> QED BY <1>5, <1>6 DEF MapStep, Map!Next

LEMMA DelUnlockStep ==
  ASSUME NEW p \in Proc, NEW own, NEW nx, NEW rank, FullInv(own, nx, rank), DelUnlock(p)
  PROVE  AnswerPlace(p)' /\ MapStep
<1>1. /\ LockInv /\ FileInv /\ AnswerPlace(p) /\ pc[p] = "delunlock" /\ pc \in [Proc -> Labels]
      /\ pc' = [pc EXCEPT ![p] = IF call[p].op = "delete" THEN "unlock" ELSE "readhead"] /\ call' = call
      /\ kv' = kv /\ ret' = ret
  BY DEF FullInv, AllInv, LockInv, LockType, DelUnlock, Goto
<1>2. /\ pc'[p] = IF call[p].op = "delete" THEN "unlock" ELSE "readhead"
      /\ \A q \in Proc \ {p} : pc'[q] = pc[q]
  BY <1>1
<1>3. AbstractCall' = AbstractCall
  BY <1>1, <1>2, AbstractStays
<1>4. UNCHANGED Map!vars
  BY <1>1, <1>3 DEF Map!vars
<1>5. AnswerPlace(p)'
  BY <1>1, <1>2 DEF AnswerPlace, DoneLabels, ReadLabels
<1> QED BY <1>4, <1>5 DEF MapStep

LEMMA AbortStep ==
  ASSUME NEW p \in Proc, NEW own, NEW nx, NEW rank, FullInv(own, nx, rank), Exit(p), pc[p] \in ActiveLabels
  PROVE  AnswerPlace(p)' /\ MapStep
<1>1. /\ LockInv /\ FileInv /\ AnswerPlace(p) /\ MapPlace(p) /\ pc \in [Proc -> Labels]
      /\ pc' = [pc EXCEPT ![p] = "dead"] /\ call' = call /\ ret' = ret
      /\ kv' = IF db[p].gone THEN [kv EXCEPT ![call[p].key] = None] ELSE kv
  BY DEF FullInv, AllInv, MapInv, LockInv, LockType, Exit, Goto
<1>2. pc'[p] = "dead" /\ \A q \in Proc \ {p} : pc'[q] = pc[q]
  BY <1>1
<1>3. AbstractCall[p] = call[p] /\ call[p] # NoCall
  BY <1>1, ActiveCall
<1>4. AbstractCall' = [AbstractCall EXCEPT ![p] = NoCall]
  BY <1>1, <1>2, AbstractMoves
<1>5. db[p].gone => call[p].op = "store"
  BY <1>1 DEF MapPlace
<1>6. Map!Abort(p)
  BY <1>1, <1>3, <1>4, <1>5 DEF Map!Abort
<1>7. AnswerPlace(p)'
  BY <1>2 DEF AnswerPlace, DoneLabels, ReadLabels
<1> QED BY <1>6, <1>7 DEF MapStep, Map!Next

-----------------------------------------------------------------------------
(* Every step is a step of the map.                                         *)

LEMMA OwnStep ==
  ASSUME NEW p \in Proc, NEW own, NEW nx, NEW rank, FullInv(own, nx, rank), IdxCap <= PtrMax,
         Begin(p) \/ Step(p) \/ Reopen(p)
  PROVE  AnswerPlace(p)' /\ MapStep
<1>1. LockInv /\ FileInv /\ AnswerPlace(p)
  BY DEF FullInv, AllInv
<1>2. ASSUME Hidden(p) PROVE AnswerPlace(p)' /\ MapStep
  <2>1. \A q \in Proc \ {p} : pc'[q] = pc[q]
    BY <1>1, OthersStay
  <2> QED BY <1>1, <1>2, <2>1, HiddenStep
<1>3. CASE Begin(p) \/ Reopen(p) \/ UnlockChain(p) \/ FetchData(p)
  BY <1>3, BeginStep, ReturnStep, FetchedStep
<1>4. CASE FindStep(p)
  BY <1>1, <1>2, <1>4, HiddenSteps, MissedStep, RefusedStep DEF FindStep
<1>5. CASE DeleteStep(p)
  BY <1>1, <1>2, <1>5, HiddenSteps, DeletedStep, DelUnlockStep DEF DeleteStep
<1>6. CASE FreeStep(p)
  BY <1>1, <1>2, <1>6, HiddenSteps
<1>7. CASE DatFull(p) \/ IdxFull(p) \/ LinkRefused(p) \/ ScanMisaligned(p)
  <2>1. Exit(p) /\ pc[p] \in ActiveLabels
    BY <1>7 DEF DatFull, IdxFull, LinkRefused, ScanMisaligned, ActiveLabels, Labels
  <2> QED BY <2>1, AbortStep
<1>8. CASE StoreStep(p) /\ ~(DatFull(p) \/ IdxFull(p) \/ LinkRefused(p))
  BY <1>1, <1>2, <1>8, HiddenSteps, StoredStep DEF StoreStep
<1>9. CASE ScanStep(p) /\ ~ScanMisaligned(p)
  BY <1>9, ScannedStep, ScanningStep, ReturnStep DEF ScanStep
<1> QED BY <1>3, <1>4, <1>5, <1>6, <1>7, <1>8, <1>9 DEF Step

\* Only three steps write an index record.
LEMMA RecordsStay ==
  ASSUME NEW p \in Proc, Begin(p) \/ Step(p) \/ Reopen(p), ~DelIdx(p), ~IdxRewrite(p), ~IdxAppend(p)
  PROVE  rec' = rec
<1>1. CASE Begin(p)
  BY <1>1 DEF Begin, Call, StoreCall, StoreBadFlag, StoreBadLength, Rewind, files
<1>2. CASE Reopen(p) \/ UnlockChain(p) \/ FetchData(p) \/ FindStep(p)
  BY <1>2 DEF Reopen, UnlockChain, FetchData, FindStep, FindLock, FindPtr, FindNext, Found, NotFound, ReadPtr, files
<1>3. CASE DeleteStep(p)
  BY <1>3 DEF DeleteStep, DelLock, DelBlank, DelFree, DelHead, DelUnlink, DelUnlock, ReadPtr, WritePtr, WriteDat, files
<1>4. CASE FreeStep(p)
  BY <1>4 DEF FreeStep, FreeLock, FreePtr, FreeNext, FreeFound, FreeTake, FreeUnlock, ReadPtr, WritePtr, files
<1>5. CASE StoreStep(p)
  BY <1>5 DEF StoreStep, ReadHead, Overwrite, Reuse, DatLock, DatSeek, DatAppend, DatFull, DatUnlock,
              IdxLock, IdxSeek, IdxFull, IdxUnlock, Link, LinkRefused, ReadPtr, WritePtr, WriteDat, files
<1>6. CASE ScanStep(p)
  BY <1>6 DEF ScanStep, ScanLock, ScanRecord, ScanEof, ScanMisaligned, ScanData, ScanUnlock, files
<1> QED BY <1>1, <1>2, <1>3, <1>4, <1>5, <1>6 DEF Step

\* No step of p changes a record that another process is scanning.
LEMMA ScannedStays ==
  ASSUME NEW p \in Proc, NEW q \in Proc \ {p}, NEW own, NEW nx, NEW rank, FullInv(own, nx, rank),
         Begin(p) \/ Step(p) \/ Reopen(p), pc[q] = "scandat"
  PROVE  rec'[db[q].idxoff] = rec[db[q].idxoff]
<1> DEFINE o == db[q].idxoff
<1>1. LockInv /\ FileInv /\ ListInv(own, nx, rank) /\ AnswerPlace(q)
  BY DEF FullInv, AllInv
<1>2. Scans(q) /\ pc[q] \in RecordLabels
  BY DEF Scans, ReadLabels, RecordLabels
<1>3. o \in Written /\ rec[o].key # Blank /\ FileType
  BY <1>1, <1>2, Before DEF AnswerPlace
<1>4. ~DelIdx(p)
  <2>1. ~ChangesFree(p)
    BY <1>1, <1>2, LockInvExcludes DEF FreeExclusion
  <2> QED BY <2>1 DEF DelIdx, ChangesFree, FreeLabels
<1>5. CASE IdxRewrite(p) \/ IdxAppend(p)
  <2>1. db[p].idxoff # o
    <3>1. CASE IdxRewrite(p)
      <4>1. pc[p] \in TakenLabels
        BY <3>1 DEF IdxRewrite, TakenLabels
      <4> QED BY <1>1, <1>3, <4>1 DEF ListInv, Place, StorePlace
    <3>2. CASE IdxAppend(p)
      <4>1. db[p].idxoff = idxsize
        BY <1>1, <3>2, Before DEF IdxAppend
      <4> QED BY <1>3, <4>1, FileSizes, Sizes DEF Written
    <3> QED BY <1>5, <3>1, <3>2
  <2>2. PICK x : rec' = [rec EXCEPT ![db[p].idxoff] = x]
    BY <1>5 DEF IdxRewrite, IdxAppend, WriteIdx
  <2> QED BY <1>3, <2>1, <2>2, WrittenOffsets DEF FileType
<1>6. CASE rec' = rec
  BY <1>6
<1> QED BY <1>4, <1>5, <1>6, RecordsStay

\* A step of another process leaves the answer of a process where it was.
LEMMA OthersAnswer ==
  ASSUME NEW p \in Proc, NEW q \in Proc \ {p}, NEW own, NEW nx, NEW rank, FullInv(own, nx, rank),
         Begin(p) \/ Step(p) \/ Reopen(p)
  PROVE  AnswerPlace(q)'
<1>1. LockInv /\ FileInv /\ AnswerPlace(q)
  BY DEF FullInv, AllInv
<1>2. pc'[q] = pc[q] /\ db'[q] = db[q] /\ call'[q] = call[q] /\ ret'[q] = ret[q]
  BY <1>1, OthersStay
<1>3. pc[q] = "scandat" => rec'[db[q].idxoff] = rec[db[q].idxoff]
  BY ScannedStays
<1> QED BY <1>1, <1>2, <1>3 DEF AnswerPlace

\* All that holds in a reachable state, for some lists.
FullLists == DbIInv /\ DataInv /\ MapLists /\ \A p \in Proc : AnswerPlace(p)

LEMMA NextAnswers ==
  IdxCap <= PtrMax /\ FullLists /\ [Next]_vars => (\A p \in Proc : AnswerPlace(p))' /\ MapStep
<1> SUFFICES ASSUME IdxCap <= PtrMax, FullLists, [Next]_vars PROVE (\A p \in Proc : AnswerPlace(p))' /\ MapStep
  OBVIOUS
<1>1. PICK own, nx, rank : FullInv(own, nx, rank)
  BY DEF FullLists, DbIInv, MapLists, FullInv, AllInv
<1>2. CASE Next
  <2>1. PICK p \in Proc : Begin(p) \/ Step(p) \/ Reopen(p)
    BY <1>2 DEF Next
  <2>2. AnswerPlace(p)' /\ MapStep
    BY <1>1, <2>1, OwnStep
  <2>3. \A q \in Proc \ {p} : AnswerPlace(q)'
    BY <1>1, <2>1, OthersAnswer
  <2> QED BY <2>2, <2>3
<1>3. CASE UNCHANGED vars
  <2>1. UNCHANGED <<rec, pc, db, call, ret, kv>>
    BY <1>3 DEF vars, files
  <2>2. \A p \in Proc : AnswerPlace(p)'
    BY <1>1, <2>1 DEF FullInv, AnswerPlace
  <2>3. AbstractCall' = AbstractCall
    BY <2>1, AbstractStays
  <2>4. UNCHANGED Map!vars
    BY <2>1, <2>3 DEF Map!vars
  <2> QED BY <2>2, <2>4 DEF MapStep
<1> QED BY <1>2, <1>3

LEMMA InitAnswers == Init => (\A p \in Proc : AnswerPlace(p)) /\ Map!Init
<1> SUFFICES ASSUME Init PROVE (\A p \in Proc : AnswerPlace(p)) /\ Map!Init
  OBVIOUS
<1>1. ASSUME NEW p \in Proc PROVE pc[p] = "idle" /\ call[p] = NoCall
  BY DEF Init
<1>2. \A p \in Proc : AnswerPlace(p)
  BY <1>1 DEF AnswerPlace, DoneLabels, ReadLabels
<1>3. AbstractCall = [p \in Proc |-> NoCall]
  BY <1>1 DEF AbstractCall
<1>4. Map!Init
  BY <1>3 DEF Init, Map!Init, Map!Result, Result
<1> QED BY <1>2, <1>4

=============================================================================
