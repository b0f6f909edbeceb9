---------------------------------- MODULE Db ----------------------------------
(***************************************************************************)
(* The hash-indexed record library of src/apue/apue.3e/db (db.c): several   *)
(* processes, each with one open handle, share an index file and a data     *)
(* file and coordinate with fcntl record locks only.                        *)
(*                                                                          *)
(* Every lock, read and write of a file is one step, so that the steps of   *)
(* different processes interleave as the system calls do.  Offsets in the   *)
(* index file are numbers: 0 is the free-list pointer, 1..NHash the hash    *)
(* table, and larger numbers the index records in file order; each of       *)
(* these places holds one chain pointer.  Pointer value 0 ends a list.      *)
(***************************************************************************)
EXTENDS Integers, FiniteSets

CONSTANTS
  Proc,      \* processes that have the database open
  Keys,      \* keys the callers use
  Data,      \* data values the callers use
  KeyLen,    \* KeyLen[k]: strlen(k)
  DatLen,    \* DatLen[d]: strlen(d) + 1, the length with its newline
  NHash,     \* entries of the hash table (db->nhash)
  Hash,      \* Hash[k]: offset of the chain pointer of k (chainoff)
  PtrMax,    \* PTR_MAX, the largest offset a pointer field can hold
  IdxCap,    \* offset of the last index record the disk has room for
  DatCap,    \* number of data records the disk has room for
  DATLEN_MIN, DATLEN_MAX,
  Menu,      \* Menu[p]: the calls process p may make
  Blank,     \* what an all-blank key or data record reads as
  None       \* no value: a NULL pointer, an unused field

Ops == {"fetch", "store", "delete", "nextrec", "rewind"}

Flags == {"DB_INSERT", "DB_REPLACE", "DB_STORE", "other"}

Calls == [op : Ops, key : Keys \cup {None}, data : Data \cup {None}, flag : Flags]

FREE_OFF == 0

RecOff == NHash + 1        \* offset of the first index record

Offsets == 0 .. IdxCap

Records == RecOff .. IdxCap

ASSUME DbConstants ==
  /\ NHash \in Nat \ {0} /\ PtrMax \in Nat /\ IdxCap \in Nat /\ DatCap \in Nat
  /\ NHash <= PtrMax /\ NHash <= IdxCap
  /\ DATLEN_MIN \in Nat /\ DATLEN_MAX \in Nat
  /\ Hash \in [Keys -> 1 .. NHash]
  /\ KeyLen \in [Keys -> Nat] /\ DatLen \in [Data -> Nat]
  /\ Menu \in [Proc -> SUBSET Calls]
  /\ \A p \in Proc : \A c \in Menu[p] :
       /\ c.op \in {"fetch", "store", "delete"} => c.key \in Keys
       /\ c.op = "store" => c.data \in Data
  /\ Blank \notin Keys \cup Data /\ None \notin Keys \cup Data \cup {Blank}

VARIABLES
  ptr,       \* ptr[o]: the chain pointer stored at offset o of the index file
  rec,       \* rec[o]: key, data offset and data length of the record at o
  idxsize,   \* offset of the end of the index file
  dat,       \* dat[i]: the i-th record of the data file
  datsize,   \* where the next data record would be appended
  rl, wl,    \* rl[o], wl[o]: holders of a read / write lock on index offset o
  datwl,     \* holders of the write lock on the whole data file
  pc,        \* the next system call of each process
  call,      \* the call each process is in
  db,        \* the DB handle and the locals of the call
  pos,       \* file position of db->idxfd; 0 when it is not at a record
  ret,       \* what the last call returned
  kv         \* history: the map the completed calls have built

files == <<ptr, rec, idxsize, dat, datsize>>

locks == <<rl, wl, datwl>>

vars == <<files, locks, pc, call, db, pos, ret, kv>>

NoCall == [op |-> "rewind", key |-> None, data |-> None, flag |-> "other"]

Scratch == [ptroff |-> 0, idxoff |-> 0, ptrval |-> 0, datoff |-> 0, datlen |-> 0,
            idxbuf |-> None, offset |-> 0, save |-> 0, head |-> 0, gone |-> FALSE]

EmptyRec == [key |-> None, klen |-> 0, datoff |-> 0, datlen |-> 0]

Result(code, k, d) == [code |-> code, key |-> k, data |-> d]

Pending == Result(2, None, None)      \* the call has not taken effect yet

\* A database that db_open has just created: every chain and the free list empty.
Init ==
  /\ ptr = [o \in Offsets |-> 0]
  /\ rec = [o \in Records |-> EmptyRec]
  /\ idxsize = RecOff
  /\ dat = [i \in 1 .. DatCap |-> None]
  /\ datsize = 1
  /\ rl = [o \in 0 .. RecOff |-> {}] /\ wl = [o \in 0 .. RecOff |-> {}]
  /\ datwl = {}
  /\ pc = [p \in Proc |-> "idle"]
  /\ call = [p \in Proc |-> NoCall]
  /\ db = [p \in Proc |-> Scratch]
  /\ pos = [p \in Proc |-> RecOff]
  /\ ret = [p \in Proc |-> Result(0, None, None)]
  /\ kv = [k \in Keys |-> None]

-----------------------------------------------------------------------------
(* Record locks (fcntl through lock_reg): granted when no other process     *)
(* holds a conflicting lock, otherwise the caller sleeps.                   *)

ReadLock(p, o) ==
  /\ wl[o] \subseteq {p}
  /\ rl' = [rl EXCEPT ![o] = @ \cup {p}]
  /\ wl' = [wl EXCEPT ![o] = @ \ {p}]
  /\ UNCHANGED datwl

WriteLock(p, o) ==
  /\ wl[o] \subseteq {p} /\ rl[o] \subseteq {p}
  /\ wl' = [wl EXCEPT ![o] = {p}]
  /\ rl' = [rl EXCEPT ![o] = @ \ {p}]
  /\ UNCHANGED datwl

Unlock(p, o) ==
  /\ wl' = [wl EXCEPT ![o] = @ \ {p}]
  /\ rl' = [rl EXCEPT ![o] = @ \ {p}]
  /\ UNCHANGED datwl

Goto(p, label) == pc' = [pc EXCEPT ![p] = label]

chainoff(p) == Hash[call[p].key]

SetRet(p, r) == ret' = [ret EXCEPT ![p] = r]

\* A process that ends loses its locks; what it wrote stays.
Exit(p) ==
  /\ Goto(p, "dead")
  /\ wl' = [o \in 0 .. RecOff |-> wl[o] \ {p}]
  /\ rl' = [o \in 0 .. RecOff |-> rl[o] \ {p}]
  /\ datwl' = datwl \ {p}
  /\ db' = [db EXCEPT ![p] = Scratch]
  /\ kv' = IF db[p].gone THEN [kv EXCEPT ![call[p].key] = None] ELSE kv
  /\ UNCHANGED <<call, pos, ret>>

-----------------------------------------------------------------------------
(* The three ways to touch the index file.  Reading or writing a chain      *)
(* pointer leaves the file position after a pointer field, which is not the *)
(* start of a record; reading or writing a record leaves it at the next one.*)

ReadPtr(p) ==
  /\ pos' = [pos EXCEPT ![p] = 0]
  /\ UNCHANGED files

\* Mutant: no check against PTR_MAX, so a large offset is cut to the field.
WritePtrCut(p, o, v) ==
  /\ ptr' = [ptr EXCEPT ![o] = v % (PtrMax + 1)]
  /\ pos' = [pos EXCEPT ![p] = 0]
  /\ UNCHANGED <<rec, idxsize, dat, datsize>>

WritePtr(p, o, v) ==
  /\ v <= PtrMax
  /\ ptr' = [ptr EXCEPT ![o] = v]
  /\ pos' = [pos EXCEPT ![p] = 0]
  /\ UNCHANGED <<rec, idxsize, dat, datsize>>

\* The handle after _db_readidx has read the record at o.
ReadIdx(p, o) ==
  [db[p] EXCEPT !.idxoff = o, !.ptrval = ptr[o], !.datoff = rec[o].datoff,
                !.datlen = rec[o].datlen, !.idxbuf = rec[o].key]

WriteIdx(p, o, k, klen, v) ==
  /\ ptr' = [ptr EXCEPT ![o] = v]
  /\ rec' = [rec EXCEPT ![o] = [key |-> k, klen |-> klen,
                                datoff |-> db[p].datoff, datlen |-> db[p].datlen]]
  /\ idxsize' = IF o < idxsize THEN idxsize ELSE o + 1
  /\ pos' = [pos EXCEPT ![p] = o + 1]
  /\ UNCHANGED <<dat, datsize>>

WriteDat(p, i, d) ==
  /\ dat' = [dat EXCEPT ![i] = d]
  /\ datsize' = IF i < datsize THEN datsize ELSE i + 1
  /\ UNCHANGED <<ptr, rec, idxsize, pos>>

-----------------------------------------------------------------------------
(* Entering a call, and leaving the handle between calls.                   *)

\* db_fetch, db_delete and db_nextrec go straight to their first lock.
Call(p, c) ==
  /\ pc[p] = "idle" /\ c.op \in {"fetch", "delete", "nextrec"}
  /\ Goto(p, IF c.op = "nextrec" THEN "scanlock" ELSE "findlock")
  /\ call' = [call EXCEPT ![p] = c]
  /\ SetRet(p, Pending)
  /\ UNCHANGED <<files, locks, db, pos, kv>>

\* db_store first checks its flag and the length of the data.
StoreCall(p, c) ==
  /\ pc[p] = "idle" /\ c.op = "store"
  /\ c.flag # "other" /\ DatLen[c.data] \in DATLEN_MIN .. DATLEN_MAX
  /\ Goto(p, "findlock")
  /\ call' = [call EXCEPT ![p] = c]
  /\ SetRet(p, Pending)
  /\ UNCHANGED <<files, locks, db, pos, kv>>

StoreBadFlag(p, c) ==
  /\ pc[p] = "idle" /\ c.op = "store" /\ c.flag = "other"
  /\ SetRet(p, Result(-1, None, None))
  /\ UNCHANGED <<files, locks, pc, call, db, pos, kv>>

\* err_dump: the process aborts.
StoreBadLength(p, c) ==
  /\ pc[p] = "idle" /\ c.op = "store" /\ c.flag # "other"
  /\ DatLen[c.data] \notin DATLEN_MIN .. DATLEN_MAX
  /\ Exit(p)
  /\ UNCHANGED files

Rewind(p, c) ==
  /\ pc[p] = "idle" /\ c.op = "rewind"
  /\ pos' = [pos EXCEPT ![p] = RecOff]
  /\ UNCHANGED <<files, locks, pc, call, db, ret, kv>>

\* A process that died is started again and opens the existing database.
Reopen(p) ==
  /\ pc[p] = "dead"
  /\ Goto(p, "idle")
  /\ call' = [call EXCEPT ![p] = NoCall]
  /\ pos' = [pos EXCEPT ![p] = RecOff]
  /\ UNCHANGED <<files, locks, db, ret, kv>>

\* Mutant: a return that forgets un_lock.
UnlockChainForgotten(p) ==
  /\ pc[p] = "unlock"
  /\ Goto(p, "idle")
  /\ db' = [db EXCEPT ![p] = Scratch]
  /\ call' = [call EXCEPT ![p] = NoCall]
  /\ UNCHANGED <<files, locks, pos, ret, kv>>

\* The un_lock of the hash chain with which db_fetch, db_delete and db_store end.
UnlockChain(p) ==
  /\ pc[p] = "unlock"
  /\ Unlock(p, chainoff(p))
  /\ Goto(p, "idle")
  /\ db' = [db EXCEPT ![p] = Scratch]
  /\ call' = [call EXCEPT ![p] = NoCall]
  /\ UNCHANGED <<files, pos, ret, kv>>

-----------------------------------------------------------------------------
(* _db_find_and_lock, and what its callers do with its answer.              *)

\* Mutant: every caller takes the read lock.
FindLockRead(p) ==
  /\ pc[p] = "findlock"
  /\ ReadLock(p, chainoff(p))
  /\ db' = [db EXCEPT ![p].ptroff = chainoff(p)]
  /\ Goto(p, "findptr")
  /\ UNCHANGED <<files, call, pos, ret, kv>>

FindLock(p) ==
  /\ pc[p] = "findlock"
  /\ IF call[p].op = "fetch" THEN ReadLock(p, chainoff(p)) ELSE WriteLock(p, chainoff(p))
  /\ db' = [db EXCEPT ![p].ptroff = chainoff(p)]
  /\ Goto(p, "findptr")
  /\ UNCHANGED <<files, call, pos, ret, kv>>

FindPtr(p) ==
  /\ pc[p] = "findptr"
  /\ db' = [db EXCEPT ![p].offset = ptr[chainoff(p)]]
  /\ ReadPtr(p)
  /\ Goto(p, "findrec")
  /\ UNCHANGED <<locks, call, ret, kv>>

\* The record at offset has another key: remember it and go on to the next.
FindNext(p) ==
  /\ pc[p] = "findrec" /\ db[p].offset # 0 /\ rec[db[p].offset].key # call[p].key
  /\ db' = [db EXCEPT ![p] = [ReadIdx(p, db[p].offset) EXCEPT
                                !.ptroff = db[p].offset, !.offset = ptr[db[p].offset]]]
  /\ pos' = [pos EXCEPT ![p] = db[p].offset + 1]
  /\ UNCHANGED <<files, locks, pc, call, ret, kv>>

\* Mutant: DB_INSERT is not refused when the record exists.
AfterFoundInsert(p) ==
  CASE call[p].op = "fetch" -> "readdat"
    [] call[p].op = "delete" -> "dellock"
    [] OTHER -> IF DatLen[call[p].data] # rec[db[p].offset].datlen THEN "dellock"
                ELSE "overwrite"

\* What each caller does next with the record it asked for.
AfterFound(p) ==
  CASE call[p].op = "fetch" -> "readdat"
    [] call[p].op = "delete" -> "dellock"
    [] OTHER -> IF call[p].flag = "DB_INSERT" THEN "unlock"
                ELSE IF DatLen[call[p].data] # rec[db[p].offset].datlen THEN "dellock"
                ELSE "overwrite"

Found(p) ==
  /\ pc[p] = "findrec" /\ db[p].offset # 0 /\ rec[db[p].offset].key = call[p].key
  /\ db' = [db EXCEPT ![p] = ReadIdx(p, db[p].offset)]
  /\ pos' = [pos EXCEPT ![p] = db[p].offset + 1]
  /\ Goto(p, AfterFound(p))
  /\ IF AfterFound(p) = "unlock" THEN SetRet(p, Result(1, None, None)) ELSE UNCHANGED ret
  /\ UNCHANGED <<files, locks, call, kv>>

NotFound(p) ==
  /\ pc[p] = "findrec" /\ db[p].offset = 0
  /\ IF call[p].op = "store" /\ call[p].flag # "DB_REPLACE"
     THEN Goto(p, "readhead") /\ UNCHANGED ret
     ELSE Goto(p, "unlock") /\ SetRet(p, Result(-1, None, None))
  /\ UNCHANGED <<files, locks, call, db, pos, kv>>

FetchData(p) ==
  /\ pc[p] = "readdat"
  /\ SetRet(p, Result(0, None, dat[db[p].datoff]))
  /\ Goto(p, "unlock")
  /\ UNCHANGED <<files, locks, call, db, pos, kv>>

-----------------------------------------------------------------------------
(* _db_dodelete: under the write lock of the free list, blank the data,     *)
(* blank the key, push the record on the free list, unlink it.              *)

DelLock(p) ==
  /\ pc[p] = "dellock"
  /\ WriteLock(p, FREE_OFF)
  /\ Goto(p, "delblank")
  /\ UNCHANGED <<files, call, db, pos, ret, kv>>

DelBlank(p) ==
  /\ pc[p] = "delblank"
  /\ WriteDat(p, db[p].datoff, Blank)
  /\ Goto(p, "delfree")
  /\ UNCHANGED <<locks, call, db, ret, kv>>

\* Mutant: the deleted record does not lead to the old free list.
DelFreeCut(p) ==
  /\ pc[p] = "delfree"
  /\ db' = [db EXCEPT ![p].head = 0, ![p].save = db[p].ptrval]
  /\ ReadPtr(p)
  /\ Goto(p, "delidx")
  /\ UNCHANGED <<locks, call, ret, kv>>

DelFree(p) ==
  /\ pc[p] = "delfree"
  /\ db' = [db EXCEPT ![p].head = ptr[FREE_OFF], ![p].save = db[p].ptrval]
  /\ ReadPtr(p)
  /\ Goto(p, "delidx")
  /\ UNCHANGED <<locks, call, ret, kv>>

DelIdx(p) ==
  /\ pc[p] = "delidx"
  /\ WriteIdx(p, db[p].idxoff, Blank, KeyLen[call[p].key], db[p].head)
  /\ db' = [db EXCEPT ![p].ptrval = db[p].head]
  /\ Goto(p, "delhead")
  /\ UNCHANGED <<locks, call, ret, kv>>

DelHead(p) ==
  /\ pc[p] = "delhead"
  /\ WritePtr(p, FREE_OFF, db[p].idxoff)
  /\ Goto(p, "delunlink")
  /\ UNCHANGED <<locks, call, db, ret, kv>>

\* db_delete takes effect here; a db_store that replaces has lost the old record.
DelUnlink(p) ==
  /\ pc[p] = "delunlink"
  /\ WritePtr(p, db[p].ptroff, db[p].save)
  /\ Goto(p, "delunlock")
  /\ IF call[p].op = "delete"
     THEN /\ kv' = [kv EXCEPT ![call[p].key] = None]
          /\ SetRet(p, Result(0, None, None))
          /\ UNCHANGED db
     ELSE db' = [db EXCEPT ![p].gone = TRUE] /\ UNCHANGED <<kv, ret>>
  /\ UNCHANGED <<locks, call>>

DelUnlock(p) ==
  /\ pc[p] = "delunlock"
  /\ Unlock(p, FREE_OFF)
  /\ Goto(p, IF call[p].op = "delete" THEN "unlock" ELSE "readhead")
  /\ UNCHANGED <<files, call, db, pos, ret, kv>>

-----------------------------------------------------------------------------
(* db_store: read the chain head; for a new key look for a free record of   *)
(* the same sizes (_db_findfree); write the data, then the index record,    *)
(* then the chain head.                                                     *)

\* Mutant: the chain pointer is not read again after the deletion.
ReadHeadStale(p) ==
  /\ pc[p] = "readhead"
  /\ db' = [db EXCEPT ![p].head = IF db[p].gone THEN db[p].offset ELSE ptr[chainoff(p)]]
  /\ ReadPtr(p)
  /\ Goto(p, IF db[p].gone THEN "datlock" ELSE "freelock")
  /\ UNCHANGED <<locks, call, ret, kv>>

ReadHead(p) ==
  /\ pc[p] = "readhead"
  /\ db' = [db EXCEPT ![p].head = ptr[chainoff(p)]]
  /\ ReadPtr(p)
  /\ Goto(p, IF db[p].gone THEN "datlock" ELSE "freelock")
  /\ UNCHANGED <<locks, call, ret, kv>>

\* Mutant: _db_findfree does not lock the free list.
FreeLockNone(p) ==
  /\ pc[p] = "freelock"
  /\ Goto(p, "freeptr")
  /\ UNCHANGED <<files, locks, call, db, pos, ret, kv>>

FreeLock(p) ==
  /\ pc[p] = "freelock"
  /\ WriteLock(p, FREE_OFF)
  /\ Goto(p, "freeptr")
  /\ UNCHANGED <<files, call, db, pos, ret, kv>>

FreePtr(p) ==
  /\ pc[p] = "freeptr"
  /\ db' = [db EXCEPT ![p].offset = ptr[FREE_OFF], ![p].save = FREE_OFF]
  /\ ReadPtr(p)
  /\ Goto(p, "freerec")
  /\ UNCHANGED <<locks, call, ret, kv>>

FreeFits(p, o) ==
  /\ rec[o].klen = KeyLen[call[p].key]
  /\ rec[o].datlen = DatLen[call[p].data]

FreeNext(p) ==
  /\ pc[p] = "freerec" /\ db[p].offset # 0 /\ ~FreeFits(p, db[p].offset)
  /\ db' = [db EXCEPT ![p] = [ReadIdx(p, db[p].offset) EXCEPT
                                !.save = db[p].offset, !.offset = ptr[db[p].offset]]]
  /\ pos' = [pos EXCEPT ![p] = db[p].offset + 1]
  /\ UNCHANGED <<files, locks, pc, call, ret, kv>>

\* Mutant: the record is used without being removed from the free list.
FreeFoundKept(p) ==
  /\ pc[p] = "freerec" /\ db[p].offset # 0 /\ FreeFits(p, db[p].offset)
  /\ db' = [db EXCEPT ![p] = ReadIdx(p, db[p].offset)]
  /\ pos' = [pos EXCEPT ![p] = db[p].offset + 1]
  /\ Goto(p, "freeunlock")
  /\ UNCHANGED <<files, locks, call, ret, kv>>

FreeFound(p) ==
  /\ pc[p] = "freerec" /\ db[p].offset # 0 /\ FreeFits(p, db[p].offset)
  /\ db' = [db EXCEPT ![p] = ReadIdx(p, db[p].offset)]
  /\ pos' = [pos EXCEPT ![p] = db[p].offset + 1]
  /\ Goto(p, "freetake")
  /\ UNCHANGED <<files, locks, call, ret, kv>>

FreeTake(p) ==
  /\ pc[p] = "freetake"
  /\ WritePtr(p, db[p].save, db[p].ptrval)
  /\ Goto(p, "freeunlock")
  /\ UNCHANGED <<locks, call, db, ret, kv>>

\* offset is 0 when no free record fits.
FreeUnlock(p) ==
  /\ pc[p] = "freeunlock" \/ (pc[p] = "freerec" /\ db[p].offset = 0)
  /\ Unlock(p, FREE_OFF)
  /\ Goto(p, IF db[p].offset = 0 THEN "datlock" ELSE "reuse")
  /\ UNCHANGED <<files, call, db, pos, ret, kv>>

\* Same size data: just replace the data record of the key.
Overwrite(p) ==
  /\ pc[p] = "overwrite"
  /\ WriteDat(p, db[p].datoff, call[p].data)
  /\ kv' = [kv EXCEPT ![call[p].key] = call[p].data]
  /\ SetRet(p, Result(0, None, None))
  /\ Goto(p, "unlock")
  /\ UNCHANGED <<locks, call, db>>

\* Mutant: the blanks in the data of the free record stay.
ReuseNoData(p) ==
  /\ pc[p] = "reuse"
  /\ Goto(p, "idxrewrite")
  /\ UNCHANGED <<files, locks, call, db, pos, ret, kv>>

\* Write data, then key, over the free record that _db_findfree took.
Reuse(p) ==
  /\ pc[p] = "reuse"
  /\ WriteDat(p, db[p].datoff, call[p].data)
  /\ Goto(p, "idxrewrite")
  /\ UNCHANGED <<locks, call, db, ret, kv>>

IdxRewrite(p) ==
  /\ pc[p] = "idxrewrite"
  /\ WriteIdx(p, db[p].idxoff, call[p].key, KeyLen[call[p].key], db[p].head)
  /\ Goto(p, "link")
  /\ UNCHANGED <<locks, call, db, ret, kv>>

\* Mutant: the data file is not locked for an append.
DatLockNone(p) ==
  /\ pc[p] = "datlock"
  /\ datwl' = datwl \cup {p}
  /\ Goto(p, "datseek")
  /\ UNCHANGED <<files, rl, wl, call, db, pos, ret, kv>>

\* _db_writedat and _db_writeidx with SEEK_END: lock, seek, write, unlock.
DatLock(p) ==
  /\ pc[p] = "datlock"
  /\ datwl \subseteq {p}
  /\ datwl' = {p}
  /\ Goto(p, "datseek")
  /\ UNCHANGED <<files, rl, wl, call, db, pos, ret, kv>>

\* Mutant: the append starts at the last record instead of after it.
DatSeekShort(p) ==
  /\ pc[p] = "datseek"
  /\ db' = [db EXCEPT ![p].datoff = IF datsize > 1 THEN datsize - 1 ELSE 1,
                      ![p].datlen = DatLen[call[p].data]]
  /\ Goto(p, "datwrite")
  /\ UNCHANGED <<files, locks, call, pos, ret, kv>>

DatSeek(p) ==
  /\ pc[p] = "datseek"
  /\ db' = [db EXCEPT ![p].datoff = datsize, ![p].datlen = DatLen[call[p].data]]
  /\ Goto(p, "datwrite")
  /\ UNCHANGED <<files, locks, call, pos, ret, kv>>

\* Mutant: what writev returns is not looked at.
DatAppendUnchecked(p) ==
  /\ pc[p] = "datwrite"
  /\ IF db[p].datoff <= DatCap THEN WriteDat(p, db[p].datoff, call[p].data) ELSE UNCHANGED <<files, pos>>
  /\ Goto(p, "datunlock")
  /\ UNCHANGED <<locks, call, db, ret, kv>>

DatAppend(p) ==
  /\ pc[p] = "datwrite" /\ db[p].datoff <= DatCap
  /\ WriteDat(p, db[p].datoff, call[p].data)
  /\ Goto(p, "datunlock")
  /\ UNCHANGED <<locks, call, db, ret, kv>>

\* The writev fails for want of space and err_dump aborts the process.
DatFull(p) ==
  /\ pc[p] = "datwrite" /\ db[p].datoff > DatCap
  /\ Exit(p)
  /\ UNCHANGED files

DatUnlock(p) ==
  /\ pc[p] = "datunlock"
  /\ datwl' = datwl \ {p}
  /\ Goto(p, "idxlock")
  /\ UNCHANGED <<files, rl, wl, call, db, pos, ret, kv>>

\* Mutant: the index file is not locked for an append.
IdxLockNone(p) ==
  /\ pc[p] = "idxlock"
  /\ Goto(p, "idxseek")
  /\ UNCHANGED <<files, locks, call, db, pos, ret, kv>>

IdxLock(p) ==
  /\ pc[p] = "idxlock"
  /\ WriteLock(p, RecOff)
  /\ Goto(p, "idxseek")
  /\ UNCHANGED <<files, call, db, pos, ret, kv>>

\* Mutant: the append leaves a gap of one record.
IdxSeekGap(p) ==
  /\ pc[p] = "idxseek"
  /\ db' = [db EXCEPT ![p].idxoff = idxsize + 1]
  /\ Goto(p, "idxwrite")
  /\ UNCHANGED <<files, locks, call, pos, ret, kv>>

IdxSeek(p) ==
  /\ pc[p] = "idxseek"
  /\ db' = [db EXCEPT ![p].idxoff = idxsize]
  /\ Goto(p, "idxwrite")
  /\ UNCHANGED <<files, locks, call, pos, ret, kv>>

IdxAppend(p) ==
  /\ pc[p] = "idxwrite" /\ db[p].idxoff <= IdxCap
  /\ WriteIdx(p, db[p].idxoff, call[p].key, KeyLen[call[p].key], db[p].head)
  /\ Goto(p, "idxunlock")
  /\ UNCHANGED <<locks, call, db, ret, kv>>

IdxFull(p) ==
  /\ pc[p] = "idxwrite" /\ db[p].idxoff > IdxCap
  /\ Exit(p)
  /\ UNCHANGED files

IdxUnlock(p) ==
  /\ pc[p] = "idxunlock"
  /\ Unlock(p, RecOff)
  /\ Goto(p, "link")
  /\ UNCHANGED <<files, call, db, pos, ret, kv>>

\* The new record becomes the head of its chain: the store takes effect.
Link(p) ==
  /\ pc[p] = "link"
  /\ WritePtr(p, chainoff(p), db[p].idxoff)
  /\ kv' = [kv EXCEPT ![call[p].key] = call[p].data]
  /\ SetRet(p, Result(0, None, None))
  /\ Goto(p, "unlock")
  /\ UNCHANGED <<locks, call, db>>

\* err_quit of _db_writeptr: the offset does not fit a pointer field.
LinkRefused(p) ==
  /\ pc[p] = "link" /\ db[p].idxoff > PtrMax
  /\ Exit(p)
  /\ UNCHANGED files

-----------------------------------------------------------------------------
(* db_nextrec: under the read lock of the free list, step through the file  *)
(* from the current position to a record whose key is not blank.            *)

ScanLock(p) ==
  /\ pc[p] = "scanlock"
  /\ ReadLock(p, FREE_OFF)
  /\ Goto(p, "scanrec")
  /\ UNCHANGED <<files, call, db, pos, ret, kv>>

ScanRecord(p) ==
  /\ pc[p] = "scanrec" /\ pos[p] \in RecOff .. idxsize - 1
  /\ db' = [db EXCEPT ![p] = ReadIdx(p, pos[p])]
  /\ pos' = [pos EXCEPT ![p] = pos[p] + 1]
  /\ Goto(p, IF rec[pos[p]].key = Blank THEN "scanrec" ELSE "scandat")
  /\ UNCHANGED <<files, locks, call, ret, kv>>

ScanEof(p) ==
  /\ pc[p] = "scanrec" /\ pos[p] >= idxsize
  /\ SetRet(p, Result(-1, None, None))
  /\ Goto(p, "scanunlock")
  /\ UNCHANGED <<files, locks, call, db, pos, kv>>

\* The position is inside the hash table or a record: what is there does not
\* pass for an index record and a sanity check of _db_readidx aborts (err_dump).
ScanMisaligned(p) ==
  /\ pc[p] = "scanrec" /\ pos[p] = 0
  /\ Exit(p)
  /\ UNCHANGED files

ScanData(p) ==
  /\ pc[p] = "scandat"
  /\ SetRet(p, Result(0, db[p].idxbuf, dat[db[p].datoff]))
  /\ Goto(p, "scanunlock")
  /\ UNCHANGED <<files, locks, call, db, pos, kv>>

ScanUnlock(p) ==
  /\ pc[p] = "scanunlock"
  /\ Unlock(p, FREE_OFF)
  /\ Goto(p, "idle")
  /\ db' = [db EXCEPT ![p] = Scratch]
  /\ call' = [call EXCEPT ![p] = NoCall]
  /\ UNCHANGED <<files, pos, ret, kv>>

-----------------------------------------------------------------------------
Begin(p) ==
  \E c \in Menu[p] : \/ Call(p, c) \/ StoreCall(p, c) \/ StoreBadFlag(p, c)
                     \/ StoreBadLength(p, c) \/ Rewind(p, c)

FindStep(p) == FindLock(p) \/ FindPtr(p) \/ FindNext(p) \/ Found(p) \/ NotFound(p)

DeleteStep(p) ==
  \/ DelLock(p) \/ DelBlank(p) \/ DelFree(p) \/ DelIdx(p) \/ DelHead(p)
  \/ DelUnlink(p) \/ DelUnlock(p)

FreeStep(p) ==
  FreeLock(p) \/ FreePtr(p) \/ FreeNext(p) \/ FreeFound(p) \/ FreeTake(p) \/ FreeUnlock(p)

StoreStep(p) ==
  \/ ReadHead(p) \/ Overwrite(p) \/ Reuse(p) \/ IdxRewrite(p)
  \/ DatLock(p) \/ DatSeek(p) \/ DatAppend(p) \/ DatFull(p) \/ DatUnlock(p)
  \/ IdxLock(p) \/ IdxSeek(p) \/ IdxAppend(p) \/ IdxFull(p) \/ IdxUnlock(p)
  \/ Link(p) \/ LinkRefused(p)

ScanStep(p) ==
  ScanLock(p) \/ ScanRecord(p) \/ ScanEof(p) \/ ScanMisaligned(p) \/ ScanData(p) \/ ScanUnlock(p)

\* A step inside a call.
Step(p) ==
  FindStep(p) \/ FetchData(p) \/ DeleteStep(p) \/ FreeStep(p) \/ StoreStep(p)
  \/ ScanStep(p) \/ UnlockChain(p)

Next == \E p \in Proc : Begin(p) \/ Step(p) \/ Reopen(p)

Spec == Init /\ [][Next]_vars

\* Processes run independently and the system schedules each of them: a process
\* whose next system call can proceed makes it.  Nothing is assumed of the order
\* in which waiting processes get a lock, nor that callers ever call.
FairSpec == Spec /\ \A p \in Proc : WF_vars(Step(p))

-----------------------------------------------------------------------------
(* Processes killed inside a call.                                          *)

Crash(p) ==
  /\ pc[p] \notin {"idle", "dead"}
  /\ Exit(p)
  /\ UNCHANGED files

KillNext == Next \/ \E p \in Proc : Crash(p)

KillSpec == Init /\ [][KillNext]_vars

\* The two steps of _db_dodelete during which the chain runs into the free list.
Torn(p) == pc[p] \in {"delhead", "delunlink"}

CrashNext == Next \/ \E p \in Proc : ~Torn(p) /\ Crash(p)

CrashSpec == Init /\ [][CrashNext]_vars

-----------------------------------------------------------------------------
(* Lists in the index file.                                                 *)

\* Path(a)[i]: where i further hops from the pointer at a lead (0: the end).
Path(a) ==
  LET hop[i \in 0 .. IdxCap] ==
        IF i = 0 THEN ptr[a] ELSE IF hop[i - 1] = 0 THEN 0 ELSE ptr[hop[i - 1]]
  IN  hop

Ends(a) == Path(a)[IdxCap] = 0

OnList(a) == {Path(a)[i] : i \in 0 .. IdxCap} \ {0}

\* Lists no process is changing.
Quiet == {a \in 0 .. NHash : wl[a] = {}}

Labels == {"idle", "dead", "unlock", "findlock", "findptr", "findrec", "readdat",
           "dellock", "delblank", "delfree", "delidx", "delhead", "delunlink", "delunlock",
           "readhead", "freelock", "freeptr", "freerec", "freetake", "freeunlock",
           "overwrite", "reuse", "idxrewrite", "datlock", "datseek", "datwrite",
           "datunlock", "idxlock", "idxseek", "idxwrite", "idxunlock", "link",
           "scanlock", "scanrec", "scandat", "scanunlock"}

Handles ==
  [ptroff : Offsets, idxoff : 0 .. IdxCap + 1, ptrval : Offsets, datoff : 0 .. DatCap + 1,
   datlen : Nat, idxbuf : Keys \cup {Blank, None}, offset : Offsets, save : Offsets,
   head : Offsets, gone : BOOLEAN]

FileType ==
  /\ ptr \in [Offsets -> Offsets]
  /\ rec \in [Records -> [key : Keys \cup {Blank, None}, klen : Nat,
                          datoff : 0 .. DatCap, datlen : Nat]]
  /\ idxsize \in RecOff .. IdxCap + 1
  /\ dat \in [1 .. DatCap -> Data \cup {Blank, None}]
  /\ datsize \in 1 .. DatCap + 1

LockType ==
  /\ rl \in [0 .. RecOff -> SUBSET Proc] /\ wl \in [0 .. RecOff -> SUBSET Proc]
  /\ datwl \in SUBSET Proc
  /\ pc \in [Proc -> Labels]
  /\ call \in [Proc -> Calls]

HandleType ==
  /\ db \in [Proc -> Handles]
  /\ pos \in [Proc -> 0 .. IdxCap + 1]
  /\ ret \in [Proc -> [code : -1 .. 2, key : Keys \cup {None, Blank},
                       data : Data \cup {None, Blank}]]
  /\ kv \in [Keys -> Data \cup {None}]

\* Every variable has the type its declaration in db.c gives it.
TypeOK == FileType /\ LockType /\ HandleType

\* Where a process uses the hash chain of its key (_db_find_and_lock locks it,
\* db_fetch, db_delete and db_store unlock it at their end).
OutLabels == {"idle", "dead", "findlock", "scanlock", "scanrec", "scandat", "scanunlock"}

InChain(p) == pc[p] \notin OutLabels

FreeLabels == {"delblank", "delfree", "delidx", "delhead", "delunlink", "delunlock",
               "freeptr", "freerec", "freetake", "freeunlock"}

ChangesFree(p) == pc[p] \in FreeLabels

ReadLabels == {"scanrec", "scandat", "scanunlock"}

Scans(p) == pc[p] \in ReadLabels

\* "Returns with the hash chain locked": while a db_store or db_delete is at work
\* on a chain, nobody else reads or changes that chain.
ChainExclusion ==
  \A p, q \in Proc :
    p # q /\ InChain(p) /\ InChain(q) /\ chainoff(p) = chainoff(q)
      => call[p].op = "fetch" /\ call[q].op = "fetch"

\* "We read lock the free list so that we don't read a record in the middle of its
\* being deleted": no two processes change the free list, and no scan overlaps one.
FreeExclusion ==
  \A p, q \in Proc : p # q /\ ChangesFree(p) => ~ChangesFree(q) /\ ~Scans(q)

\* "lock before doing the lseek and write to make the two an atomic operation":
\* one process at a time is between the seek to the end of a file and the write.
AppendExclusion ==
  \A p, q \in Proc : p # q =>
    /\ ~(pc[p] = "datwrite" /\ pc[q] = "datwrite")
    /\ ~(pc[p] = "idxwrite" /\ pc[q] = "idxwrite")

\* Every chain pointer in the index file is 0 or leads to a record that has been
\* written, with its data: no process ever follows a pointer into nothing.
PointersValid ==
  /\ \A o \in Offsets : ptr[o] = 0 \/ ptr[o] \in RecOff .. idxsize - 1
  /\ \A o \in RecOff .. idxsize - 1 : rec[o].datoff \in 1 .. datsize - 1 /\ rec[o].key # None

\* A chain nobody is changing ends, holds only keys that hash to it, each once;
\* a free list nobody is changing ends and holds only blanked records; and no
\* record is on two lists.
ListsSound ==
  /\ \A a \in Quiet : Ends(a)
  /\ \A c \in Quiet \ {FREE_OFF} : \A o \in OnList(c) :
       /\ rec[o].key \in Keys /\ Hash[rec[o].key] = c
       /\ \A o2 \in OnList(c) : rec[o2].key = rec[o].key => o2 = o
  /\ FREE_OFF \in Quiet => \A o \in OnList(FREE_OFF) : rec[o].key = Blank
  /\ \A a, b \in Quiet : a # b => OnList(a) \cap OnList(b) = {}

\* What a walk of an unlocked chain finds is the map that the completed calls
\* built: no store or delete is lost, undone or applied to another key.
FilesHoldMap ==
  \A k \in Keys : Hash[k] \in Quiet =>
    LET at == {o \in OnList(Hash[k]) : rec[o].key = k}
    IN  IF kv[k] = None THEN at = {} ELSE \E o \in at : dat[rec[o].datoff] = kv[k]

\* Records that no list leads to for the moment: the free record a db_store took or
\* the one it appended, and the rest of a chain behind a record being deleted.
Held(p) ==
  IF Torn(p) /\ db[p].save # 0 THEN {db[p].save} \cup OnList(db[p].save)
  ELSE IF pc[p] \in {"freeunlock", "reuse", "idxrewrite", "idxunlock", "link"} THEN {db[p].idxoff}
  ELSE {}

\* Every index record is on a chain, on the free list, or held by a process that
\* is about to link it: no record is lost while processes live.
NoRecordLost ==
  \A o \in RecOff .. idxsize - 1 :
    (\E a \in 0 .. NHash : o \in OnList(a)) \/ (\E p \in Proc : o \in Held(p))

\* No two index records share a data record, and the data in it has the length the
\* index record says, so that overwriting it in place cannot touch its neighbour.
DataUnshared ==
  \A o \in RecOff .. idxsize - 1 :
    /\ \A o2 \in RecOff .. idxsize - 1 : rec[o].datoff = rec[o2].datoff => o = o2
    /\ dat[rec[o].datoff] \in Data => DatLen[dat[rec[o].datoff]] = rec[o].datlen

\* "We just step our way through the index file, ignoring deleted records":
\* db_nextrec, on a handle that db_open has rewound, does not abort its process.
ScanNeverAborts == \A p \in Proc : ~(pc[p] = "dead" /\ call[p].op = "nextrec")

\* The processes that are inside a call.
Busy == {p \in Proc : pc[p] \notin {"idle", "dead"}}

\* No set of processes is stuck in its calls: when no new call is made, one of those
\* in progress ends, so that processes waiting for locks never wait for each other or
\* for a lock somebody has forgotten, and every walk along a list ends.
CallsDrain == \A S \in (SUBSET Proc) \ {{}} : []<>(Busy # S)

=============================================================================
