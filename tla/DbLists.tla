------------------------------- MODULE DbLists -------------------------------
(***************************************************************************)
(* The inductive invariant about the lists of the index file.  It speaks    *)
(* of the lists as db.c means them rather than as they are stored for the   *)
(* moment: while a process is between the two pointers it has to write in   *)
(* _db_dodelete, the chain on the file runs into the free list.             *)
(*                                                                          *)
(*   own[o]   the list the place o is on, NoList when it is on none         *)
(*   nx[o]    the place that follows o, 0 at the end                        *)
(*   rank[o]  a number that falls along every list                          *)
(*                                                                          *)
(* The invariant says that there are such functions.                        *)
(***************************************************************************)
EXTENDS DbInv

NoList == -1

Chains == 1 .. NHash

\* Each list is the places of one owner, from its head on in the order of their rank.
Shape(own, nx, rank) ==
  /\ own \in [Offsets -> NoList .. NHash]
  /\ nx \in [Offsets -> Offsets]
  /\ rank \in [Offsets -> Nat]
  /\ \A a \in 0 .. NHash : own[a] = a
  /\ \A o \in Records : own[o] # NoList => rank[o] < rank[own[o]]
  /\ \A o \in Offsets : own[o] # NoList /\ nx[o] # 0 =>
       nx[o] \in Records /\ own[nx[o]] = own[o] /\ rank[nx[o]] < rank[o]
  /\ \A o, q \in Offsets : own[o] # NoList /\ own[q] = own[o] =>
       /\ rank[q] < rank[o] => nx[o] # 0 /\ rank[q] <= rank[nx[o]]
       /\ rank[q] = rank[o] => q = o

\* What the file holds of them.
OnFile(own, nx) ==
  /\ \A o \in Offsets :
       own[o] # NoList /\ (\A p \in Proc : Torn(p) => db[p].ptroff # o) => ptr[o] = nx[o]
  /\ \A o \in Records : own[o] # NoList => o \in Written
  /\ \A o \in Records : own[o] = FREE_OFF => rec[o].key = Blank
  /\ \A o \in Records : own[o] \in Chains => rec[o].key \in Keys /\ Hash[rec[o].key] = own[o]
  /\ \A o, q \in Records :
       own[o] \in Chains /\ own[q] = own[o] /\ rec[q].key = rec[o].key => q = o

\* Where _db_find_and_lock has found the record of the key.
FoundLabels == {"readdat", "overwrite", "dellock", "delblank", "delfree", "delidx"}

\* Where db_store or db_delete knows that the key is on no chain.
MissLabels == (StoreLabels \ {"overwrite"}) \cup {"delhead", "delunlink", "delunlock"}

HeadLabels == StoreLabels \ {"overwrite", "readhead"}

TakenLabels == {"freeunlock", "reuse", "idxrewrite"}

NewLabels == {"idxunlock", "link"}

\* Where a process has a record that is on no list.
HoldLabels == {"delhead"} \cup TakenLabels \cup NewLabels

FindPlace(p, own, nx, rank) ==
  /\ pc[p] = "findptr" => db[p].ptroff = chainoff(p)
  /\ pc[p] = "findrec" =>
       /\ own[db[p].ptroff] = chainoff(p) /\ nx[db[p].ptroff] = db[p].offset
       /\ \A o \in Records : own[o] = chainoff(p) /\ rec[o].key = call[p].key
                               => rank[o] < rank[db[p].ptroff]
  /\ pc[p] \in FoundLabels =>
       /\ own[db[p].ptroff] = chainoff(p) /\ nx[db[p].ptroff] = db[p].idxoff
       /\ db[p].ptrval = nx[db[p].idxoff] /\ rec[db[p].idxoff].key = call[p].key
  /\ pc[p] \in MissLabels =>
       \A o \in Records : own[o] = chainoff(p) => rec[o].key # call[p].key

DeletePlace(p, own, nx) ==
  /\ pc[p] = "delidx" => db[p].save = db[p].ptrval /\ db[p].head = nx[FREE_OFF]
  /\ Torn(p) => own[db[p].ptroff] = chainoff(p) /\ nx[db[p].ptroff] = db[p].save
                /\ ptr[db[p].ptroff] = db[p].idxoff
  /\ pc[p] = "delhead" => db[p].head = nx[FREE_OFF] /\ ptr[db[p].idxoff] = db[p].head
                          /\ rec[db[p].idxoff].key = Blank

StorePlace(p, own, nx) ==
  /\ pc[p] \in HeadLabels => db[p].head = nx[chainoff(p)]
  /\ pc[p] \in {"freerec", "freetake"} =>
       own[db[p].save] = FREE_OFF /\ nx[db[p].save] = db[p].offset
  /\ pc[p] = "freetake" =>
       db[p].offset = db[p].idxoff /\ db[p].ptrval = nx[db[p].idxoff]
  /\ pc[p] = "freeunlock" => db[p].offset # 0
  /\ pc[p] \in TakenLabels => rec[db[p].idxoff].key = Blank
  /\ pc[p] \in NewLabels =>
       rec[db[p].idxoff].key = call[p].key /\ ptr[db[p].idxoff] = db[p].head
  /\ pc[p] \in HoldLabels => own[db[p].idxoff] = NoList

Place(p, own, nx, rank) ==
  FindPlace(p, own, nx, rank) /\ DeletePlace(p, own, nx) /\ StorePlace(p, own, nx)

\* No two processes hold the same record.
HoldApart ==
  \A p, q \in Proc : p # q /\ pc[p] \in HoldLabels /\ pc[q] \in HoldLabels
                       => db[p].idxoff # db[q].idxoff

ListInv(own, nx, rank) ==
  /\ Shape(own, nx, rank) /\ OnFile(own, nx) /\ HoldApart
  /\ \A p \in Proc : Place(p, own, nx, rank)

-----------------------------------------------------------------------------
(* Index records and their data records.                                    *)

AgreeLabels == FoundLabels \cup {"freetake"} \cup TakenLabels \cup NewLabels

\* Where db_store has appended its data but not yet the index record for it.
AppendedLabels == {"datunlock", "idxlock", "idxseek", "idxwrite"}

SizeLabels == {"overwrite", "freetake", "datwrite"} \cup TakenLabels \cup NewLabels \cup AppendedLabels

DataPlace(p) ==
  /\ pc[p] \in AgreeLabels => /\ rec[db[p].idxoff].datoff = db[p].datoff
                              /\ rec[db[p].idxoff].datlen = db[p].datlen
  /\ pc[p] \in SizeLabels => db[p].datlen = DatLen[call[p].data]
  /\ pc[p] \in AppendedLabels =>
       dat[db[p].datoff] = call[p].data /\ \A o \in Written : rec[o].datoff # db[p].datoff

DataInv ==
  /\ DataUnshared
  /\ \A p \in Proc : DataPlace(p)
  /\ \A p, q \in Proc : p # q /\ pc[p] \in AppendedLabels /\ pc[q] \in AppendedLabels
                          => db[p].datoff # db[q].datoff

-----------------------------------------------------------------------------
(* The files and the map that the completed calls have built.               *)

\* Where a replacing db_store has deleted the old record.
GoneLabels == {"delunlock", "readhead", "datlock", "datseek", "datwrite", "datunlock", "idxlock",
               "idxseek", "idxwrite", "idxunlock", "link", "unlock"}

\* Where the record that db_store is about to link has its data.
FilledLabels == {"idxrewrite"} \cup NewLabels

\* The key of p is in the map but on no chain for the moment.
Between(p) == Torn(p) \/ (db[p].gone /\ pc[p] # "unlock")

\* Every record on a chain is in the map, with its data unless that is being deleted.
OnMap(own) ==
  \A o \in Records : own[o] \in Chains =>
    /\ kv[rec[o].key] # None
    /\ \/ dat[rec[o].datoff] = kv[rec[o].key]
       \/ \E p \in Proc : pc[p] \in {"delfree", "delidx"} /\ db[p].idxoff = o

\* Every key of the map is on its chain.
Kept(own) ==
  \A k \in Keys : kv[k] # None =>
    \/ \E o \in Records : own[o] = Hash[k] /\ rec[o].key = k
    \/ \E p \in Proc : Between(p) /\ call[p].key = k

MapPlace(p) ==
  /\ db[p].gone => pc[p] \in GoneLabels /\ call[p].op = "store" /\ call[p].flag # "DB_INSERT"
  /\ Between(p) => kv[call[p].key] # None
  /\ pc[p] \in FilledLabels => dat[db[p].datoff] = call[p].data
  /\ pc[p] \in StoreLabels \ {"overwrite"} /\ ~db[p].gone =>
       kv[call[p].key] = None /\ call[p].flag # "DB_REPLACE"
  /\ pc[p] \in DelLabels \cup {"overwrite"} /\ call[p].op = "store" => call[p].flag # "DB_INSERT"
  /\ pc[p] = "delunlock" /\ call[p].op = "store" => db[p].gone

MapInv(own) == OnMap(own) /\ Kept(own) /\ \A p \in Proc : MapPlace(p)

\* Every index record that a pointer can lead to is on a list or held.
Whole(own) ==
  \A o \in Written : o <= PtrMax =>
    own[o] # NoList \/ \E p \in Proc : pc[p] \in HoldLabels /\ db[p].idxoff = o

-----------------------------------------------------------------------------
(* What calls have answered, and what a scan has read.                      *)

\* Where a call has taken effect.
DoneLabels == {"unlock", "scanunlock"}

AnswerPlace(p) ==
  /\ pc[p] = "idle" => call[p] = NoCall
  /\ pc[p] \in {"scanlock"} \cup ReadLabels => call[p].op = "nextrec"
  /\ pc[p] \in DoneLabels \/ (pc[p] = "delunlock" /\ call[p].op = "delete") => ret[p] # Pending
  /\ pc[p] \notin DoneLabels \cup {"idle", "dead"} /\ ~(pc[p] = "delunlock" /\ call[p].op = "delete")
       => ret[p] = Pending
  /\ pc[p] = "scandat" =>
       /\ rec[db[p].idxoff].key = db[p].idxbuf /\ rec[db[p].idxoff].datoff = db[p].datoff
       /\ db[p].idxbuf # Blank

=============================================================================
