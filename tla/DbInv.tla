--------------------------------- MODULE DbInv ---------------------------------
(***************************************************************************)
(* The inductive invariant behind the theorems about Db: which call a       *)
(* process is in at each label, which locks it holds there, and which       *)
(* places of the files its handle refers to.                                *)
(***************************************************************************)
EXTENDS Db

DelLabels == {"dellock", "delblank", "delfree", "delidx", "delhead", "delunlink", "delunlock"}

StoreLabels == {"readhead", "freelock", "freeptr", "freerec", "freetake", "freeunlock",
                "overwrite", "reuse", "idxrewrite", "datlock", "datseek", "datwrite",
                "datunlock", "idxlock", "idxseek", "idxwrite", "idxunlock", "link"}

DatLabels == {"datseek", "datwrite", "datunlock"}

IdxLabels == {"idxseek", "idxwrite", "idxunlock"}

\* The labels at which each kind of call can be.
CallOK(p) ==
  /\ InChain(p) \/ pc[p] = "findlock" =>
       /\ call[p].op \in {"fetch", "store", "delete"}
       /\ call[p].key \in Keys
       /\ call[p].op = "store" => call[p].data \in Data
  /\ pc[p] = "readdat" => call[p].op = "fetch"
  /\ pc[p] \in DelLabels => call[p].op \in {"store", "delete"}
  /\ pc[p] \in StoreLabels => call[p].op = "store"

\* The locks a process holds at each label.
HoldOK(p) ==
  /\ InChain(p) =>
       IF call[p].op = "fetch" THEN p \in rl[chainoff(p)] ELSE p \in wl[chainoff(p)]
  /\ ChangesFree(p) => p \in wl[FREE_OFF]
  /\ Scans(p) => p \in rl[FREE_OFF]
  /\ pc[p] \in DatLabels => p \in datwl
  /\ pc[p] \in IdxLabels => p \in wl[RecOff]

\* What fcntl guarantees: a write lock excludes every other lock.
GrantInv ==
  /\ \A o \in 0 .. RecOff : \A p \in wl[o] : wl[o] = {p} /\ rl[o] \subseteq {p}
  /\ \A p \in datwl : datwl = {p}

LockInv == LockType /\ GrantInv /\ \A p \in Proc : CallOK(p) /\ HoldOK(p)

-----------------------------------------------------------------------------
Written == RecOff .. idxsize - 1

\* A place in a list: its end, or a record that has been written.
Ref(v) == v = 0 \/ v \in Written

\* Labels at which the handle names a written index record and its data record.
RecordLabels == DelLabels \cup {"readdat", "overwrite", "freetake", "freeunlock", "reuse",
                                "idxrewrite", "idxunlock", "link", "scandat"}

HandleOK(p) ==
  /\ Ref(db[p].offset) /\ Ref(db[p].save) /\ Ref(db[p].head) /\ Ref(db[p].ptrval)
  /\ pc[p] \in RecordLabels => db[p].idxoff \in Written
  /\ pc[p] \in RecordLabels \cup {"datunlock", "idxlock", "idxseek", "idxwrite"}
       => db[p].datoff \in 1 .. datsize - 1
  /\ pc[p] = "datwrite" => db[p].datoff = datsize
  /\ pc[p] = "idxwrite" => db[p].idxoff = idxsize

FileInv == FileType /\ HandleType /\ PointersValid /\ \A p \in Proc : HandleOK(p)

DbIInv == LockInv /\ FileInv

=============================================================================
