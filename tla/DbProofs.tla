------------------------------ MODULE DbProofs ------------------------------
(***************************************************************************)
(* Theorems about Db for every set of processes, keys and data, every hash  *)
(* function and every size of the files: the locks exclude each other, the  *)
(* pointers of the index file are valid and every variable keeps its type,  *)
(* whatever the processes do and whenever they are killed.  The facts about  *)
(* the lists that the other proofs about Db share are at the end.           *)
(***************************************************************************)
EXTENDS DbLists, TLAPS

\* Most leaves are first-order: Zenon first, the others go to the SMT solver.
USE ZenonT(3), SMT

\* The lock offset of a chain is neither that of the free list nor that of appends.
LEMMA ChainOffset ==
  ASSUME NEW p \in Proc, call[p].key \in Keys
  PROVE  chainoff(p) \in 1 .. NHash /\ chainoff(p) \in 0 .. RecOff
         /\ chainoff(p) # FREE_OFF /\ chainoff(p) # RecOff
BY DbConstants DEF chainoff, FREE_OFF, RecOff

LEMMA LockOffsets == FREE_OFF \in 0 .. RecOff /\ RecOff \in 0 .. RecOff /\ FREE_OFF # RecOff
BY DbConstants DEF FREE_OFF, RecOff

\* A step of p that moves only p and p's own locks.
Moves(p, l) ==
  /\ pc' = [pc EXCEPT ![p] = l]
  /\ \A q \in Proc \ {p} : call'[q] = call[q]

Mine(p) ==
  \A q \in Proc \ {p} :
    /\ \A o \in 0 .. RecOff : (q \in wl'[o] <=> q \in wl[o]) /\ (q \in rl'[o] <=> q \in rl[o])
    /\ q \in datwl' <=> q \in datwl

\* What such a step has to show: the locks stay well formed and p is where it should be.
LEMMA OthersKeep ==
  ASSUME NEW p \in Proc, NEW l \in Labels, LockInv, LockType', GrantInv',
         Moves(p, l), Mine(p), CallOK(p)', HoldOK(p)'
  PROVE  LockInv'
<1> SUFFICES ASSUME NEW q \in Proc \ {p} PROVE CallOK(q)' /\ HoldOK(q)'
  BY DEF LockInv
<1>1. pc'[q] = pc[q] /\ call'[q] = call[q]
  BY DEF Moves, LockInv, LockType
<1>2. CallOK(q) /\ HoldOK(q)
  BY DEF LockInv
<1>3. CallOK(q)'
  BY <1>1, <1>2 DEF CallOK, InChain
<1>4. HoldOK(q)'
  <2>1. InChain(q) => call[q].key \in Keys
    BY <1>2 DEF CallOK
  <2>2. InChain(q) => chainoff(q) \in 0 .. RecOff
    BY <2>1, ChainOffset
  <2> QED BY <1>1, <1>2, <2>2, LockOffsets
             DEF HoldOK, Mine, InChain, ChangesFree, Scans, chainoff
<1> QED BY <1>3, <1>4

LEMMA ReadLockOK ==
  ASSUME NEW p \in Proc, NEW o \in 0 .. RecOff, LockType, GrantInv, ReadLock(p, o)
  PROVE  /\ rl' \in [0 .. RecOff -> SUBSET Proc] /\ wl' \in [0 .. RecOff -> SUBSET Proc]
         /\ datwl' \in SUBSET Proc /\ GrantInv' /\ Mine(p)
         /\ p \in rl'[o]
         /\ \A o2 \in 0 .. RecOff : o2 # o => rl'[o2] = rl[o2] /\ wl'[o2] = wl[o2]
BY DEF LockType, GrantInv, ReadLock, Mine

LEMMA WriteLockOK ==
  ASSUME NEW p \in Proc, NEW o \in 0 .. RecOff, LockType, GrantInv, WriteLock(p, o)
  PROVE  /\ rl' \in [0 .. RecOff -> SUBSET Proc] /\ wl' \in [0 .. RecOff -> SUBSET Proc]
         /\ datwl' \in SUBSET Proc /\ GrantInv' /\ Mine(p)
         /\ p \in wl'[o]
         /\ \A o2 \in 0 .. RecOff : o2 # o => rl'[o2] = rl[o2] /\ wl'[o2] = wl[o2]
BY DEF LockType, GrantInv, WriteLock, Mine

LEMMA UnlockOK ==
  ASSUME NEW p \in Proc, NEW o \in 0 .. RecOff, LockType, GrantInv, Unlock(p, o)
  PROVE  /\ rl' \in [0 .. RecOff -> SUBSET Proc] /\ wl' \in [0 .. RecOff -> SUBSET Proc]
         /\ datwl' \in SUBSET Proc /\ GrantInv' /\ Mine(p)
         /\ \A o2 \in 0 .. RecOff : o2 # o => rl'[o2] = rl[o2] /\ wl'[o2] = wl[o2]
BY DEF LockType, GrantInv, Unlock, Mine

LEMMA InitLockInv == Init => LockInv
<1> SUFFICES ASSUME Init PROVE LockInv
  OBVIOUS
<1>1. LockType
  BY DEF Init, LockType, Labels, NoCall, Calls, Ops, Flags
<1>2. GrantInv /\ \A p \in Proc : CallOK(p) /\ HoldOK(p)
  BY DEF Init, CallOK, HoldOK, GrantInv, InChain, ChangesFree, Scans, OutLabels, FreeLabels, ReadLabels, DatLabels, IdxLabels, DelLabels, StoreLabels
<1> QED BY <1>1, <1>2 DEF LockInv

\* A step that changes no lock and enters no section it was not in.
LEMMA Stay ==
  ASSUME NEW p \in Proc, NEW l \in Labels, LockInv,
         pc' = [pc EXCEPT ![p] = l], UNCHANGED <<rl, wl, datwl, call>>,
         l \notin OutLabels => pc[p] \notin OutLabels,
         l \in FreeLabels => pc[p] \in FreeLabels,
         l \in ReadLabels => pc[p] \in ReadLabels,
         l \in DatLabels => pc[p] \in DatLabels,
         l \in IdxLabels => pc[p] \in IdxLabels,
         l # "findlock",
         l = "readdat" => call[p].op = "fetch",
         l \in DelLabels => call[p].op \in {"store", "delete"},
         l \in StoreLabels => call[p].op = "store"
  PROVE  LockInv'
<1>1. LockType /\ GrantInv /\ CallOK(p) /\ HoldOK(p) /\ pc'[p] = l /\ call'[p] = call[p]
  BY DEF LockInv, LockType
<1>2. LockType' /\ GrantInv' /\ Mine(p)
  BY <1>1 DEF LockType, GrantInv, Mine
<1>3. CallOK(p)'
  BY <1>1 DEF CallOK, InChain
<1>4. HoldOK(p)'
  BY <1>1 DEF HoldOK, InChain, ChangesFree, Scans, chainoff
<1> QED BY <1>2, <1>3, <1>4, OthersKeep DEF Moves

\* A step to a label outside every section needs nothing of p.
LEMMA Leave ==
  ASSUME NEW p \in Proc, NEW l \in {"idle", "dead", "scanlock"}, LockInv, LockType', GrantInv', Mine(p),
         Moves(p, l)
  PROVE  LockInv'
<1>1. pc'[p] = l
  BY DEF LockInv, LockType, Moves
<1>2. l \in (Labels \cap OutLabels) \ (FreeLabels \cup ReadLabels \cup DatLabels \cup IdxLabels
                      \cup DelLabels \cup StoreLabels \cup {"findlock", "readdat"})
  BY DEF Labels, OutLabels, FreeLabels, ReadLabels, DatLabels, IdxLabels, DelLabels, StoreLabels
<1>3. CallOK(p)' /\ HoldOK(p)'
  BY <1>1, <1>2 DEF CallOK, HoldOK, InChain, ChangesFree, Scans
<1> QED BY <1>2, <1>3, OthersKeep

LEMMA ExitInv ==
  ASSUME NEW p \in Proc, LockInv, Exit(p)
  PROVE  LockInv'
<1>1. LockType /\ GrantInv /\ pc' = [pc EXCEPT ![p] = "dead"] /\ call' = call
      /\ wl' = [o \in 0 .. RecOff |-> wl[o] \ {p}] /\ rl' = [o \in 0 .. RecOff |-> rl[o] \ {p}]
      /\ datwl' = datwl \ {p}
  BY DEF LockInv, Exit, Goto
<1>2. LockType'
  BY <1>1 DEF LockType, Labels
<1>3. GrantInv' /\ Mine(p) /\ Moves(p, "dead")
  BY <1>1 DEF LockType, GrantInv, Mine, Moves
<1> QED BY <1>2, <1>3, Leave

LEMMA FindLockInv ==
  ASSUME NEW p \in Proc, LockInv, FindLock(p)
  PROVE  LockInv'
<1> DEFINE c == chainoff(p)
<1>1. /\ LockType /\ GrantInv /\ CallOK(p) /\ HoldOK(p)
      /\ pc[p] = "findlock" /\ call' = call /\ pc' = [pc EXCEPT ![p] = "findptr"]
      /\ IF call[p].op = "fetch" THEN ReadLock(p, c) ELSE WriteLock(p, c)
  BY DEF LockInv, FindLock, Goto
<1>2. c \in 0 .. RecOff /\ c # FREE_OFF /\ c # RecOff /\ call[p].op \in {"fetch", "store", "delete"}
  BY <1>1, ChainOffset DEF CallOK
<1>3. LockType' /\ GrantInv' /\ Mine(p)
  BY <1>1, <1>2, ReadLockOK, WriteLockOK DEF LockType, Labels
<1>4. pc'[p] = "findptr"
  BY <1>1 DEF LockType
<1>5. CallOK(p)'
  BY <1>1, <1>4 DEF CallOK, InChain, DelLabels, StoreLabels
<1>6. HoldOK(p)'
  <2>1. IF call[p].op = "fetch" THEN p \in rl'[c] ELSE p \in wl'[c]
    BY <1>1, <1>2, ReadLockOK, WriteLockOK
  <2> QED BY <1>1, <1>2, <1>4, <2>1
             DEF HoldOK, InChain, ChangesFree, Scans, chainoff,
                 FreeLabels, ReadLabels, DatLabels, IdxLabels
<1> QED BY <1>1, <1>3, <1>5, <1>6, OthersKeep DEF Moves, Labels

LEMMA UnlockChainInv ==
  ASSUME NEW p \in Proc, LockInv, UnlockChain(p)
  PROVE  LockInv'
<1>1. /\ LockType /\ GrantInv /\ CallOK(p) /\ pc[p] = "unlock"
      /\ Unlock(p, chainoff(p)) /\ pc' = [pc EXCEPT ![p] = "idle"]
      /\ call' = [call EXCEPT ![p] = NoCall]
  BY DEF LockInv, UnlockChain, Goto
<1>2. chainoff(p) \in 0 .. RecOff
  BY <1>1, ChainOffset DEF CallOK, InChain, OutLabels
<1>3. NoCall \in Calls
  BY DEF NoCall, Calls, Ops, Flags
<1>4. LockType' /\ GrantInv' /\ Mine(p)
  BY <1>1, <1>2, <1>3, UnlockOK DEF LockType, Labels
<1> QED BY <1>1, <1>4, Leave DEF Moves, LockType

\* Taking a lock other than a chain's, and giving it back, in the middle of a call.
LEMMA TakeFree ==
  ASSUME NEW p \in Proc, NEW l \in {"delblank", "freeptr"}, LockInv, WriteLock(p, FREE_OFF),
         pc[p] \in {"dellock", "freelock"}, l = "freeptr" => pc[p] = "freelock",
         pc' = [pc EXCEPT ![p] = l], call' = call
  PROVE  LockInv'
<1>1. LockType /\ GrantInv /\ CallOK(p) /\ HoldOK(p) /\ pc'[p] = l /\ l \in Labels
  BY DEF LockInv, LockType, Labels
<1>2. InChain(p) /\ call[p].key \in Keys
  BY <1>1 DEF CallOK, InChain, OutLabels
<1>3. chainoff(p) \in 0 .. RecOff /\ chainoff(p) # FREE_OFF
  BY <1>2, ChainOffset
<1>4. /\ LockType' /\ GrantInv' /\ Mine(p) /\ p \in wl'[FREE_OFF]
      /\ rl'[chainoff(p)] = rl[chainoff(p)] /\ wl'[chainoff(p)] = wl[chainoff(p)]
  BY <1>1, <1>3, WriteLockOK, LockOffsets DEF LockType
<1>5. CallOK(p)'
  BY <1>1, <1>2 DEF CallOK, InChain, DelLabels, StoreLabels
<1>6. HoldOK(p)'
  BY <1>1, <1>2, <1>4 DEF HoldOK, InChain, ChangesFree, Scans, chainoff, FreeLabels, ReadLabels, DatLabels, IdxLabels
<1> QED BY <1>1, <1>4, <1>5, <1>6, OthersKeep DEF Moves

LEMMA GiveFree ==
  ASSUME NEW p \in Proc, NEW l \in {"unlock", "readhead", "datlock", "reuse"}, LockInv,
         Unlock(p, FREE_OFF), pc[p] \in FreeLabels,
         l # "unlock" => call[p].op = "store",
         pc' = [pc EXCEPT ![p] = l], call' = call
  PROVE  LockInv'
<1>1. LockType /\ GrantInv /\ CallOK(p) /\ HoldOK(p) /\ pc'[p] = l /\ l \in Labels
  BY DEF LockInv, LockType, Labels
<1>2. InChain(p) /\ call[p].key \in Keys
  BY <1>1 DEF CallOK, InChain, OutLabels, FreeLabels
<1>3. chainoff(p) \in 0 .. RecOff /\ chainoff(p) # FREE_OFF
  BY <1>2, ChainOffset
<1>4. /\ LockType' /\ GrantInv' /\ Mine(p)
      /\ rl'[chainoff(p)] = rl[chainoff(p)] /\ wl'[chainoff(p)] = wl[chainoff(p)]
  BY <1>1, <1>3, UnlockOK, LockOffsets DEF LockType
<1>5. CallOK(p)'
  BY <1>1, <1>2 DEF CallOK, InChain, DelLabels, StoreLabels
<1>6. HoldOK(p)'
  BY <1>1, <1>2, <1>4 DEF HoldOK, InChain, ChangesFree, Scans, chainoff, FreeLabels, ReadLabels, DatLabels, IdxLabels
<1> QED BY <1>1, <1>4, <1>5, <1>6, OthersKeep DEF Moves

LEMMA AppendLocks ==
  ASSUME NEW p \in Proc, LockInv, DatLock(p) \/ DatUnlock(p) \/ IdxLock(p) \/ IdxUnlock(p)
  PROVE  LockInv'
<1> DEFINE l == CASE pc[p] = "datlock" -> "datseek" [] pc[p] = "datunlock" -> "idxlock"
                  [] pc[p] = "idxlock" -> "idxseek" [] OTHER -> "link"
<1>1. /\ LockType /\ GrantInv /\ CallOK(p) /\ HoldOK(p) /\ call' = call
      /\ pc[p] \in {"datlock", "datunlock", "idxlock", "idxunlock"}
      /\ pc' = [pc EXCEPT ![p] = l] /\ l \in Labels /\ pc'[p] = l
  BY DEF LockInv, LockType, Labels, DatLock, DatUnlock, IdxLock, IdxUnlock, Goto
<1>2. InChain(p) /\ call[p].key \in Keys /\ call[p].op = "store"
  BY <1>1 DEF CallOK, InChain, OutLabels, StoreLabels
<1>3. chainoff(p) \in 0 .. RecOff /\ chainoff(p) # RecOff
  BY <1>2, ChainOffset
<1>4. /\ LockType' /\ GrantInv' /\ Mine(p)
      /\ rl'[chainoff(p)] = rl[chainoff(p)] /\ wl'[chainoff(p)] = wl[chainoff(p)]
      /\ pc[p] = "datlock" => p \in datwl'
      /\ pc[p] = "idxlock" => p \in wl'[RecOff]
  <2>1. CASE DatLock(p) \/ DatUnlock(p)
    <3>1. rl' = rl /\ wl' = wl /\ datwl' \in SUBSET Proc
      BY <1>1, <2>1 DEF DatLock, DatUnlock, LockType
    <3>2. LockType' /\ GrantInv' /\ Mine(p) /\ (pc[p] = "datlock" => p \in datwl')
      BY <1>1, <2>1, <3>1 DEF DatLock, DatUnlock, LockType, GrantInv, Mine
    <3> QED BY <2>1, <3>1, <3>2 DEF DatLock, DatUnlock
  <2>2. CASE IdxLock(p)
    BY <1>1, <1>3, <2>2, WriteLockOK, LockOffsets DEF IdxLock, LockType
  <2>3. CASE IdxUnlock(p)
    BY <1>1, <1>3, <2>3, UnlockOK, LockOffsets DEF IdxUnlock, LockType
  <2> QED BY <2>1, <2>2, <2>3
<1>5. CallOK(p)'
  BY <1>1, <1>2 DEF CallOK, InChain, DelLabels, StoreLabels
<1>6. HoldOK(p)'
  BY <1>1, <1>2, <1>4 DEF HoldOK, InChain, ChangesFree, Scans, chainoff, FreeLabels, ReadLabels, DatLabels, IdxLabels
<1> QED BY <1>1, <1>4, <1>5, <1>6, OthersKeep DEF Moves

LEMMA ScanLockInv ==
  ASSUME NEW p \in Proc, LockInv, ScanLock(p)
  PROVE  LockInv'
<1>1. LockType /\ GrantInv /\ CallOK(p) /\ HoldOK(p) /\ pc'[p] = "scanrec" /\ call' = call
      /\ pc' = [pc EXCEPT ![p] = "scanrec"] /\ ReadLock(p, FREE_OFF)
  BY DEF LockInv, LockType, ScanLock, Goto
<1>2. LockType' /\ GrantInv' /\ Mine(p) /\ p \in rl'[FREE_OFF]
  BY <1>1, ReadLockOK, LockOffsets DEF LockType, Labels
<1>3. CallOK(p)' /\ HoldOK(p)'
  BY <1>1, <1>2 DEF CallOK, HoldOK, InChain, ChangesFree, Scans, OutLabels, FreeLabels,
                    ReadLabels, DatLabels, IdxLabels, DelLabels, StoreLabels
<1> QED BY <1>1, <1>2, <1>3, OthersKeep DEF Moves, Labels

LEMMA ScanUnlockInv ==
  ASSUME NEW p \in Proc, LockInv, ScanUnlock(p)
  PROVE  LockInv'
<1>1. LockType /\ GrantInv /\ Unlock(p, FREE_OFF) /\ pc' = [pc EXCEPT ![p] = "idle"]
      /\ call' = [call EXCEPT ![p] = NoCall]
  BY DEF LockInv, ScanUnlock, Goto
<1>2. NoCall \in Calls
  BY DEF NoCall, Calls, Ops, Flags
<1>3. LockType' /\ GrantInv' /\ Mine(p)
  BY <1>1, <1>2, UnlockOK, LockOffsets DEF LockType, Labels
<1> QED BY <1>1, <1>3, Leave DEF Moves, LockType

LEMMA BeginInv ==
  ASSUME NEW p \in Proc, LockInv, Begin(p)
  PROVE  LockInv'
<1>1. PICK c \in Menu[p] : \/ Call(p, c) \/ StoreCall(p, c) \/ StoreBadFlag(p, c)
                           \/ StoreBadLength(p, c) \/ Rewind(p, c)
  BY DEF Begin
<1>2. /\ c \in Calls
      /\ c.op \in {"fetch", "store", "delete"} => c.key \in Keys
      /\ c.op = "store" => c.data \in Data
  BY DbConstants
<1>3. LockType /\ GrantInv /\ CallOK(p) /\ HoldOK(p)
  BY DEF LockInv
<1>4. CASE Call(p, c) \/ StoreCall(p, c)
  <2> DEFINE l == IF c.op = "nextrec" THEN "scanlock" ELSE "findlock"
  <2>1. /\ pc' = [pc EXCEPT ![p] = l] /\ call' = [call EXCEPT ![p] = c] /\ UNCHANGED <<rl, wl, datwl>>
        /\ c.op \in {"fetch", "store", "delete", "nextrec"}
    BY <1>4 DEF Call, StoreCall, Goto, locks
  <2>2. LockType' /\ GrantInv' /\ Mine(p) /\ Moves(p, l)
    BY <1>2, <1>3, <2>1 DEF LockType, GrantInv, Mine, Moves, Labels
  <2>3. pc'[p] = l /\ call'[p] = c /\ l \in Labels
    BY <1>3, <2>1 DEF LockType, Labels
  <2>4. CallOK(p)' /\ HoldOK(p)'
    BY <1>2, <2>1, <2>3 DEF CallOK, HoldOK, InChain, ChangesFree, Scans, OutLabels, FreeLabels,
                            ReadLabels, DatLabels, IdxLabels, DelLabels, StoreLabels
  <2> QED BY <2>2, <2>3, <2>4, OthersKeep
<1>5. CASE StoreBadLength(p, c)
  BY <1>5, ExitInv DEF StoreBadLength
<1>6. CASE StoreBadFlag(p, c) \/ Rewind(p, c)
  <2>1. UNCHANGED <<rl, wl, datwl, pc, call>>
    BY <1>6 DEF StoreBadFlag, Rewind, locks
  <2> QED BY <2>1 DEF LockInv, LockType, GrantInv, CallOK, HoldOK, InChain, ChangesFree, Scans, chainoff
<1> QED BY <1>1, <1>4, <1>5, <1>6

LEMMA ReopenInv ==
  ASSUME NEW p \in Proc, LockInv, Reopen(p)
  PROVE  LockInv'
<1>1. LockType /\ GrantInv /\ pc' = [pc EXCEPT ![p] = "idle"] /\ UNCHANGED <<rl, wl, datwl>>
      /\ call' = [call EXCEPT ![p] = NoCall] /\ NoCall \in Calls
  BY DEF LockInv, Reopen, Goto, locks, NoCall, Calls, Ops, Flags
<1>2. LockType' /\ GrantInv' /\ Mine(p) /\ Moves(p, "idle")
  BY <1>1 DEF LockType, GrantInv, Mine, Moves, Labels
<1> QED BY <1>2, Leave

\* The steps of a call that read or write a file touch no lock.
LEMMA LookupInv ==
  ASSUME NEW p \in Proc, LockInv,
         FindPtr(p) \/ FindNext(p) \/ Found(p) \/ NotFound(p) \/ FetchData(p)
  PROVE  LockInv'
<1> USE DEF Goto, locks, OutLabels, FreeLabels, ReadLabels, DatLabels, IdxLabels,
            DelLabels, StoreLabels
<1>0. LockType /\ CallOK(p) /\ pc[p] \in Labels /\ pc = [pc EXCEPT ![p] = pc[p]]
  BY DEF LockInv, LockType
<1>a. {"readdat", "dellock", "overwrite", "findrec", "readhead", "unlock"} \subseteq Labels
  BY DEF Labels
<1>1. CASE FindPtr(p)
  BY <1>0, <1>a, <1>1, Stay DEF FindPtr, CallOK
<1>2. CASE FindNext(p)
  BY <1>0, <1>a, <1>2, Stay DEF FindNext, CallOK
<1>3. CASE Found(p)
  <2>1. /\ pc[p] = "findrec" /\ pc' = [pc EXCEPT ![p] = AfterFound(p)]
        /\ UNCHANGED <<rl, wl, datwl, call>>
    BY <1>3 DEF Found
  <2>2. call[p].op \in {"fetch", "store", "delete"}
    BY <1>0, <1>a, <2>1 DEF CallOK, InChain
  <2>3. \/ AfterFound(p) = "readdat" /\ call[p].op = "fetch"
        \/ AfterFound(p) = "dellock" /\ call[p].op \in {"delete", "store"}
        \/ AfterFound(p) = "unlock"
        \/ AfterFound(p) = "overwrite" /\ call[p].op = "store"
    BY <2>2 DEF AfterFound
  <2> QED BY <2>1, <2>3, <1>a, Stay
<1>4. CASE NotFound(p)
  BY <1>0, <1>a, <1>4, Stay DEF NotFound, CallOK
<1>5. CASE FetchData(p)
  BY <1>0, <1>a, <1>5, Stay DEF FetchData, CallOK
<1> QED BY <1>1, <1>2, <1>3, <1>4, <1>5

LEMMA DeleteInv ==
  ASSUME NEW p \in Proc, LockInv,
         DelBlank(p) \/ DelFree(p) \/ DelIdx(p) \/ DelHead(p) \/ DelUnlink(p)
  PROVE  LockInv'
<1> USE DEF Goto, locks, OutLabels, FreeLabels, ReadLabels, DatLabels, IdxLabels,
            DelLabels, StoreLabels
<1>0. LockType /\ CallOK(p) /\ pc[p] \in Labels /\ pc = [pc EXCEPT ![p] = pc[p]]
  BY DEF LockInv, LockType
<1>a. {"delfree", "delidx", "delhead", "delunlink", "delunlock"} \subseteq Labels
  BY DEF Labels
<1>1. CASE DelBlank(p)
  BY <1>0, <1>a, <1>1, Stay DEF DelBlank, CallOK
<1>2. CASE DelFree(p)
  BY <1>0, <1>a, <1>2, Stay DEF DelFree, CallOK
<1>3. CASE DelIdx(p)
  BY <1>0, <1>a, <1>3, Stay DEF DelIdx, CallOK
<1>4. CASE DelHead(p)
  BY <1>0, <1>a, <1>4, Stay DEF DelHead, CallOK
<1>5. CASE DelUnlink(p)
  BY <1>0, <1>a, <1>5, Stay DEF DelUnlink, CallOK
<1> QED BY <1>1, <1>2, <1>3, <1>4, <1>5

LEMMA FreeInv ==
  ASSUME NEW p \in Proc, LockInv,
         ReadHead(p) \/ FreePtr(p) \/ FreeNext(p) \/ FreeFound(p) \/ FreeTake(p)
  PROVE  LockInv'
<1> USE DEF Goto, locks, OutLabels, FreeLabels, ReadLabels, DatLabels, IdxLabels,
            DelLabels, StoreLabels
<1>0. LockType /\ CallOK(p) /\ pc[p] \in Labels /\ pc = [pc EXCEPT ![p] = pc[p]]
  BY DEF LockInv, LockType
<1>a. {"datlock", "freelock", "freerec", "freetake", "freeunlock"} \subseteq Labels
  BY DEF Labels
<1>1. CASE ReadHead(p)
  BY <1>0, <1>a, <1>1, Stay DEF ReadHead, CallOK
<1>2. CASE FreePtr(p)
  BY <1>0, <1>a, <1>2, Stay DEF FreePtr, CallOK
<1>3. CASE FreeNext(p)
  BY <1>0, <1>a, <1>3, Stay DEF FreeNext, CallOK
<1>4. CASE FreeFound(p)
  BY <1>0, <1>a, <1>4, Stay DEF FreeFound, CallOK
<1>5. CASE FreeTake(p)
  BY <1>0, <1>a, <1>5, Stay DEF FreeTake, CallOK
<1> QED BY <1>1, <1>2, <1>3, <1>4, <1>5

LEMMA StoreInv ==
  ASSUME NEW p \in Proc, LockInv,
         Overwrite(p) \/ Reuse(p) \/ IdxRewrite(p) \/ DatSeek(p) \/ DatAppend(p) \/ IdxSeek(p) \/ IdxAppend(p) \/ Link(p)
  PROVE  LockInv'
<1> USE DEF Goto, locks, OutLabels, FreeLabels, ReadLabels, DatLabels, IdxLabels,
            DelLabels, StoreLabels
<1>0. LockType /\ CallOK(p) /\ pc[p] \in Labels /\ pc = [pc EXCEPT ![p] = pc[p]]
  BY DEF LockInv, LockType
<1>a. {"unlock", "idxrewrite", "link", "datwrite", "datunlock", "idxwrite", "idxunlock"} \subseteq Labels
  BY DEF Labels
<1>1. CASE Overwrite(p)
  BY <1>0, <1>a, <1>1, Stay DEF Overwrite, CallOK
<1>2. CASE Reuse(p)
  BY <1>0, <1>a, <1>2, Stay DEF Reuse, CallOK
<1>3. CASE IdxRewrite(p)
  BY <1>0, <1>a, <1>3, Stay DEF IdxRewrite, CallOK
<1>4. CASE DatSeek(p)
  BY <1>0, <1>a, <1>4, Stay DEF DatSeek, CallOK
<1>5. CASE DatAppend(p)
  BY <1>0, <1>a, <1>5, Stay DEF DatAppend, CallOK
<1>6. CASE IdxSeek(p)
  BY <1>0, <1>a, <1>6, Stay DEF IdxSeek, CallOK
<1>7. CASE IdxAppend(p)
  BY <1>0, <1>a, <1>7, Stay DEF IdxAppend, CallOK
<1>8. CASE Link(p)
  BY <1>0, <1>a, <1>8, Stay DEF Link, CallOK
<1> QED BY <1>1, <1>2, <1>3, <1>4, <1>5, <1>6, <1>7, <1>8

LEMMA ScanInv ==
  ASSUME NEW p \in Proc, LockInv,
         ScanRecord(p) \/ ScanEof(p) \/ ScanData(p)
  PROVE  LockInv'
<1> USE DEF Goto, locks, OutLabels, FreeLabels, ReadLabels, DatLabels, IdxLabels,
            DelLabels, StoreLabels
<1>0. LockType /\ CallOK(p) /\ pc[p] \in Labels /\ pc = [pc EXCEPT ![p] = pc[p]]
  BY DEF LockInv, LockType
<1>a. {"scanrec", "scandat", "scanunlock"} \subseteq Labels
  BY DEF Labels
<1>1. CASE ScanRecord(p)
  BY <1>0, <1>a, <1>1, Stay DEF ScanRecord, CallOK
<1>2. CASE ScanEof(p)
  BY <1>0, <1>a, <1>2, Stay DEF ScanEof, CallOK
<1>3. CASE ScanData(p)
  BY <1>0, <1>a, <1>3, Stay DEF ScanData, CallOK
<1> QED BY <1>1, <1>2, <1>3

LEMMA LockStepInv ==
  ASSUME NEW p \in Proc, LockInv, Step(p)
  PROVE  LockInv'
<1>0. LockType /\ CallOK(p)
  BY DEF LockInv
<1>1. CASE DelLock(p)
  BY <1>1, TakeFree DEF DelLock, Goto
<1>2. CASE FreeLock(p)
  BY <1>2, TakeFree DEF FreeLock, Goto
<1>3. CASE DelUnlock(p)
  BY <1>0, <1>3, GiveFree DEF DelUnlock, Goto, CallOK, DelLabels, FreeLabels
<1>4. CASE FreeUnlock(p)
  BY <1>0, <1>4, GiveFree DEF FreeUnlock, Goto, CallOK, StoreLabels, FreeLabels
<1>5. CASE DatFull(p) \/ IdxFull(p) \/ LinkRefused(p) \/ ScanMisaligned(p)
  BY <1>5, ExitInv DEF DatFull, IdxFull, LinkRefused, ScanMisaligned
<1> QED
  BY <1>1, <1>2, <1>3, <1>4, <1>5, LookupInv, DeleteInv, FreeInv, StoreInv, ScanInv,
     AppendLocks, FindLockInv, UnlockChainInv, ScanLockInv, ScanUnlockInv
  DEF Step, FindStep, DeleteStep, FreeStep, StoreStep, ScanStep

\* Every step of every process, and its death at any point, keeps the lock invariant.
LEMMA NextLockInv == LockInv /\ [KillNext]_vars => LockInv'
<1> SUFFICES ASSUME LockInv, [KillNext]_vars PROVE LockInv'
  OBVIOUS
<1>1. CASE Next
  <2> PICK p \in Proc : Begin(p) \/ Step(p) \/ Reopen(p)
    BY <1>1 DEF Next
  <2> QED BY BeginInv, LockStepInv, ReopenInv
<1>2. CASE \E p \in Proc : Crash(p)
  BY <1>2, ExitInv DEF Crash
<1>3. CASE UNCHANGED vars
  <2>1. UNCHANGED <<rl, wl, datwl, pc, call>>
    BY <1>3 DEF vars, locks
  <2> QED BY <2>1 DEF LockInv, LockType, GrantInv, CallOK, HoldOK, InChain, ChangesFree, Scans, chainoff
<1> QED BY <1>1, <1>2, <1>3 DEF KillNext

\* Every process always holds the fcntl locks that the place of db.c it is at relies
\* on, and a write lock excludes every other lock, even when processes are killed.
THEOREM LockInvariant == KillSpec => []LockInv
BY InitLockInv, NextLockInv, PTL DEF KillSpec

LEMMA LockInvExcludes == LockInv => ChainExclusion /\ FreeExclusion /\ AppendExclusion
<1> SUFFICES ASSUME LockInv, NEW p \in Proc, NEW q \in Proc, p # q
             PROVE  /\ InChain(p) /\ InChain(q) /\ chainoff(p) = chainoff(q)
                         => call[p].op = "fetch" /\ call[q].op = "fetch"
                    /\ ChangesFree(p) => ~ChangesFree(q) /\ ~Scans(q)
                    /\ ~(pc[p] = "datwrite" /\ pc[q] = "datwrite")
                    /\ ~(pc[p] = "idxwrite" /\ pc[q] = "idxwrite")
  BY DEF ChainExclusion, FreeExclusion, AppendExclusion
<1>1. GrantInv /\ CallOK(p) /\ CallOK(q) /\ HoldOK(p) /\ HoldOK(q)
  BY DEF LockInv
<1>2. InChain(p) => chainoff(p) \in 0 .. RecOff
  BY <1>1, ChainOffset DEF CallOK
<1>3. InChain(p) /\ InChain(q) /\ chainoff(p) = chainoff(q)
        => call[p].op = "fetch" /\ call[q].op = "fetch"
  BY <1>1, <1>2 DEF HoldOK, GrantInv
<1>4. ChangesFree(p) => ~ChangesFree(q) /\ ~Scans(q)
  BY <1>1, LockOffsets DEF HoldOK, GrantInv
<1>5. ~(pc[p] = "datwrite" /\ pc[q] = "datwrite") /\ ~(pc[p] = "idxwrite" /\ pc[q] = "idxwrite")
  BY <1>1, LockOffsets DEF HoldOK, GrantInv, DatLabels, IdxLabels
<1> QED BY <1>3, <1>4, <1>5

\* While db_store or db_delete works on a hash chain no other process uses it, the
\* free list has one user at a time unless all are scans, and appends to a file are
\* one at a time; even if processes are killed at any point.
THEOREM Exclusion == KillSpec => [](ChainExclusion /\ FreeExclusion /\ AppendExclusion)
BY LockInvariant, LockInvExcludes, PTL

\* _db_findfree, db_nextrec and the free-list half of _db_dodelete never overlap while
\* one of them changes the free list, though three different places of db.c lock it.
THEOREM FreeListExclusive == KillSpec => []FreeExclusion
BY Exclusion, PTL

\* Two appends (_db_writedat and _db_writeidx with SEEK_END) to one file never overlap,
\* so no process learns an end of file that another one is about to use.
THEOREM AppendsExclusive == KillSpec => []AppendExclusion
BY Exclusion, PTL

-----------------------------------------------------------------------------
(* The pointers of the index file and the types.                            *)

\* A step that only lets the files grow, and not under a process about to append.
Grow(p) ==
  /\ idxsize <= idxsize' /\ datsize <= datsize'
  /\ \A q \in Proc \ {p} : /\ pc[q] = "idxwrite" => idxsize' = idxsize
                           /\ pc[q] = "datwrite" => datsize' = datsize

LEMMA Sizes == RecOff \in Nat /\ 1 <= RecOff /\ RecOff <= IdxCap + 1 /\ IdxCap \in Nat /\ DatCap \in Nat
BY DbConstants DEF RecOff

LEMMA Lengths ==
  /\ \A k \in Keys : KeyLen[k] \in Nat /\ Hash[k] \in Offsets
  /\ \A d \in Data : DatLen[d] \in Nat
  /\ FREE_OFF \in Offsets
<1>1. NHash \in Nat /\ IdxCap \in Nat /\ NHash <= IdxCap /\ Hash \in [Keys -> 1 .. NHash]
  BY DbConstants
<1>2. KeyLen \in [Keys -> Nat] /\ DatLen \in [Data -> Nat]
  BY DbConstants
<1> QED BY <1>1, <1>2 DEF Offsets, FREE_OFF

LEMMA FileSizes ==
  ASSUME FileType
  PROVE  /\ idxsize \in Int /\ RecOff <= idxsize /\ idxsize <= IdxCap + 1 /\ idxsize \in 0 .. IdxCap + 1
         /\ datsize \in Int /\ 1 <= datsize /\ datsize <= DatCap + 1 /\ datsize \in 0 .. DatCap + 1
         /\ datsize \in 1 .. datsize
BY Sizes DEF FileType

\* A data record that has been written, and an index record.
LEMMA DataIn ==
  ASSUME FileType, NEW i \in 1 .. datsize - 1
  PROVE  i \in 1 .. datsize /\ i <= DatCap /\ i # datsize /\ i \in 1 .. DatCap
BY FileSizes, Sizes

LEMMA RecordIn ==
  ASSUME FileType, NEW o \in Written
  PROVE  /\ o \in Written \cup {idxsize} /\ o <= IdxCap /\ o # idxsize /\ o + 1 \in 0 .. IdxCap + 1
         /\ o \in Offsets /\ o \in 0 .. IdxCap
BY FileSizes, Sizes DEF Written, Offsets

\* A step that leaves both sizes as they are.
LEMMA SizesStay ==
  ASSUME NEW p \in Proc, FileType, idxsize' = idxsize, datsize' = datsize
  PROVE  Grow(p)
BY FileSizes DEF Grow

LEMMA WrittenOffsets ==
  ASSUME FileType
  PROVE  \A o \in Written : o \in Int /\ o \in Records /\ o \in Offsets /\ o \in 0 .. IdxCap + 1
BY Sizes DEF FileType, Written, Records, Offsets

LEMMA RefOffsets ==
  ASSUME FileType, NEW v, Ref(v)
  PROVE  v \in Offsets
BY WrittenOffsets, Sizes DEF Ref, Offsets

LEMMA HandlesKeep ==
  ASSUME NEW p \in Proc, NEW l \in Labels, NEW h \in Handles, LockInv, FileInv,
         FileType', PointersValid', Grow(p),
         pc' = [pc EXCEPT ![p] = l], db' = [db EXCEPT ![p] = h],
         HandleType', HandleOK(p)'
  PROVE  FileInv'
<1> SUFFICES ASSUME NEW q \in Proc \ {p} PROVE HandleOK(q)'
  BY DEF FileInv
<1>1. HandleOK(q) /\ FileType /\ FileType' /\ HandleType /\ LockType
  BY DEF FileInv, LockInv
<1>2. pc'[q] = pc[q] /\ db'[q] = db[q]
  BY <1>1 DEF LockType, HandleType
<1>3. idxsize \in Int /\ idxsize' \in Int /\ datsize \in Int /\ datsize' \in Int /\ RecOff \in Int
  BY <1>1, Sizes DEF FileType
<1>4. \A v : Ref(v) => Ref(v)'
  BY <1>3 DEF Ref, Written, Grow
<1>5. \A v : (v \in Written => v \in Written') /\ (v \in 1 .. datsize - 1 => v \in 1 .. datsize' - 1)
  BY <1>3 DEF Written, Grow
<1> QED BY <1>1, <1>2, <1>4, <1>5 DEF HandleOK, Grow

LEMMA ReadIdxOK ==
  ASSUME NEW p \in Proc, NEW o \in Written, FileInv
  PROVE  /\ ReadIdx(p, o) \in Handles
         /\ ReadIdx(p, o).idxoff = o
         /\ ReadIdx(p, o).ptrval = ptr[o] /\ Ref(ptr[o])
         /\ ReadIdx(p, o).datoff = rec[o].datoff /\ rec[o].datoff \in 1 .. datsize - 1
         /\ ReadIdx(p, o).offset = db[p].offset /\ ReadIdx(p, o).save = db[p].save
         /\ ReadIdx(p, o).head = db[p].head
<1>1. db[p] \in Handles /\ o \in Records /\ o \in Offsets /\ FileType
  BY WrittenOffsets DEF FileInv, HandleType
<1>2. /\ ptr[o] \in Offsets /\ rec[o].datoff \in 0 .. DatCap /\ rec[o].datlen \in Nat
      /\ rec[o].key \in Keys \cup {Blank, None}
  BY <1>1 DEF FileType
<1>3. Ref(ptr[o]) /\ rec[o].datoff \in 1 .. datsize - 1
  BY <1>1 DEF FileInv, PointersValid, Ref, Written
<1>4. o \in 0 .. IdxCap + 1 /\ rec[o].datoff \in 0 .. DatCap + 1
  BY <1>1, <1>2, WrittenOffsets, Sizes
<1> QED BY <1>1, <1>2, <1>3, <1>4 DEF ReadIdx, Handles

LEMMA WritePtrOK ==
  ASSUME NEW p \in Proc, NEW o \in Offsets, NEW v, Ref(v), FileInv, WritePtr(p, o, v)
  PROVE  FileType' /\ PointersValid' /\ idxsize' = idxsize /\ datsize' = datsize
         /\ pos' = [pos EXCEPT ![p] = 0]
<1>1. v \in Offsets
  BY RefOffsets DEF FileInv
<1> QED BY <1>1 DEF WritePtr, FileInv, FileType, PointersValid, Ref, Written

LEMMA WriteIdxOK ==
  ASSUME NEW p \in Proc, NEW o \in Written \cup {idxsize}, o <= IdxCap, NEW k \in Keys \cup {Blank},
         NEW n \in Nat, NEW v, Ref(v), FileInv, db[p].datoff \in 1 .. datsize - 1, WriteIdx(p, o, k, n, v)
  PROVE  FileType' /\ PointersValid' /\ datsize' = datsize
         /\ idxsize' = (IF o = idxsize THEN idxsize + 1 ELSE idxsize)
         /\ pos' = [pos EXCEPT ![p] = o + 1] /\ o \in Written'
<1>0. FileType
  BY DEF FileInv
<1>1. FileType /\ idxsize \in Int /\ RecOff \in Int /\ IdxCap \in Int /\ o \in Int
  BY <1>0, WrittenOffsets, FileSizes, Sizes
<1>2. v \in Offsets /\ o \in Offsets /\ o \in Records
  <2>1. CASE o \in Written
    BY <2>1, <1>1, RefOffsets, WrittenOffsets
  <2>2. CASE o = idxsize
    <3>1. v \in Offsets
      BY <1>1, RefOffsets
    <3>2. RecOff <= o /\ RecOff \in Nat
      BY <1>1, <2>2, FileSizes, Sizes
    <3>3. o \in Records /\ o \in Offsets
      BY <1>1, <3>2 DEF Offsets, Records
    <3> QED BY <3>1, <3>3
  <2> QED BY <2>1, <2>2
<1>3. idxsize' = (IF o = idxsize THEN idxsize + 1 ELSE idxsize) /\ datsize' = datsize /\ dat' = dat
  BY <1>1 DEF WriteIdx, Written
<1>4. db[p].datlen \in Nat /\ db[p].datoff \in 0 .. DatCap
  <2>1. db[p] \in Handles
    BY DEF FileInv, HandleType
  <2>2. db[p].datlen \in Nat
    BY <2>1 DEF Handles
  <2>3. datsize \in 0 .. DatCap + 1 /\ DatCap \in Nat
    BY <1>1, DbConstants DEF FileType
  <2> QED BY <2>2, <2>3
<1>5. ptr' = [ptr EXCEPT ![o] = v] /\ rec' = [rec EXCEPT ![o] = [key |-> k, klen |-> n,
                                datoff |-> db[p].datoff, datlen |-> db[p].datlen]]
  BY DEF WriteIdx
<1>6. FileType'
  <2>1. ptr' \in [Offsets -> Offsets]
    BY <1>1, <1>2, <1>5 DEF FileType
  <2>2. rec' \in [Records -> [key : Keys \cup {Blank, None}, klen : Nat, datoff : 0 .. DatCap, datlen : Nat]]
    BY <1>1, <1>2, <1>4, <1>5 DEF FileType
  <2>3. idxsize' \in RecOff .. IdxCap + 1
    BY <1>0, <1>1, <1>3, FileSizes
  <2> QED BY <1>1, <1>3, <2>1, <2>2, <2>3 DEF FileType
<1>7. o \in Written' /\ \A x : (x \in Written' => x \in Written \/ x = o) /\ (x \in Written => x \in Written')
  <2>1. RecOff <= o /\ o <= idxsize
    BY <1>0, <1>1, FileSizes DEF Written
  <2>2. RecOff .. idxsize' - 1 = (IF o = idxsize THEN RecOff .. idxsize ELSE RecOff .. idxsize - 1)
    BY <1>1, <1>3
  <2>3. \A x \in RecOff .. idxsize : x \in RecOff .. idxsize - 1 \/ x = idxsize
    BY <1>1
  <2>4. \A x \in RecOff .. idxsize - 1 : x \in RecOff .. idxsize
    BY <1>1
  <2>5. o # idxsize => o \in RecOff .. idxsize - 1
    BY <1>1, <2>1
  <2>6. o = idxsize => o \in RecOff .. idxsize
    BY <1>1, <2>1
  <2> QED BY <2>2, <2>3, <2>4, <2>5, <2>6 DEF Written
<1>8. PointersValid'
  <2>1. \A o2 \in Offsets : ptr'[o2] = 0 \/ ptr'[o2] \in Written'
    BY <1>1, <1>2, <1>5, <1>7 DEF FileInv, PointersValid, Ref, Written, FileType
  <2>2. ASSUME NEW o2 \in Written' PROVE rec'[o2].datoff \in 1 .. datsize' - 1 /\ rec'[o2].key # None
    <3>1. CASE o2 = o
      BY <3>1, <1>1, <1>2, <1>3, <1>5, DbConstants DEF FileType
    <3>2. CASE o2 # o
      <4>1. o2 \in Written
        BY <3>2, <1>7
      <4>2. rec'[o2] = rec[o2]
        BY <3>2, <4>1, <1>1, <1>5, DbConstants DEF FileType, Written, Records
      <4> QED BY <4>1, <4>2, <1>3 DEF FileInv, PointersValid, Written
    <3> QED BY <3>1, <3>2
  <2> QED BY <2>1, <2>2 DEF PointersValid, Written
<1> QED BY <1>3, <1>6, <1>7, <1>8 DEF WriteIdx

LEMMA WriteDatOK ==
  ASSUME NEW p \in Proc, NEW i \in 1 .. datsize, i <= DatCap, NEW d \in Data \cup {Blank}, FileInv,
         WriteDat(p, i, d)
  PROVE  FileType' /\ PointersValid' /\ idxsize' = idxsize /\ pos' = pos
         /\ datsize' = (IF i = datsize THEN datsize + 1 ELSE datsize)
<1>1. FileType /\ datsize \in Int /\ i \in 1 .. DatCap
  BY DbConstants DEF FileInv, FileType
<1>2. datsize' = (IF i = datsize THEN datsize + 1 ELSE datsize) /\ UNCHANGED <<ptr, rec, idxsize, pos>>
  BY <1>1 DEF WriteDat
<1>3. FileType'
  BY <1>1, <1>2, DbConstants DEF WriteDat, FileType
<1>4. PointersValid'
  BY <1>1, <1>2 DEF FileInv, PointersValid
<1> QED BY <1>2, <1>3, <1>4

DataLabels == RecordLabels \cup {"datunlock", "idxlock", "idxseek", "idxwrite"}

ResultType == [code : -1 .. 2, key : Keys \cup {None, Blank}, data : Data \cup {None, Blank}]

\* A step of p to label l that leaves its handle as h.
LEMMA Arrive ==
  ASSUME NEW p \in Proc, NEW l \in Labels, NEW h \in Handles, LockInv, FileInv,
         FileType', PointersValid', Grow(p),
         pc' = [pc EXCEPT ![p] = l], db' = [db EXCEPT ![p] = h],
         pos' \in [Proc -> 0 .. IdxCap + 1], ret' \in [Proc -> ResultType],
         kv' \in [Keys -> Data \cup {None}],
         Ref(h.offset), Ref(h.save), Ref(h.head), Ref(h.ptrval),
         l \in RecordLabels => h.idxoff \in Written \/ h.idxoff \in Written',
         l \in DataLabels => h.datoff \in 1 .. datsize - 1 \/ h.datoff \in 1 .. datsize' - 1,
         l = "datwrite" => h.datoff = datsize',
         l = "idxwrite" => h.idxoff = idxsize'
  PROVE  FileInv'
<1>1. FileType /\ HandleType /\ LockType /\ pc'[p] = l /\ db'[p] = h
  BY DEF FileInv, LockInv, LockType, HandleType
<1>2. HandleType'
  BY <1>1 DEF HandleType, ResultType
<1>3. idxsize \in Int /\ idxsize' \in Int /\ datsize \in Int /\ datsize' \in Int /\ RecOff \in Int
  BY <1>1, Sizes DEF FileType
<1>4. \A v : /\ Ref(v) => Ref(v)'
             /\ v \in Written => v \in Written'
             /\ v \in 1 .. datsize - 1 => v \in 1 .. datsize' - 1
  BY <1>3 DEF Ref, Written, Grow
<1>5. HandleOK(p)'
  BY <1>1, <1>4 DEF HandleOK, DataLabels
<1> QED BY <1>2, <1>5, HandlesKeep

LEMMA FilesSame ==
  ASSUME NEW p \in Proc, FileInv, UNCHANGED files
  PROVE  FileType' /\ PointersValid' /\ Grow(p) /\ Written' = Written /\ datsize' = datsize
         /\ idxsize' = idxsize
<1>1. FileType /\ idxsize \in Int /\ datsize \in Int
  BY Sizes DEF FileInv, FileType
<1> QED BY <1>1 DEF files, FileType, FileInv, PointersValid, Grow, Written

\* What the invariant says of the handle of p before a step.
LEMMA Before ==
  ASSUME NEW p \in Proc, LockInv, FileInv
  PROVE  /\ FileType /\ HandleType /\ LockType /\ PointersValid /\ CallOK(p) /\ db[p] \in Handles
         /\ Ref(db[p].offset) /\ Ref(db[p].save) /\ Ref(db[p].head) /\ Ref(db[p].ptrval)
         /\ pc[p] \in RecordLabels => db[p].idxoff \in Written
         /\ pc[p] \in DataLabels => db[p].datoff \in 1 .. datsize - 1
         /\ pc[p] = "datwrite" => db[p].datoff = datsize
         /\ pc[p] = "idxwrite" => db[p].idxoff = idxsize
         /\ db = [db EXCEPT ![p] = db[p]]
         /\ pos \in [Proc -> 0 .. IdxCap + 1] /\ ret \in [Proc -> ResultType]
         /\ kv \in [Keys -> Data \cup {None}]
         /\ pos[p] \in 0 .. IdxCap + 1
         /\ \A o \in Offsets : Ref(ptr[o])
BY DEF FileInv, LockInv, HandleType, HandleOK, DataLabels, ResultType, PointersValid, Ref, Written

LEMMA OkResult ==
  /\ Result(0, None, None) \in ResultType /\ Result(1, None, None) \in ResultType
  /\ Result(-1, None, None) \in ResultType /\ Result(2, None, None) \in ResultType
  /\ \A n \in -1 .. 2 : Result(n, None, None) \in ResultType
  /\ \A d \in Data \cup {None, Blank} : Result(0, None, d) \in ResultType
<1>1. 0 \in -1 .. 2 /\ 1 \in -1 .. 2 /\ -1 \in -1 .. 2 /\ 2 \in -1 .. 2
  OBVIOUS
<1> QED BY <1>1 DEF Result, ResultType

LEMMA ScratchOK == Scratch \in Handles /\ Ref(0)
BY Sizes DEF Scratch, Handles, Offsets, Ref

LEMMA ExitFileInv ==
  ASSUME NEW p \in Proc, LockInv, FileInv, Exit(p), UNCHANGED files
  PROVE  FileInv'
<1>1. /\ pc' = [pc EXCEPT ![p] = "dead"] /\ db' = [db EXCEPT ![p] = Scratch]
      /\ kv' = IF db[p].gone THEN [kv EXCEPT ![call[p].key] = None] ELSE kv
      /\ UNCHANGED <<pos, ret>>
  BY DEF Exit, Goto
<1>2. kv' \in [Keys -> Data \cup {None}]
  BY <1>1, Before
<1>3. "dead" \in Labels /\ "dead" \notin DataLabels /\ "dead" \notin RecordLabels
  BY DEF Labels, DataLabels, RecordLabels, DelLabels
<1>4. Ref(Scratch.offset) /\ Ref(Scratch.save) /\ Ref(Scratch.head) /\ Ref(Scratch.ptrval)
  BY ScratchOK DEF Scratch
<1>5. FileType' /\ PointersValid' /\ Grow(p)
  BY FilesSame
<1>6. pos' \in [Proc -> 0 .. IdxCap + 1] /\ ret' \in [Proc -> ResultType] /\ Scratch \in Handles
  BY <1>1, Before, ScratchOK
<1> QED BY <1>1, <1>2, <1>3, <1>4, <1>5, <1>6, Arrive

LEMMA LookupFileInv ==
  ASSUME NEW p \in Proc, LockInv, FileInv,
         FindLock(p) \/ FindPtr(p) \/ FindNext(p) \/ Found(p) \/ NotFound(p) \/ FetchData(p)
  PROVE  FileInv'
<1>0. UNCHANGED files /\ kv' = kv /\ pc[p] \in {"findlock", "findptr", "findrec", "readdat"}
  BY DEF FindLock, FindPtr, ReadPtr, FindNext, Found, NotFound, FetchData
<1>1. /\ {"findptr", "findrec", "readdat", "dellock", "overwrite", "unlock", "readhead"} \subseteq Labels
      /\ DataLabels \cap {"findptr", "findrec", "readhead", "unlock"} = {}
      /\ RecordLabels \subseteq DataLabels /\ {"datwrite", "idxwrite"} \cap RecordLabels = {}
  BY DEF Labels, DataLabels, RecordLabels, DelLabels
<1>2. /\ call[p].key \in Keys /\ chainoff(p) \in Offsets
      /\ call[p].op \in {"fetch", "store", "delete"}
  <2>1. call[p].key \in Keys /\ call[p].op \in {"fetch", "store", "delete"}
    BY <1>0, Before DEF CallOK, InChain, OutLabels
  <2> QED BY <2>1, ChainOffset, Sizes, DbConstants DEF Offsets
<1>3. FileType' /\ PointersValid' /\ Grow(p) /\ Written' = Written /\ datsize' = datsize
  BY <1>0, FilesSame
<1>4. CASE FindLock(p)
  <2> DEFINE h == [db[p] EXCEPT !.ptroff = chainoff(p)]
  <2>1. db' = [db EXCEPT ![p] = h] /\ pc' = [pc EXCEPT ![p] = "findptr"] /\ UNCHANGED <<pos, ret>>
    BY <1>4 DEF FindLock, Goto
  <2>2. h \in Handles /\ h.offset = db[p].offset /\ h.save = db[p].save /\ h.head = db[p].head
        /\ h.ptrval = db[p].ptrval
    BY <1>2, Before DEF Handles
  <2> QED BY <1>0, <1>1, <1>3, <2>1, <2>2, Before, Arrive
<1>5. CASE FindPtr(p)
  <2> DEFINE h == [db[p] EXCEPT !.offset = ptr[chainoff(p)]]
  <2>1. /\ db' = [db EXCEPT ![p] = h] /\ pc' = [pc EXCEPT ![p] = "findrec"] /\ ret' = ret
        /\ pos' = [pos EXCEPT ![p] = 0]
    BY <1>5 DEF FindPtr, Goto, ReadPtr
  <2>2. ptr[chainoff(p)] \in Offsets /\ Ref(ptr[chainoff(p)])
    BY <1>2, Before DEF FileType
  <2>3. h \in Handles /\ Ref(h.offset) /\ h.save = db[p].save /\ h.head = db[p].head
        /\ h.ptrval = db[p].ptrval
    BY <2>2, Before DEF Handles
  <2>4. pos' \in [Proc -> 0 .. IdxCap + 1]
    BY <2>1, Before, Sizes
  <2> QED BY <1>0, <1>1, <1>3, <2>1, <2>3, <2>4, Before, Arrive
<1>6. ASSUME pc[p] = "findrec", db[p].offset # 0
      PROVE  /\ db[p].offset \in Written
             /\ [pos EXCEPT ![p] = db[p].offset + 1] \in [Proc -> 0 .. IdxCap + 1]
  <2>1. db[p].offset \in Written
    BY <1>6, Before DEF Ref
  <2>2. db[p].offset \in 0 .. IdxCap /\ db[p].offset + 1 \in 0 .. IdxCap + 1
    BY <2>1, Before, WrittenOffsets, Sizes DEF Offsets
  <2> QED BY <2>1, <2>2, Before
<1>7. CASE FindNext(p)
  <2> DEFINE o == db[p].offset
             h == [ReadIdx(p, o) EXCEPT !.ptroff = o, !.offset = ptr[o]]
  <2>1. /\ db' = [db EXCEPT ![p] = h] /\ pc' = [pc EXCEPT ![p] = "findrec"] /\ ret' = ret
        /\ pos' = [pos EXCEPT ![p] = o + 1] /\ pc[p] = "findrec" /\ o # 0
    BY <1>7, Before DEF FindNext, LockType
  <2>2. o \in Written /\ o \in Offsets /\ ptr[o] \in Offsets
    BY <2>1, <1>6, Before, WrittenOffsets DEF FileType
  <2>3. h \in Handles /\ h.offset = ptr[o] /\ h.save = ReadIdx(p, o).save
        /\ h.head = ReadIdx(p, o).head /\ h.ptrval = ReadIdx(p, o).ptrval
    <3>1. ReadIdx(p, o) \in Handles
      BY <2>2, ReadIdxOK
    <3> QED BY <2>2, <3>1 DEF Handles
  <2>4. Ref(h.offset) /\ Ref(h.save) /\ Ref(h.head) /\ Ref(h.ptrval)
    BY <2>2, <2>3, ReadIdxOK, Before
  <2> QED BY <1>0, <1>1, <1>3, <1>6, <2>1, <2>3, <2>4, Before, Arrive
<1>8. CASE Found(p)
  <2> DEFINE o == db[p].offset
             h == ReadIdx(p, o)
  <2>1. /\ db' = [db EXCEPT ![p] = h] /\ pc' = [pc EXCEPT ![p] = AfterFound(p)]
        /\ ret' = ret \/ ret' = [ret EXCEPT ![p] = Result(1, None, None)]
        /\ pos' = [pos EXCEPT ![p] = o + 1] /\ pc[p] = "findrec" /\ o # 0
    BY <1>8 DEF Found, Goto, SetRet
  <2>2. h \in Handles /\ Ref(h.offset) /\ Ref(h.save) /\ Ref(h.head) /\ Ref(h.ptrval)
        /\ h.idxoff \in Written /\ h.datoff \in 1 .. datsize - 1
    <3>1. o \in Written /\ Ref(db[p].offset) /\ Ref(db[p].save) /\ Ref(db[p].head)
      BY <2>1, <1>6, Before
    <3> HIDE DEF o
    <3> QED BY <3>1, ReadIdxOK DEF h
  <2>3. AfterFound(p) \in {"readdat", "dellock", "unlock", "overwrite"}
    BY <1>2 DEF AfterFound
  <2>4. ret' \in [Proc -> ResultType]
    BY <2>1, Before, OkResult
  <2> QED BY <1>0, <1>1, <1>3, <1>6, <2>1, <2>2, <2>3, <2>4, Before, Arrive
<1>9. CASE NotFound(p)
  <2>1. /\ db' = db /\ pos' = pos
        /\ pc' = [pc EXCEPT ![p] = "readhead"] \/ pc' = [pc EXCEPT ![p] = "unlock"]
        /\ ret' = ret \/ ret' = [ret EXCEPT ![p] = Result(-1, None, None)]
    BY <1>9 DEF NotFound, Goto, SetRet
  <2>2. ret' \in [Proc -> ResultType]
    BY <2>1, Before, OkResult
  <2> QED BY <1>0, <1>1, <1>3, <2>1, <2>2, Before, Arrive
<1>10. CASE FetchData(p)
  <2>1. /\ db' = db /\ pos' = pos /\ pc' = [pc EXCEPT ![p] = "unlock"] /\ pc[p] = "readdat"
        /\ ret' = [ret EXCEPT ![p] = Result(0, None, dat[db[p].datoff])]
    BY <1>10 DEF FetchData, Goto, SetRet
  <2>2. db[p].datoff \in 1 .. DatCap
    BY <2>1, Before, Sizes DEF DataLabels, RecordLabels, FileType
  <2>3. Result(0, None, dat[db[p].datoff]) \in ResultType
    <3>1. dat[db[p].datoff] \in Data \cup {None, Blank}
      BY <2>2, Before DEF FileType
    <3> QED BY <3>1, OkResult
  <2>4. ret' \in [Proc -> ResultType]
    BY <2>1, <2>3, Before
  <2> QED BY <1>0, <1>1, <1>3, <2>1, <2>4, Before, Arrive
<1> QED BY <1>4, <1>5, <1>7, <1>8, <1>9, <1>10

\* Steps that enter or leave a call and read or write no file.
LEMMA IdleFileInv ==
  ASSUME NEW p \in Proc, NEW l \in {"idle", "findlock", "scanlock"}, LockInv, FileInv, UNCHANGED <<files, kv>>,
         pc' = [pc EXCEPT ![p] = l], db' = db \/ db' = [db EXCEPT ![p] = Scratch],
         pos' = pos \/ pos' = [pos EXCEPT ![p] = RecOff],
         ret' = ret \/ \E n \in -1 .. 2 : ret' = [ret EXCEPT ![p] = Result(n, None, None)]
  PROVE  FileInv'
<1>1. l \in Labels /\ l \notin DataLabels /\ l \notin RecordLabels /\ l # "datwrite" /\ l # "idxwrite"
  BY DEF Labels, DataLabels, RecordLabels, DelLabels
<1>2. pos' \in [Proc -> 0 .. IdxCap + 1]
  BY Before, Sizes
<1>3. ret' \in [Proc -> ResultType]
  BY Before, OkResult
<1>4. Scratch.offset = 0 /\ Scratch.save = 0 /\ Scratch.head = 0 /\ Scratch.ptrval = 0
  BY DEF Scratch
<1>5. CASE db' = db
  BY <1>1, <1>2, <1>3, <1>5, Before, FilesSame, Arrive
<1>6. CASE db' = [db EXCEPT ![p] = Scratch]
  <2>1. FileType' /\ PointersValid' /\ Grow(p) /\ kv' \in [Keys -> Data \cup {None}]
    BY Before, FilesSame
  <2>2. Scratch \in Handles /\ Ref(Scratch.offset) /\ Ref(Scratch.save) /\ Ref(Scratch.head)
        /\ Ref(Scratch.ptrval)
    BY <1>4, ScratchOK
  <2> QED BY <1>1, <1>2, <1>3, <1>6, <2>1, <2>2, Arrive
<1> QED BY <1>5, <1>6

LEMMA BeginFileInv ==
  ASSUME NEW p \in Proc, LockInv, FileInv, Begin(p) \/ Reopen(p) \/ UnlockChain(p) \/ ScanUnlock(p)
  PROVE  FileInv'
<1>1. CASE UnlockChain(p) \/ ScanUnlock(p) \/ Reopen(p)
  BY <1>1, IdleFileInv DEF UnlockChain, ScanUnlock, Reopen, Goto
<1>2. CASE Begin(p)
  <2>1. PICK c \in Menu[p] : \/ Call(p, c) \/ StoreCall(p, c) \/ StoreBadFlag(p, c)
                             \/ StoreBadLength(p, c) \/ Rewind(p, c)
    BY <1>2 DEF Begin
  <2>2. CASE Call(p, c) \/ StoreCall(p, c)
    <3>1. 2 \in -1 .. 2
      OBVIOUS
    <3>2. /\ UNCHANGED <<files, kv>> /\ db' = db /\ pos' = pos
          /\ ret' = [ret EXCEPT ![p] = Result(2, None, None)]
      BY <2>2 DEF Call, StoreCall, SetRet, Pending
    <3>3. PICK l \in {"findlock", "scanlock"} : pc' = [pc EXCEPT ![p] = l]
      BY <2>2 DEF Call, StoreCall, Goto
    <3> QED BY <3>1, <3>2, <3>3, IdleFileInv
  <2>3. CASE StoreBadFlag(p, c) \/ Rewind(p, c)
    <3>1. /\ pc' = [pc EXCEPT ![p] = "idle"] /\ UNCHANGED <<files, kv>> /\ db' = db
          /\ pos' = pos \/ pos' = [pos EXCEPT ![p] = RecOff]
      BY <2>3, Before DEF StoreBadFlag, Rewind, LockType
    <3>2. ret' = ret \/ ret' = [ret EXCEPT ![p] = Result(-1, None, None)]
      BY <2>3 DEF StoreBadFlag, Rewind, SetRet
    <3>3. ret' = ret \/ \E n \in -1 .. 2 : ret' = [ret EXCEPT ![p] = Result(n, None, None)]
      <4>1. -1 \in -1 .. 2
        OBVIOUS
      <4> QED BY <3>2, <4>1
    <3> QED BY <3>1, <3>3, IdleFileInv
  <2>4. CASE StoreBadLength(p, c)
    BY <2>4, ExitFileInv DEF StoreBadLength
  <2> QED BY <2>1, <2>2, <2>3, <2>4
<1> QED BY <1>1, <1>2

LEMMA DeleteFileInv ==
  ASSUME NEW p \in Proc, LockInv, FileInv, DeleteStep(p)
  PROVE  FileInv'
<1>1. /\ DelLabels \subseteq Labels /\ DelLabels \subseteq RecordLabels /\ RecordLabels \subseteq DataLabels
      /\ {"unlock", "readhead"} \subseteq Labels /\ DataLabels \cap {"unlock", "readhead"} = {}
      /\ {"datwrite", "idxwrite"} \cap RecordLabels = {}
  BY DEF Labels, DataLabels, RecordLabels, DelLabels
<1>2. pc[p] \in DelLabels
  BY DEF DeleteStep, DelLabels, DelLock, DelBlank, DelFree, DelIdx, DelHead, DelUnlink, DelUnlock
<1>3. /\ db[p].idxoff \in Written /\ db[p].idxoff \in 0 .. IdxCap /\ db[p].datoff \in 1 .. datsize - 1
      /\ call[p].key \in Keys /\ FREE_OFF \in Offsets
  <2>1. db[p].idxoff \in Written /\ db[p].datoff \in 1 .. datsize - 1
    BY <1>1, <1>2, Before
  <2>2. call[p].key \in Keys
    BY <1>2, Before DEF CallOK, InChain, OutLabels, DelLabels
  <2> QED BY <2>1, <2>2, WrittenOffsets, Before, Sizes DEF Offsets, FREE_OFF
<1>4. CASE DelLock(p) \/ DelUnlock(p)
  <2>1. /\ UNCHANGED <<files, db, pos, ret, kv>>
        /\ \E l \in {"delblank", "unlock", "readhead"} : pc' = [pc EXCEPT ![p] = l]
    BY <1>4 DEF DelLock, DelUnlock, Goto
  <2>2. "delblank" \in DelLabels
    BY DEF DelLabels
  <2> QED BY <1>1, <1>3, <2>1, <2>2, Before, FilesSame, Arrive
<1>5. CASE DelBlank(p)
  <2>1. /\ WriteDat(p, db[p].datoff, Blank) /\ pc' = [pc EXCEPT ![p] = "delfree"]
        /\ UNCHANGED <<db, ret, kv>>
    BY <1>5 DEF DelBlank, Goto
  <2>2. db[p].datoff \in 1 .. datsize /\ db[p].datoff <= DatCap /\ db[p].datoff # datsize /\ datsize \in Int
    BY <1>3, Before, DataIn, FileSizes
  <2>3. FileType' /\ PointersValid' /\ idxsize' = idxsize /\ pos' = pos /\ datsize' = datsize
    BY <2>1, <2>2, WriteDatOK
  <2>4. Grow(p) /\ "delfree" \in DelLabels
    BY <2>3, Before, SizesStay DEF DelLabels
  <2> QED BY <1>1, <1>3, <2>1, <2>3, <2>4, Before, Arrive
<1>6. CASE DelFree(p)
  <2> DEFINE h == [db[p] EXCEPT !.head = ptr[FREE_OFF], !.save = db[p].ptrval]
  <2>1. /\ db' = [db EXCEPT ![p] = h] /\ pc' = [pc EXCEPT ![p] = "delidx"]
        /\ UNCHANGED <<files, ret, kv>> /\ pos' = [pos EXCEPT ![p] = 0]
    BY <1>6 DEF DelFree, ReadPtr, Goto
  <2>2. ptr[FREE_OFF] \in Offsets /\ Ref(ptr[FREE_OFF]) /\ db[p].ptrval \in Offsets
    BY <1>3, Before DEF FileType, Handles
  <2>3. /\ h \in Handles /\ h.head = ptr[FREE_OFF] /\ h.save = db[p].ptrval /\ h.offset = db[p].offset
        /\ h.ptrval = db[p].ptrval /\ h.idxoff = db[p].idxoff /\ h.datoff = db[p].datoff
    BY <2>2, Before DEF Handles
  <2>4. pos' \in [Proc -> 0 .. IdxCap + 1] /\ "delidx" \in DelLabels
    BY <2>1, Before, Sizes DEF DelLabels
  <2> QED BY <1>1, <1>3, <2>1, <2>2, <2>3, <2>4, Before, FilesSame, Arrive
<1>7. CASE DelIdx(p)
  <2> DEFINE h == [db[p] EXCEPT !.ptrval = db[p].head]
  <2>1. /\ WriteIdx(p, db[p].idxoff, Blank, KeyLen[call[p].key], db[p].head)
        /\ db' = [db EXCEPT ![p] = h] /\ pc' = [pc EXCEPT ![p] = "delhead"] /\ UNCHANGED <<ret, kv>>
    BY <1>7 DEF DelIdx, Goto
  <2>2. KeyLen[call[p].key] \in Nat /\ db[p].idxoff # idxsize /\ db[p].idxoff <= IdxCap /\ Ref(db[p].head)
    <3>1. KeyLen[call[p].key] \in Nat
      BY <1>3, DbConstants
    <3>2. FileType /\ idxsize \in Int /\ Ref(db[p].head)
      BY Before, Sizes DEF FileType
    <3>3. db[p].idxoff # idxsize /\ db[p].idxoff <= IdxCap
      BY <1>3, <3>2, Sizes DEF Written
    <3> QED BY <3>1, <3>2, <3>3
  <2>3. /\ FileType' /\ PointersValid' /\ datsize' = datsize /\ idxsize' = idxsize
        /\ pos' = [pos EXCEPT ![p] = db[p].idxoff + 1]
    BY <1>3, <2>1, <2>2, WriteIdxOK
  <2>4. pos' \in [Proc -> 0 .. IdxCap + 1] /\ Grow(p) /\ "delhead" \in DelLabels
    <3>1. db[p].idxoff + 1 \in 0 .. IdxCap + 1
      BY <1>3, Sizes
    <3>2. pos' \in [Proc -> 0 .. IdxCap + 1]
      BY <2>3, <3>1, Before
    <3> QED BY <2>3, <3>2, Before, SizesStay DEF DelLabels
  <2>5. /\ h \in Handles /\ h.head = db[p].head /\ h.save = db[p].save /\ h.offset = db[p].offset
        /\ h.ptrval = db[p].head /\ h.idxoff = db[p].idxoff /\ h.datoff = db[p].datoff
    <3>1. db[p] \in Handles
      BY Before
    <3>2. h \in Handles
      BY <3>1 DEF Handles
    <3> QED BY <3>1, <3>2 DEF Handles
  <2>6. /\ Ref(h.offset) /\ Ref(h.save) /\ Ref(h.head) /\ Ref(h.ptrval)
        /\ ret' \in [Proc -> ResultType] /\ kv' \in [Keys -> Data \cup {None}]
    BY <2>1, <2>5, Before
  <2> HIDE DEF h
  <2> QED BY <1>1, <1>3, <2>1, <2>3, <2>4, <2>5, <2>6, Arrive
<1>8. CASE DelHead(p)
  <2>1. /\ WritePtr(p, FREE_OFF, db[p].idxoff) /\ pc' = [pc EXCEPT ![p] = "delunlink"]
        /\ UNCHANGED <<db, ret, kv>>
    BY <1>8 DEF DelHead, Goto
  <2>2. FileType' /\ PointersValid' /\ idxsize' = idxsize /\ datsize' = datsize
         /\ pos' = [pos EXCEPT ![p] = 0]
    BY <1>3, <2>1, WritePtrOK DEF Ref
  <2>3. pos' \in [Proc -> 0 .. IdxCap + 1] /\ Grow(p) /\ "delunlink" \in DelLabels
    <3>1. 0 \in 0 .. IdxCap + 1 /\ FileType /\ pos \in [Proc -> 0 .. IdxCap + 1]
      BY Before, Sizes
    <3> QED BY <2>2, <3>1, SizesStay DEF DelLabels
  <2> QED BY <1>1, <1>3, <2>1, <2>2, <2>3, Before, Arrive
<1>9. CASE DelUnlink(p)
  <2> DEFINE h == [db[p] EXCEPT !.gone = TRUE]
  <2>1. /\ WritePtr(p, db[p].ptroff, db[p].save) /\ pc' = [pc EXCEPT ![p] = "delunlock"]
        /\ db' = db \/ db' = [db EXCEPT ![p] = h]
        /\ kv' = kv \/ kv' = [kv EXCEPT ![call[p].key] = None]
        /\ ret' = ret \/ ret' = [ret EXCEPT ![p] = Result(0, None, None)]
    BY <1>9 DEF DelUnlink, Goto, SetRet
  <2>2. db[p].ptroff \in Offsets
    BY Before DEF Handles
  <2>3. FileType' /\ PointersValid' /\ idxsize' = idxsize /\ datsize' = datsize
         /\ pos' = [pos EXCEPT ![p] = 0]
    BY <2>1, <2>2, Before, WritePtrOK
  <2>4. pos' \in [Proc -> 0 .. IdxCap + 1] /\ Grow(p) /\ "delunlock" \in DelLabels
    <3>1. 0 \in 0 .. IdxCap + 1 /\ FileType /\ pos \in [Proc -> 0 .. IdxCap + 1]
      BY Before, Sizes
    <3> QED BY <2>3, <3>1, SizesStay DEF DelLabels
  <2>5. ret' \in [Proc -> ResultType] /\ kv' \in [Keys -> Data \cup {None}]
    BY <2>1, Before, OkResult
  <2>6. /\ h \in Handles /\ h.head = db[p].head /\ h.save = db[p].save /\ h.offset = db[p].offset
        /\ h.ptrval = db[p].ptrval /\ h.idxoff = db[p].idxoff /\ h.datoff = db[p].datoff
    BY Before DEF Handles
  <2>7. CASE db' = db
    BY <1>1, <1>3, <2>1, <2>3, <2>4, <2>5, <2>7, Before, Arrive
  <2>8. CASE db' = [db EXCEPT ![p] = h]
    <3>1. Ref(h.offset) /\ Ref(h.save) /\ Ref(h.head) /\ Ref(h.ptrval)
      BY <2>6, Before
    <3> HIDE DEF h
    <3> QED BY <1>1, <1>3, <2>1, <2>3, <2>4, <2>5, <2>6, <2>8, <3>1, Arrive
  <2> QED BY <2>1, <2>7, <2>8
<1> QED BY <1>4, <1>5, <1>6, <1>7, <1>8, <1>9 DEF DeleteStep

LEMMA FreeFileInv ==
  ASSUME NEW p \in Proc, LockInv, FileInv, FreeStep(p) \/ ReadHead(p)
  PROVE  FileInv'
<1>1. /\ {"freeptr", "freerec", "freetake", "freeunlock", "datlock", "reuse", "freelock"} \subseteq Labels
      /\ DataLabels \cap {"freeptr", "freerec", "datlock", "freelock"} = {}
      /\ {"freetake", "freeunlock", "reuse"} \subseteq RecordLabels /\ RecordLabels \subseteq DataLabels
      /\ {"datwrite", "idxwrite"} \cap RecordLabels = {}
  BY DEF Labels, DataLabels, RecordLabels, DelLabels
<1>2. pc[p] \in {"readhead", "freelock", "freeptr", "freerec", "freetake", "freeunlock"}
  BY DEF FreeStep, ReadHead, FreeLock, FreePtr, FreeNext, FreeFound, FreeTake, FreeUnlock
<1>3. call[p].key \in Keys /\ chainoff(p) \in Offsets /\ FREE_OFF \in Offsets
  <2>1. call[p].key \in Keys
    BY <1>2, Before DEF CallOK, InChain, OutLabels
  <2> QED BY <2>1, Lengths DEF chainoff
<1>4. [pos EXCEPT ![p] = 0] \in [Proc -> 0 .. IdxCap + 1]
  BY Before, Sizes
<1>5. CASE ReadHead(p)
  <2> DEFINE h == [db[p] EXCEPT !.head = ptr[chainoff(p)]]
  <2>1. /\ db' = [db EXCEPT ![p] = h] /\ UNCHANGED <<files, ret, kv>> /\ pos' = [pos EXCEPT ![p] = 0]
        /\ \E l \in {"datlock", "freelock"} : pc' = [pc EXCEPT ![p] = l]
    BY <1>5 DEF ReadHead, ReadPtr, Goto
  <2>2. ptr[chainoff(p)] \in Offsets /\ Ref(ptr[chainoff(p)])
    BY <1>3, Before DEF FileType
  <2>3. /\ h \in Handles /\ h.head = ptr[chainoff(p)] /\ h.save = db[p].save /\ h.offset = db[p].offset
        /\ h.ptrval = db[p].ptrval
    BY <2>2, Before DEF Handles
  <2>4. Ref(h.offset) /\ Ref(h.save) /\ Ref(h.head) /\ Ref(h.ptrval)
    BY <2>2, <2>3, Before
  <2> HIDE DEF h
  <2>5. PICK l \in {"datlock", "freelock"} : pc' = [pc EXCEPT ![p] = l]
    BY <2>1
  <2>6. l \in Labels /\ l \notin DataLabels /\ l \notin RecordLabels /\ l # "datwrite" /\ l # "idxwrite"
    BY <1>1
  <2> QED BY <1>4, <2>1, <2>3, <2>4, <2>5, <2>6, Before, FilesSame, Arrive
<1>6. CASE FreePtr(p)
  <2> DEFINE h == [db[p] EXCEPT !.offset = ptr[FREE_OFF], !.save = FREE_OFF]
  <2>1. /\ db' = [db EXCEPT ![p] = h] /\ UNCHANGED <<files, ret, kv>> /\ pos' = [pos EXCEPT ![p] = 0]
        /\ pc' = [pc EXCEPT ![p] = "freerec"]
    BY <1>6 DEF FreePtr, ReadPtr, Goto
  <2>2. ptr[FREE_OFF] \in Offsets /\ Ref(ptr[FREE_OFF]) /\ Ref(FREE_OFF)
    BY <1>3, Before DEF FileType, Ref, FREE_OFF
  <2>3. /\ h \in Handles /\ h.head = db[p].head /\ h.save = FREE_OFF /\ h.offset = ptr[FREE_OFF]
        /\ h.ptrval = db[p].ptrval
    BY <1>3, <2>2, Before DEF Handles
  <2>4. Ref(h.offset) /\ Ref(h.save) /\ Ref(h.head) /\ Ref(h.ptrval)
    BY <2>2, <2>3, Before
  <2> QED BY <1>1, <1>4, <2>1, <2>3, <2>4, Before, FilesSame, Arrive
<1>7. CASE FreeLock(p) \/ FreeUnlock(p)
  <2>1. UNCHANGED <<files, db, pos, ret, kv>>
    BY <1>7 DEF FreeLock, FreeUnlock
  <2>2. \/ pc' = [pc EXCEPT ![p] = "freeptr"] \/ pc' = [pc EXCEPT ![p] = "datlock"]
        \/ pc' = [pc EXCEPT ![p] = "reuse"] /\ pc[p] = "freeunlock"
    BY <1>7 DEF FreeLock, FreeUnlock, Goto
  <2> QED BY <1>1, <2>1, <2>2, Before, FilesSame, Arrive
<1>8. ASSUME pc[p] = "freerec", db[p].offset # 0
      PROVE  /\ db[p].offset \in Written /\ db[p].offset \in Offsets
             /\ [pos EXCEPT ![p] = db[p].offset + 1] \in [Proc -> 0 .. IdxCap + 1]
  <2>1. db[p].offset \in Written
    BY <1>8, Before DEF Ref
  <2>2. db[p].offset \in Offsets /\ db[p].offset + 1 \in 0 .. IdxCap + 1
    BY <2>1, Before, WrittenOffsets, Sizes DEF Offsets
  <2> QED BY <2>1, <2>2, Before
<1>9. CASE FreeNext(p)
  <2> DEFINE o == db[p].offset
             h == [ReadIdx(p, o) EXCEPT !.save = o, !.offset = ptr[o]]
  <2>1. /\ db' = [db EXCEPT ![p] = h] /\ pc' = [pc EXCEPT ![p] = "freerec"] /\ UNCHANGED <<files, ret, kv>>
        /\ pos' = [pos EXCEPT ![p] = o + 1] /\ pc[p] = "freerec" /\ o # 0
    BY <1>9, Before DEF FreeNext, LockType
  <2>2. o \in Written /\ o \in Offsets /\ ptr[o] \in Offsets
    BY <2>1, <1>8, Before DEF FileType
  <2>3. h \in Handles /\ h.offset = ptr[o] /\ h.save = o
        /\ h.head = ReadIdx(p, o).head /\ h.ptrval = ReadIdx(p, o).ptrval
    <3>1. ReadIdx(p, o) \in Handles
      BY <2>2, ReadIdxOK
    <3> QED BY <2>2, <3>1 DEF Handles
  <2>4. Ref(h.offset) /\ Ref(h.save) /\ Ref(h.head) /\ Ref(h.ptrval)
    BY <2>2, <2>3, ReadIdxOK, Before DEF Ref
  <2> QED BY <1>1, <1>8, <2>1, <2>3, <2>4, Before, FilesSame, Arrive
<1>10. CASE FreeFound(p)
  <2> DEFINE o == db[p].offset
             h == ReadIdx(p, o)
  <2>1. /\ db' = [db EXCEPT ![p] = h] /\ pc' = [pc EXCEPT ![p] = "freetake"] /\ UNCHANGED <<files, ret, kv>>
        /\ pos' = [pos EXCEPT ![p] = o + 1] /\ pc[p] = "freerec" /\ o # 0
    BY <1>10 DEF FreeFound, Goto
  <2>2. h \in Handles /\ Ref(h.offset) /\ Ref(h.save) /\ Ref(h.head) /\ Ref(h.ptrval)
        /\ h.idxoff \in Written /\ h.datoff \in 1 .. datsize - 1
    <3>1. o \in Written /\ Ref(db[p].offset) /\ Ref(db[p].save) /\ Ref(db[p].head)
      BY <2>1, <1>8, Before
    <3> HIDE DEF o
    <3> QED BY <3>1, ReadIdxOK DEF h
  <2> QED BY <1>1, <1>8, <2>1, <2>2, Before, FilesSame, Arrive
<1>11. CASE FreeTake(p)
  <2>1. /\ WritePtr(p, db[p].save, db[p].ptrval) /\ pc' = [pc EXCEPT ![p] = "freeunlock"]
        /\ UNCHANGED <<db, ret, kv>> /\ pc[p] = "freetake"
    BY <1>11 DEF FreeTake, Goto
  <2>2. db[p].save \in Offsets
    BY Before DEF Handles
  <2>3. FileType' /\ PointersValid' /\ idxsize' = idxsize /\ datsize' = datsize
         /\ pos' = [pos EXCEPT ![p] = 0]
    BY <2>1, <2>2, Before, WritePtrOK
  <2>4. Grow(p)
    BY <2>3, Before, SizesStay
  <2> QED BY <1>1, <1>4, <2>1, <2>3, <2>4, Before, Arrive
<1> QED BY <1>5, <1>6, <1>7, <1>9, <1>10, <1>11 DEF FreeStep

LEMMA ScanFileInv ==
  ASSUME NEW p \in Proc, LockInv, FileInv, ScanLock(p) \/ ScanRecord(p) \/ ScanEof(p) \/ ScanData(p)
  PROVE  FileInv'
<1>1. /\ {"scanrec", "scandat", "scanunlock"} \subseteq Labels
      /\ DataLabels \cap {"scanrec", "scanunlock"} = {} /\ "scandat" \in RecordLabels
      /\ RecordLabels \subseteq DataLabels
  BY DEF Labels, DataLabels, RecordLabels, DelLabels
<1>2. UNCHANGED files /\ kv' = kv
  BY DEF ScanLock, ScanRecord, ScanEof, ScanData
<1>3. CASE ScanLock(p) \/ ScanEof(p)
  <2>1. /\ UNCHANGED <<db, pos>>
        /\ ret' = ret \/ ret' = [ret EXCEPT ![p] = Result(-1, None, None)]
        /\ pc' = [pc EXCEPT ![p] = "scanrec"] \/ pc' = [pc EXCEPT ![p] = "scanunlock"]
    BY <1>3 DEF ScanLock, ScanEof, Goto, SetRet
  <2>2. ret' \in [Proc -> ResultType]
    BY <2>1, Before, OkResult
  <2>3. PICK l \in {"scanrec", "scanunlock"} : pc' = [pc EXCEPT ![p] = l]
    BY <2>1
  <2>4. l \in Labels /\ l \notin DataLabels /\ l \notin RecordLabels /\ l # "datwrite" /\ l # "idxwrite"
    BY <1>1
  <2> QED BY <1>2, <2>1, <2>2, <2>3, <2>4, Before, FilesSame, Arrive
<1>4. CASE ScanRecord(p)
  <2> DEFINE h == ReadIdx(p, pos[p])
  <2>1. /\ db' = [db EXCEPT ![p] = h] /\ pos' = [pos EXCEPT ![p] = pos[p] + 1] /\ ret' = ret
        /\ \E l \in {"scanrec", "scandat"} : pc' = [pc EXCEPT ![p] = l]
        /\ pos[p] \in Written
    BY <1>4 DEF ScanRecord, Goto, Written
  <2>2. h \in Handles /\ Ref(h.offset) /\ Ref(h.save) /\ Ref(h.head) /\ Ref(h.ptrval)
        /\ h.idxoff \in Written /\ h.datoff \in 1 .. datsize - 1
    <3>1. Ref(db[p].offset) /\ Ref(db[p].save) /\ Ref(db[p].head)
      BY Before
    <3> QED BY <2>1, <3>1, ReadIdxOK
  <2>3. pos[p] + 1 \in 0 .. IdxCap + 1
    BY <2>1, Before, RecordIn
  <2>4. pos' \in [Proc -> 0 .. IdxCap + 1]
    BY <2>1, <2>3, Before
  <2> QED BY <1>1, <1>2, <2>1, <2>2, <2>4, Before, FilesSame, Arrive
<1>5. CASE ScanData(p)
  <2>1. /\ UNCHANGED <<db, pos>> /\ pc' = [pc EXCEPT ![p] = "scanunlock"] /\ pc[p] = "scandat"
        /\ ret' = [ret EXCEPT ![p] = Result(0, db[p].idxbuf, dat[db[p].datoff])]
    BY <1>5 DEF ScanData, Goto, SetRet
  <2>2. db[p].datoff \in 1 .. DatCap
    BY <1>1, <2>1, Before, DataIn
  <2>3. Result(0, db[p].idxbuf, dat[db[p].datoff]) \in ResultType
    <3>1. dat[db[p].datoff] \in Data \cup {None, Blank}
      BY <2>2, Before DEF FileType
    <3>2. db[p].idxbuf \in Keys \cup {None, Blank}
      BY Before DEF Handles
    <3>3. 0 \in -1 .. 2
      OBVIOUS
    <3> QED BY <3>1, <3>2, <3>3 DEF Result, ResultType
  <2>4. ret' \in [Proc -> ResultType]
    BY <2>1, <2>3, Before
  <2> QED BY <1>1, <1>2, <2>1, <2>4, Before, FilesSame, Arrive
<1> QED BY <1>3, <1>4, <1>5

\* The steps of db_store that leave the sizes of the files as they are.
LEMMA StoreFileInv ==
  ASSUME NEW p \in Proc, LockInv, FileInv,
         \/ Overwrite(p) \/ Reuse(p) \/ IdxRewrite(p) \/ DatLock(p) \/ DatSeek(p)
         \/ DatUnlock(p) \/ IdxLock(p) \/ IdxSeek(p) \/ IdxUnlock(p) \/ Link(p)
  PROVE  FileInv'
<1>1. /\ {"unlock", "idxrewrite", "link", "datseek", "datwrite", "idxlock", "idxseek", "idxwrite"} \subseteq Labels
      /\ {"overwrite", "reuse", "idxrewrite", "idxunlock", "link"} \subseteq RecordLabels
      /\ RecordLabels \subseteq DataLabels
      /\ {"datunlock", "idxlock", "idxseek", "idxwrite"} \subseteq DataLabels
      /\ DataLabels \cap {"unlock", "datseek", "datwrite"} = {}
      /\ {"unlock", "datseek", "datwrite", "idxlock", "idxseek", "idxwrite", "datunlock"} \cap RecordLabels = {}
  BY DEF Labels, DataLabels, RecordLabels, DelLabels
<1>2. /\ call[p].key \in Keys /\ call[p].data \in Data /\ chainoff(p) \in Offsets
  <2>1. pc[p] \in StoreLabels /\ InChain(p)
    BY DEF Overwrite, Reuse, IdxRewrite, DatLock, DatSeek, DatUnlock, IdxLock, IdxSeek, IdxUnlock, Link,
           StoreLabels, InChain, OutLabels
  <2>2. call[p].key \in Keys /\ call[p].data \in Data
    BY <2>1, Before DEF CallOK
  <2> QED BY <2>2, Lengths DEF chainoff
<1>3. CASE Overwrite(p) \/ Reuse(p)
  <2>1. /\ WriteDat(p, db[p].datoff, call[p].data) /\ db' = db
        /\ pc[p] \in {"overwrite", "reuse"}
    BY <1>3 DEF Overwrite, Reuse
  <2>2. db[p].idxoff \in Written /\ db[p].datoff \in 1 .. datsize - 1
    BY <1>1, <2>1, Before
  <2>3. db[p].datoff \in 1 .. datsize /\ db[p].datoff <= DatCap /\ db[p].datoff # datsize /\ datsize \in Int
    BY <2>2, Before, DataIn, FileSizes
  <2>4. FileType' /\ PointersValid' /\ idxsize' = idxsize /\ pos' = pos /\ datsize' = datsize
    BY <1>2, <2>1, <2>3, WriteDatOK
  <2>5. Grow(p)
    BY <2>4, Before, SizesStay
  <2>6. kv' \in [Keys -> Data \cup {None}] /\ ret' \in [Proc -> ResultType]
    <3>1. /\ kv' = kv \/ kv' = [kv EXCEPT ![call[p].key] = call[p].data]
          /\ ret' = ret \/ ret' = [ret EXCEPT ![p] = Result(0, None, None)]
      BY <1>3 DEF Overwrite, Reuse, SetRet
    <3> QED BY <1>2, <3>1, Before, OkResult
  <2>7. PICK l \in {"unlock", "idxrewrite"} : pc' = [pc EXCEPT ![p] = l]
    BY <1>3 DEF Overwrite, Reuse, Goto
  <2>8. l \in Labels /\ l # "datwrite" /\ l # "idxwrite"
    BY <1>1
  <2> QED BY <2>1, <2>2, <2>4, <2>5, <2>6, <2>7, <2>8, Before, Arrive
<1>4. CASE IdxRewrite(p)
  <2>1. /\ WriteIdx(p, db[p].idxoff, call[p].key, KeyLen[call[p].key], db[p].head) /\ UNCHANGED <<db, ret, kv>>
        /\ pc[p] = "idxrewrite" /\ pc' = [pc EXCEPT ![p] = "link"]
    BY <1>4 DEF IdxRewrite, Goto
  <2>2. db[p].idxoff \in Written /\ db[p].datoff \in 1 .. datsize - 1
    BY <1>1, <2>1, Before
  <2>3. /\ db[p].idxoff \in Written \cup {idxsize} /\ db[p].idxoff <= IdxCap /\ KeyLen[call[p].key] \in Nat
        /\ db[p].idxoff # idxsize /\ db[p].idxoff + 1 \in 0 .. IdxCap + 1
    BY <1>2, <2>2, Before, RecordIn, Lengths
  <2>4. FileType' /\ PointersValid' /\ datsize' = datsize /\ idxsize' = idxsize
        /\ pos' = [pos EXCEPT ![p] = db[p].idxoff + 1]
    BY <1>2, <2>1, <2>2, <2>3, Before, WriteIdxOK
  <2>5. Grow(p)
    BY <2>4, Before, SizesStay
  <2>6. pos' \in [Proc -> 0 .. IdxCap + 1]
    BY <2>3, <2>4, Before
  <2> QED BY <1>1, <2>1, <2>2, <2>4, <2>5, <2>6, Before, Arrive
<1>5. CASE DatLock(p) \/ DatUnlock(p) \/ IdxLock(p) \/ IdxUnlock(p)
  <2>1. UNCHANGED <<files, db, pos, ret, kv>>
    BY <1>5 DEF DatLock, DatUnlock, IdxLock, IdxUnlock
  <2>2. PICK l \in {"datseek", "idxlock", "idxseek", "link"} :
          /\ pc' = [pc EXCEPT ![p] = l]
          /\ l \in {"idxlock", "idxseek"} => pc[p] \in {"datunlock", "idxlock"}
          /\ l = "link" => pc[p] = "idxunlock"
    BY <1>5 DEF DatLock, DatUnlock, IdxLock, IdxUnlock, Goto
  <2>3. /\ l \in RecordLabels => db[p].idxoff \in Written
        /\ l \in DataLabels => db[p].datoff \in 1 .. datsize - 1
        /\ l \in Labels /\ l # "datwrite" /\ l # "idxwrite"
    BY <1>1, <2>2, Before
  <2> QED BY <2>1, <2>2, <2>3, Before, FilesSame, Arrive
<1>6. CASE DatSeek(p)
  <2> DEFINE h == [db[p] EXCEPT !.datoff = datsize, !.datlen = DatLen[call[p].data]]
  <2>1. /\ db' = [db EXCEPT ![p] = h] /\ pc' = [pc EXCEPT ![p] = "datwrite"]
        /\ UNCHANGED <<files, pos, ret, kv>>
    BY <1>6 DEF DatSeek, Goto
  <2>2. datsize \in 0 .. DatCap + 1 /\ DatLen[call[p].data] \in Nat
    BY <1>2, Before, FileSizes, Lengths
  <2>3. /\ h \in Handles /\ h.datoff = datsize
        /\ h.head = db[p].head /\ h.save = db[p].save /\ h.offset = db[p].offset /\ h.ptrval = db[p].ptrval
    <3>1. db[p] \in Handles
      BY Before
    <3>2. h \in Handles
      BY <2>2, <3>1 DEF Handles
    <3> QED BY <3>1, <3>2 DEF Handles
  <2>4. Ref(h.offset) /\ Ref(h.save) /\ Ref(h.head) /\ Ref(h.ptrval)
    BY <2>3, Before
  <2> HIDE DEF h
  <2> QED BY <1>1, <2>1, <2>3, <2>4, Before, FilesSame, Arrive
<1>7. CASE IdxSeek(p)
  <2> DEFINE h == [db[p] EXCEPT !.idxoff = idxsize]
  <2>1. /\ db' = [db EXCEPT ![p] = h] /\ pc' = [pc EXCEPT ![p] = "idxwrite"] /\ pc[p] = "idxseek"
        /\ UNCHANGED <<files, pos, ret, kv>>
    BY <1>7 DEF IdxSeek, Goto
  <2>2. idxsize \in 0 .. IdxCap + 1
    BY Before, FileSizes
  <2>3. /\ h \in Handles /\ h.idxoff = idxsize /\ h.datoff = db[p].datoff
        /\ h.head = db[p].head /\ h.save = db[p].save /\ h.offset = db[p].offset /\ h.ptrval = db[p].ptrval
    <3>1. db[p] \in Handles
      BY Before
    <3>2. h \in Handles
      BY <2>2, <3>1 DEF Handles
    <3> QED BY <3>1, <3>2 DEF Handles
  <2>4. Ref(h.offset) /\ Ref(h.save) /\ Ref(h.head) /\ Ref(h.ptrval) /\ db[p].datoff \in 1 .. datsize - 1
    BY <1>1, <2>1, <2>3, Before
  <2> HIDE DEF h
  <2> QED BY <1>1, <2>1, <2>3, <2>4, Before, FilesSame, Arrive
<1>8. CASE Link(p)
  <2>1. /\ WritePtr(p, chainoff(p), db[p].idxoff) /\ db' = db /\ pc[p] = "link"
        /\ pc' = [pc EXCEPT ![p] = "unlock"]
    BY <1>8 DEF Link, Goto
  <2>2. Ref(db[p].idxoff)
    BY <1>1, <2>1, Before DEF Ref
  <2>3. FileType' /\ PointersValid' /\ idxsize' = idxsize /\ datsize' = datsize
         /\ pos' = [pos EXCEPT ![p] = 0]
    BY <1>2, <2>1, <2>2, WritePtrOK
  <2>4. Grow(p)
    BY <2>3, Before, SizesStay
  <2>5. kv' \in [Keys -> Data \cup {None}] /\ ret' \in [Proc -> ResultType] /\ pos' \in [Proc -> 0 .. IdxCap + 1]
    <3>1. /\ kv' = [kv EXCEPT ![call[p].key] = call[p].data]
          /\ ret' = [ret EXCEPT ![p] = Result(0, None, None)]
      BY <1>8 DEF Link, SetRet
    <3>2. 0 \in 0 .. IdxCap + 1
      BY Sizes
    <3> QED BY <1>2, <2>3, <3>1, <3>2, Before, OkResult
  <2> QED BY <1>1, <2>1, <2>3, <2>4, <2>5, Before, Arrive
<1> QED BY <1>3, <1>4, <1>5, <1>6, <1>7, <1>8

\* The two appends: the lock on the end of the file keeps others from appending.
LEMMA AppendFileInv ==
  ASSUME NEW p \in Proc, LockInv, FileInv, DatAppend(p) \/ IdxAppend(p)
  PROVE  FileInv'
<1>1. /\ {"datunlock", "idxunlock"} \subseteq Labels /\ "idxunlock" \in RecordLabels
      /\ RecordLabels \subseteq DataLabels /\ "datunlock" \notin RecordLabels /\ "idxwrite" \in DataLabels
  BY DEF Labels, DataLabels, RecordLabels, DelLabels
<1>2. /\ call[p].key \in Keys /\ call[p].data \in Data
  <2>1. pc[p] \in StoreLabels /\ InChain(p)
    BY DEF DatAppend, IdxAppend, StoreLabels, InChain, OutLabels
  <2> QED BY <2>1, Before DEF CallOK
<1>3. CASE DatAppend(p)
  <2>1. /\ WriteDat(p, db[p].datoff, call[p].data) /\ UNCHANGED <<db, ret, kv>>
        /\ pc[p] = "datwrite" /\ pc' = [pc EXCEPT ![p] = "datunlock"] /\ db[p].datoff <= DatCap
    BY <1>3 DEF DatAppend, Goto
  <2>2. db[p].datoff = datsize /\ datsize \in Int /\ 1 <= datsize /\ datsize \in 1 .. datsize
    BY <2>1, Before, FileSizes
  <2>3. FileType' /\ PointersValid' /\ idxsize' = idxsize /\ pos' = pos /\ datsize' = datsize + 1
    BY <1>2, <2>1, <2>2, WriteDatOK
  <2>4. \A q \in Proc \ {p} : pc[q] # "datwrite"
    BY <2>1 DEF LockInv, HoldOK, GrantInv, DatLabels
  <2>5. Grow(p) /\ db[p].datoff \in 1 .. datsize' - 1
    <3>1. FileType
      BY Before
    <3>2. idxsize <= idxsize' /\ datsize <= datsize' /\ db[p].datoff \in 1 .. datsize' - 1
      BY <2>2, <2>3, <3>1, FileSizes
    <3> QED BY <2>3, <2>4, <3>2 DEF Grow
  <2> QED BY <1>1, <2>1, <2>3, <2>5, Before, Arrive
<1>4. CASE IdxAppend(p)
  <2>1. /\ WriteIdx(p, db[p].idxoff, call[p].key, KeyLen[call[p].key], db[p].head) /\ UNCHANGED <<db, ret, kv>>
        /\ pc[p] = "idxwrite" /\ pc' = [pc EXCEPT ![p] = "idxunlock"] /\ db[p].idxoff <= IdxCap
    BY <1>4 DEF IdxAppend, Goto
  <2>2. db[p].idxoff = idxsize /\ db[p].datoff \in 1 .. datsize - 1
    BY <1>1, <2>1, Before
  <2>3. /\ db[p].idxoff \in Written \cup {idxsize} /\ KeyLen[call[p].key] \in Nat
        /\ idxsize + 1 \in 0 .. IdxCap + 1 /\ idxsize \in Int
    <3>1. FileType /\ idxsize <= IdxCap
      BY <2>1, <2>2, Before
    <3>2. idxsize + 1 \in 0 .. IdxCap + 1
      BY <3>1, FileSizes, Sizes
    <3> QED BY <1>2, <2>2, <3>1, <3>2, FileSizes, Lengths
  <2>4. FileType' /\ PointersValid' /\ datsize' = datsize /\ idxsize' = idxsize + 1
        /\ pos' = [pos EXCEPT ![p] = db[p].idxoff + 1] /\ db[p].idxoff \in Written'
    BY <1>2, <2>1, <2>2, <2>3, Before, WriteIdxOK
  <2>5. \A q \in Proc \ {p} : pc[q] # "idxwrite"
    <3>1. RecOff \in 0 .. RecOff
      BY Sizes
    <3> QED BY <2>1, <3>1 DEF LockInv, HoldOK, GrantInv, IdxLabels
  <2>6. Grow(p)
    <3>1. FileType
      BY Before
    <3>2. idxsize <= idxsize' /\ datsize <= datsize'
      BY <2>4, <3>1, FileSizes
    <3> QED BY <2>4, <2>5, <3>2 DEF Grow
  <2>7. pos' \in [Proc -> 0 .. IdxCap + 1]
    BY <2>2, <2>3, <2>4, Before
  <2> QED BY <1>1, <2>1, <2>2, <2>4, <2>6, <2>7, Before, Arrive
<1> QED BY <1>3, <1>4

LEMMA InitFileInv == Init => FileInv
<1> SUFFICES ASSUME Init PROVE FileInv
  OBVIOUS
<1>1. 0 \in Offsets /\ RecOff \in 0 .. IdxCap + 1 /\ RecOff \in RecOff .. IdxCap + 1 /\ 1 \in 1 .. DatCap + 1
      /\ 0 \in 0 .. DatCap /\ 0 \in -1 .. 2 /\ RecOff .. RecOff - 1 = {}
  BY Sizes DEF Offsets
<1>2. FileType
  BY <1>1 DEF Init, FileType, EmptyRec
<1>3. HandleType
  BY <1>1, ScratchOK DEF Init, HandleType, Result
<1>4. PointersValid
  BY <1>1 DEF Init, PointersValid
<1>5. "idle" \notin DataLabels /\ RecordLabels \subseteq DataLabels
  BY DEF DataLabels, RecordLabels, DelLabels
<1>6. ASSUME NEW p \in Proc PROVE HandleOK(p)
  BY <1>5, ScratchOK DEF Init, HandleOK, Scratch, DataLabels
<1> QED BY <1>2, <1>3, <1>4, <1>6 DEF FileInv

LEMMA StepFileInv ==
  ASSUME NEW p \in Proc, LockInv, FileInv, Begin(p) \/ Step(p) \/ Reopen(p) \/ Crash(p)
  PROVE  FileInv'
<1>1. CASE Begin(p) \/ Reopen(p) \/ UnlockChain(p) \/ ScanUnlock(p)
  BY <1>1, BeginFileInv
<1>2. CASE FindStep(p) \/ FetchData(p)
  BY <1>2, LookupFileInv DEF FindStep
<1>3. CASE DeleteStep(p)
  BY <1>3, DeleteFileInv
<1>4. CASE FreeStep(p)
  BY <1>4, FreeFileInv
<1>5. CASE StoreStep(p)
  <2>1. CASE DatFull(p) \/ IdxFull(p) \/ LinkRefused(p)
    BY <2>1, ExitFileInv DEF DatFull, IdxFull, LinkRefused
  <2>2. CASE DatAppend(p) \/ IdxAppend(p)
    BY <2>2, AppendFileInv
  <2>3. CASE ReadHead(p)
    BY <2>3, FreeFileInv
  <2> QED BY <1>5, <2>1, <2>2, <2>3, StoreFileInv DEF StoreStep
<1>6. CASE ScanStep(p)
  <2>1. CASE ScanMisaligned(p)
    BY <2>1, ExitFileInv DEF ScanMisaligned
  <2> QED BY <1>1, <1>6, <2>1, ScanFileInv DEF ScanStep
<1>7. CASE Crash(p)
  BY <1>7, ExitFileInv DEF Crash
<1> QED BY <1>1, <1>2, <1>3, <1>4, <1>5, <1>6, <1>7 DEF Step

LEMMA NextFileInv == LockInv /\ FileInv /\ [KillNext]_vars => FileInv'
<1> SUFFICES ASSUME LockInv, FileInv, [KillNext]_vars PROVE FileInv'
  OBVIOUS
<1>1. CASE KillNext
  <2> PICK p \in Proc : Begin(p) \/ Step(p) \/ Reopen(p) \/ Crash(p)
    BY <1>1 DEF KillNext, Next
  <2> QED BY StepFileInv
<1>2. CASE UNCHANGED vars
  <2>1. UNCHANGED <<ptr, rec, idxsize, dat, datsize, pc, db, pos, ret, kv>>
    BY <1>2 DEF vars, files
  <2> QED BY <2>1 DEF FileInv, FileType, HandleType, PointersValid, HandleOK, Ref, Written
<1> QED BY <1>1, <1>2

\* However calls of any number of processes interleave, and wherever processes are
\* killed, every chain pointer that db.c reads from the index file is 0 or leads to
\* a record that has been written, every index record leads to data that has been
\* written, and every variable keeps its type.
THEOREM PointerSafety == KillSpec => [](TypeOK /\ PointersValid)
<1>1. Init => DbIInv
  BY InitLockInv, InitFileInv DEF DbIInv
<1>2. DbIInv /\ [KillNext]_vars => DbIInv'
  BY NextLockInv, NextFileInv DEF DbIInv
<1>3. DbIInv => TypeOK /\ PointersValid
  BY DEF DbIInv, LockInv, FileInv, TypeOK
<1> QED BY <1>1, <1>2, <1>3, PTL DEF KillSpec

\* Every variable of the model keeps its type, for any number of processes, keys,
\* chains and values: in particular no pointer, length or lock range of db.c leaves
\* its domain, with kills at any point.
THEOREM DbTyped == KillSpec => []TypeOK
BY PointerSafety, PTL

-----------------------------------------------------------------------------
(* Places of the index file, and the lists a process looks at.              *)

LEMMA Places ==
  /\ FREE_OFF \in 0 .. NHash /\ FREE_OFF = 0
  /\ \A a \in 0 .. NHash : a \in Offsets /\ a \notin Records /\ a # NoList
  /\ \A o \in Records : o \in Offsets /\ o \in Nat /\ o # 0 /\ o \notin 0 .. NHash
  /\ \A o \in Offsets : o \in Nat /\ (o \notin Records => o \in 0 .. NHash)
  /\ \A k \in Keys : Hash[k] \in Chains /\ Hash[k] \in 0 .. NHash /\ Hash[k] # FREE_OFF
  /\ \A c \in Chains : c \in 0 .. NHash /\ c # FREE_OFF
  /\ \A a \in 0 .. NHash : a # FREE_OFF => a \in Chains
  /\ NoList \notin 0 .. NHash /\ NoList \in NoList .. NHash
<1>1. NHash \in Nat \ {0} /\ IdxCap \in Nat /\ NHash <= IdxCap /\ Hash \in [Keys -> 1 .. NHash]
  BY DbConstants
<1> QED BY <1>1 DEF FREE_OFF, Offsets, Records, RecOff, NoList, Chains

LEMMA InKeys ==
  ASSUME NEW p \in Proc, LockInv, InChain(p)
  PROVE  call[p].key \in Keys /\ chainoff(p) \in Chains /\ chainoff(p) \in 0 .. NHash
         /\ chainoff(p) # FREE_OFF /\ chainoff(p) # NoList
BY Places DEF LockInv, CallOK, chainoff

LEMMA TornInChain ==
  ASSUME NEW p \in Proc, LockInv, Torn(p)
  PROVE  InChain(p) /\ ChangesFree(p) /\ call[p].op # "fetch"
BY DEF LockInv, CallOK, Torn, InChain, OutLabels, ChangesFree, FreeLabels, DelLabels

LEMMA BetweenInChain ==
  ASSUME NEW p \in Proc, LockInv, MapPlace(p), Between(p)
  PROVE  InChain(p) /\ call[p].op # "fetch" /\ call[p].key \in Keys
<1>1. CASE Torn(p)
  BY <1>1, TornInChain, InKeys
<1>2. CASE ~Torn(p)
  <2>1. pc[p] \in GoneLabels /\ call[p].op = "store"
    BY <1>2 DEF Between, MapPlace
  <2>2. InChain(p)
    BY <2>1 DEF GoneLabels, InChain, OutLabels
  <2> QED BY <2>1, <2>2, InKeys
<1> QED BY <1>1, <1>2

\* The place after one on the chain that p is walking along.
LEMMA Following ==
  ASSUME NEW own, NEW nx, NEW rank, Shape(own, nx, rank),
         NEW a \in 0 .. NHash, NEW o \in Offsets, own[o] = a, nx[o] # 0
  PROVE  nx[o] \in Records /\ nx[o] \in Offsets /\ own[nx[o]] = a /\ rank[nx[o]] < rank[o]
         /\ \A x \in Offsets : own[x] = a /\ rank[x] < rank[o] /\ x # nx[o] => rank[x] < rank[nx[o]]
<1>1. a # NoList /\ rank \in [Offsets -> Nat]
  BY Places DEF Shape
<1>2. nx[o] \in Records /\ nx[o] \in Offsets /\ own[nx[o]] = a /\ rank[nx[o]] < rank[o]
  BY <1>1, Places DEF Shape
<1>3. ASSUME NEW x \in Offsets, own[x] = a, rank[x] < rank[o], x # nx[o] PROVE rank[x] < rank[nx[o]]
  <2>1. rank[x] <= rank[nx[o]]
    BY <1>1, <1>3 DEF Shape
  <2>2. rank[x] # rank[nx[o]]
    BY <1>1, <1>2, <1>3 DEF Shape
  <2>3. rank[x] \in Nat /\ rank[nx[o]] \in Nat
    BY <1>1, <1>2
  <2> QED BY <2>1, <2>2, <2>3
<1> QED BY <1>2, <1>3

\* In short: it is another record of the same list.
LEMMA FollowingOne ==
  ASSUME NEW own, NEW nx, NEW rank, Shape(own, nx, rank),
         NEW a \in 0 .. NHash, NEW o \in Offsets, NEW r, own[o] = a, nx[o] = r, r # 0
  PROVE  own[r] = a /\ r \in Records /\ r # o
<1>1. nx[o] \in Records /\ own[nx[o]] = a /\ rank[nx[o]] < rank[o]
  BY Following
<1>2. rank[o] \in Nat
  BY DEF Shape
<1> QED BY <1>1, <1>2

\* What the invariant says of a process that is to write the index file.
LEMMA AtWork ==
  ASSUME NEW p \in Proc, LockInv, FileInv, NEW own, NEW nx, NEW rank, ListInv(own, nx, rank),
         pc[p] \in DelLabels \cup StoreLabels
  PROVE  /\ Shape(own, nx, rank) /\ OnFile(own, nx) /\ FileType
         /\ FindPlace(p, own, nx, rank) /\ DeletePlace(p, own, nx) /\ StorePlace(p, own, nx)
         /\ db \in [Proc -> Handles] /\ pc \in [Proc -> Labels] /\ db[p] \in Handles
         /\ db[p].ptroff \in Offsets /\ db[p].save \in Offsets
         /\ ptr \in [Offsets -> Offsets] /\ DOMAIN rec = Records
         /\ own \in [Offsets -> NoList .. NHash] /\ nx \in [Offsets -> Offsets] /\ rank \in [Offsets -> Nat]
         /\ InChain(p) /\ call[p].op # "fetch" /\ call[p].key \in Keys
         /\ chainoff(p) \in Chains /\ chainoff(p) \in 0 .. NHash /\ chainoff(p) \in Offsets
         /\ chainoff(p) # FREE_OFF /\ chainoff(p) # NoList /\ chainoff(p) \notin Records
         /\ own[chainoff(p)] = chainoff(p) /\ own[FREE_OFF] = FREE_OFF
         /\ FREE_OFF \in Offsets /\ FREE_OFF \notin Records /\ FREE_OFF # NoList /\ FREE_OFF \in 0 .. NHash
<1>1. InChain(p) /\ call[p].op # "fetch"
  BY DEF InChain, OutLabels, DelLabels, StoreLabels, LockInv, CallOK
<1>2. /\ Shape(own, nx, rank) /\ OnFile(own, nx) /\ Place(p, own, nx, rank) /\ FileType
      /\ db \in [Proc -> Handles] /\ pc \in [Proc -> Labels] /\ db[p] \in Handles
  BY DEF ListInv, FileInv, HandleType, LockInv, LockType
<1>3. db[p].ptroff \in Offsets /\ db[p].save \in Offsets
  BY <1>2 DEF Handles
<1>4. ptr \in [Offsets -> Offsets] /\ DOMAIN rec = Records
  BY <1>2 DEF FileType
<1>5. own \in [Offsets -> NoList .. NHash] /\ nx \in [Offsets -> Offsets] /\ rank \in [Offsets -> Nat]
  BY <1>2 DEF Shape
<1>6. /\ chainoff(p) \in Chains /\ chainoff(p) \in 0 .. NHash /\ call[p].key \in Keys
      /\ chainoff(p) # FREE_OFF /\ chainoff(p) # NoList
  BY <1>1, InKeys
<1>7. \A c \in 0 .. NHash : own[c] = c
  BY <1>2 DEF Shape
<1> QED BY <1>1, <1>2, <1>3, <1>4, <1>5, <1>6, <1>7, Places DEF Place

\* Nobody else holds a record that is on a list, or the one that p holds.
LEMMA HoldElsewhere ==
  ASSUME NEW p \in Proc, NEW q \in Proc \ {p}, NEW own, NEW nx, NEW rank, ListInv(own, nx, rank),
         pc[q] \in HoldLabels
  PROVE  /\ \A o \in Offsets : own[o] # NoList => db[q].idxoff # o
         /\ pc[p] \in HoldLabels => db[q].idxoff # db[p].idxoff
<1>1. own[db[q].idxoff] = NoList
  BY DEF ListInv, Place, StorePlace
<1> QED BY <1>1 DEF ListInv, HoldApart

-----------------------------------------------------------------------------
(* The invariants together, and what they give.                             *)

\* What all the invariants say together.
AllInv(own, nx, rank) == LockInv /\ FileInv /\ DataInv /\ ListInv(own, nx, rank) /\ MapInv(own)

BlankLabels == {"delfree", "delidx"}

MapLists == \E own, nx, rank : ListInv(own, nx, rank) /\ MapInv(own) /\ Whole(own)

\* A key that the walk along its whole chain has not met is not in the map.
LEMMA MissNone ==
  ASSUME NEW p \in Proc, NEW own, NEW nx, NEW rank, AllInv(own, nx, rank),
         pc[p] = "findrec", db[p].offset = 0
  PROVE  kv[call[p].key] = None
<1>1. LockInv /\ ListInv(own, nx, rank) /\ Kept(own) /\ \A q \in Proc : MapPlace(q)
  BY DEF AllInv, MapInv
<1>2. InChain(p) /\ call[p].key \in Keys /\ chainoff(p) # NoList
  <2>1. InChain(p)
    BY DEF InChain, OutLabels
  <2> QED BY <1>1, <2>1, InKeys
<1>3. ASSUME NEW o \in Records, own[o] = Hash[call[p].key], rec[o].key = call[p].key PROVE FALSE
  <2>1. /\ own[db[p].ptroff] = chainoff(p) /\ nx[db[p].ptroff] = 0 /\ own[o] = chainoff(p)
        /\ rank[o] < rank[db[p].ptroff]
    BY <1>1, <1>3 DEF ListInv, Place, FindPlace, chainoff
  <2>2. db[p].ptroff \in Offsets /\ o \in Offsets
    BY Before, Places DEF AllInv, Handles
  <2> QED BY <1>1, <1>2, <2>1, <2>2 DEF ListInv, Shape
<1>4. ASSUME NEW q \in Proc, Between(q), call[q].key = call[p].key PROVE FALSE
  <2>1. InChain(q) /\ call[q].op # "fetch"
    BY <1>1, <1>4, BetweenInChain
  <2>2. ~Between(p)
    BY <1>1 DEF Between, Torn, MapPlace, GoneLabels
  <2> QED BY <1>1, <1>2, <1>4, <2>1, <2>2, LockInvExcludes DEF ChainExclusion, chainoff
<1> QED BY <1>1, <1>2, <1>3, <1>4 DEF Kept

LEMMA WrittenData ==
  ASSUME FileInv, NEW o \in Written
  PROVE  rec[o].datoff \in 1 .. datsize - 1 /\ rec[o].datoff \in 1 .. DatCap /\ rec[o].datoff # datsize
<1>1. FileType /\ rec[o].datoff \in 1 .. datsize - 1
  BY DEF FileInv, PointersValid, Written
<1> QED BY <1>1, DataIn

LEMMA HandleData ==
  ASSUME NEW q \in Proc, FileInv
  PROVE  /\ pc[q] \in AgreeLabels => db[q].idxoff \in Written
         /\ pc[q] \in AgreeLabels \cup AppendedLabels =>
              db[q].datoff \in 1 .. datsize - 1 /\ db[q].datoff \in 1 .. DatCap /\ db[q].datoff # datsize
<1>1. pc[q] \in AgreeLabels => pc[q] \in RecordLabels
  BY DEF AgreeLabels, FoundLabels, TakenLabels, NewLabels, RecordLabels, DelLabels
<1>2. HandleOK(q) /\ FileType
  BY DEF FileInv
<1>3. pc[q] \in AgreeLabels \cup AppendedLabels => db[q].datoff \in 1 .. datsize - 1
  BY <1>1, <1>2 DEF HandleOK, AppendedLabels
<1> QED BY <1>1, <1>2, <1>3, DataIn DEF HandleOK

\* The data record that p writes over is nobody else's.
LEMMA DataElsewhere ==
  ASSUME NEW p \in Proc, NEW own, NEW nx, NEW rank, AllInv(own, nx, rank),
         pc[p] \in {"delblank", "overwrite", "reuse"}
  PROVE  /\ db[p].idxoff \in Records
         /\ \A q \in Proc \ {p} : pc[q] \in FilledLabels => db[q].datoff # db[p].datoff
         /\ \A o \in Records : own[o] # NoList /\ o # db[p].idxoff => rec[o].datoff # db[p].datoff
         /\ pc[p] # "reuse" => own[db[p].idxoff] = chainoff(p) /\ rec[db[p].idxoff].key = call[p].key
         /\ pc[p] = "reuse" => own[db[p].idxoff] = NoList
         /\ rec[db[p].idxoff].datoff = db[p].datoff /\ db[p].datoff \in 1 .. DatCap
<1> DEFINE r == db[p].idxoff
<1>1. LockInv /\ FileInv /\ DataInv /\ ListInv(own, nx, rank)
  BY DEF AllInv
<1>2. pc[p] \in DelLabels \cup StoreLabels /\ pc[p] \in AgreeLabels /\ (pc[p] # "reuse" => pc[p] \in FoundLabels)
      /\ (pc[p] = "reuse" => pc[p] \in HoldLabels)
  BY DEF DelLabels, StoreLabels, AgreeLabels, FoundLabels, TakenLabels, HoldLabels
<1>3. r \in Written /\ r \in Records /\ rec[r].datoff = db[p].datoff /\ db[p].datoff \in 1 .. DatCap
  <2>1. r \in Written /\ db[p].datoff \in 1 .. DatCap
    BY <1>1, <1>2, HandleData
  <2>2. rec[r].datoff = db[p].datoff
    BY <1>1, <1>2 DEF DataInv, DataPlace
  <2> QED BY <1>1, <2>1, <2>2, WrittenOffsets DEF FileInv
<1>4. pc[p] # "reuse" => own[r] = chainoff(p) /\ rec[r].key = call[p].key /\ own[r] # NoList
  <2> SUFFICES ASSUME pc[p] # "reuse" PROVE own[r] = chainoff(p) /\ rec[r].key = call[p].key /\ own[r] # NoList
    OBVIOUS
  <2>1. /\ own[db[p].ptroff] = chainoff(p) /\ nx[db[p].ptroff] = r /\ rec[r].key = call[p].key
    BY <1>1, <1>2 DEF ListInv, Place, FindPlace
  <2>2. db[p].ptroff \in Offsets /\ chainoff(p) \in 0 .. NHash /\ Shape(own, nx, rank) /\ chainoff(p) # NoList
    BY <1>1, <1>2, AtWork
  <2>3. r # 0
    BY <1>3, Places
  <2>4. own[r] = chainoff(p)
    BY <2>1, <2>2, <2>3, FollowingOne
  <2> QED BY <2>1, <2>2, <2>4
<1>5. pc[p] = "reuse" => own[r] = NoList
  BY <1>1, <1>2 DEF ListInv, Place, StorePlace
<1>6. ASSUME NEW o \in Written, o # r PROVE rec[o].datoff # db[p].datoff
  <2>1. DataUnshared
    BY <1>1 DEF DataInv
  <2> QED BY <1>3, <1>6, <2>1 DEF DataUnshared, Written
<1>7. ASSUME NEW q \in Proc \ {p}, pc[q] \in FilledLabels PROVE db[q].datoff # db[p].datoff
  <2>1. pc[q] \in HoldLabels /\ pc[q] \in AgreeLabels
    BY <1>7 DEF FilledLabels, HoldLabels, TakenLabels, NewLabels, AgreeLabels
  <2>2. db[q].idxoff \in Written /\ rec[db[q].idxoff].datoff = db[q].datoff
    BY <1>1, <2>1, HandleData DEF DataInv, DataPlace
  <2>3. db[q].idxoff # r
    BY <1>1, <1>2, <1>3, <1>4, <2>1, HoldElsewhere, Places
  <2> QED BY <1>6, <2>2, <2>3
<1>8. \A o \in Records : own[o] # NoList => o \in Written
  BY <1>1 DEF ListInv, OnFile
<1> QED BY <1>3, <1>4, <1>5, <1>6, <1>7, <1>8

-----------------------------------------------------------------------------
(* What a step of one process leaves alone.                                 *)

\* A step of p to label l that leaves its handle as h.
StepTo(p, l, h) ==
  /\ pc' = [pc EXCEPT ![p] = l] /\ db' = [db EXCEPT ![p] = h]
  /\ \A q \in Proc \ {p} : call'[q] = call[q]

LEMMA StepToAt ==
  ASSUME NEW p \in Proc, NEW l, NEW h, LockInv, FileInv, StepTo(p, l, h)
  PROVE  /\ pc'[p] = l /\ db'[p] = h
         /\ \A q \in Proc \ {p} : pc'[q] = pc[q] /\ db'[q] = db[q] /\ call'[q] = call[q]
BY DEF StepTo, LockInv, LockType, FileInv, HandleType

\* Steps that leave the records and the data as they are.
SameData == rec' = rec /\ idxsize' = idxsize /\ dat' = dat

\* A process that keeps its label or its handle.
LEMMA StayPut ==
  ASSUME NEW p \in Proc, LockInv, FileInv
  PROVE  pc = [pc EXCEPT ![p] = pc[p]] /\ db = [db EXCEPT ![p] = db[p]]
BY DEF LockInv, LockType, FileInv, HandleType

\* A step of p touches nothing of the other processes.
LEMMA OthersStay ==
  ASSUME NEW p \in Proc, LockInv, FileInv, Begin(p) \/ Step(p) \/ Reopen(p)
  PROVE  \A q \in Proc \ {p} : pc'[q] = pc[q] /\ db'[q] = db[q] /\ call'[q] = call[q] /\ ret'[q] = ret[q]
<1>1. pc \in [Proc -> Labels] /\ db \in [Proc -> Handles] /\ call \in [Proc -> Calls] /\ DOMAIN ret = Proc
  BY DEF LockInv, LockType, FileInv, HandleType
<1>2. CASE Begin(p)
  <2>1. PICK c \in Menu[p] : Call(p, c) \/ StoreCall(p, c) \/ StoreBadFlag(p, c) \/ StoreBadLength(p, c) \/ Rewind(p, c)
    BY <1>2 DEF Begin
  <2> QED BY <1>1, <2>1 DEF Call, StoreCall, StoreBadFlag, StoreBadLength, Rewind, Exit, Goto, SetRet
<1>3. CASE Reopen(p) \/ UnlockChain(p) \/ FetchData(p)
  BY <1>1, <1>3 DEF Reopen, UnlockChain, FetchData, Goto, SetRet
<1>4. CASE FindStep(p)
  BY <1>1, <1>4 DEF FindStep, FindLock, FindPtr, FindNext, Found, NotFound, Goto, SetRet
<1>5. CASE DeleteStep(p)
  BY <1>1, <1>5 DEF DeleteStep, DelLock, DelBlank, DelFree, DelIdx, DelHead, DelUnlink, DelUnlock, Goto, SetRet
<1>6. CASE FreeStep(p)
  BY <1>1, <1>6 DEF FreeStep, FreeLock, FreePtr, FreeNext, FreeFound, FreeTake, FreeUnlock, Goto
<1>7. CASE StoreStep(p)
  <2>1. CASE ReadHead(p) \/ Overwrite(p) \/ Reuse(p) \/ IdxRewrite(p) \/ DatLock(p) \/ DatSeek(p) \/ DatAppend(p)
    BY <1>1, <2>1 DEF ReadHead, Overwrite, Reuse, IdxRewrite, DatLock, DatSeek, DatAppend, Goto, SetRet
  <2>2. CASE DatFull(p) \/ IdxFull(p) \/ LinkRefused(p)
    BY <1>1, <2>2 DEF DatFull, IdxFull, LinkRefused, Exit, Goto
  <2>3. CASE DatUnlock(p) \/ IdxLock(p) \/ IdxSeek(p) \/ IdxAppend(p) \/ IdxUnlock(p) \/ Link(p)
    BY <1>1, <2>3 DEF DatUnlock, IdxLock, IdxSeek, IdxAppend, IdxUnlock, Link, Goto, SetRet
  <2> QED BY <1>7, <2>1, <2>2, <2>3 DEF StoreStep
<1>8. CASE ScanStep(p)
  BY <1>1, <1>8 DEF ScanStep, ScanLock, ScanRecord, ScanEof, ScanMisaligned, ScanData, ScanUnlock, Exit, Goto, SetRet
<1> QED BY <1>2, <1>3, <1>4, <1>5, <1>6, <1>7, <1>8 DEF Step

=============================================================================
