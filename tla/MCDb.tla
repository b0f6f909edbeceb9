--------------------------------- MODULE MCDb ---------------------------------
(***************************************************************************)
(* Small instances of Db: two or three keys on one or two chains, data of   *)
(* two lengths, two or three processes, and the calls each may make.        *)
(***************************************************************************)
EXTENDS DbInv, DbAsMap, TLC

CONSTANTS k1, k2, k3, d1, d2, d3, dEmpty, p1, p2

\* k1 and k2 collide; k3 is alone on the last chain.
MCHash == [k \in Keys |-> IF k = k3 THEN NHash ELSE 1]

\* k2 is longer: its free records fit no other key.
MCKeyLen == [k \in Keys |-> IF k = k2 THEN 2 ELSE 1]

\* d1 and d3 have the same length, d2 another; dEmpty is the empty string.
MCDatLen == [d \in Data |-> IF d = dEmpty THEN 1 ELSE IF d = d2 THEN 3 ELSE 2]

Fetches(ks) == [op : {"fetch"}, key : ks, data : {None}, flag : {"other"}]

Deletes(ks) == [op : {"delete"}, key : ks, data : {None}, flag : {"other"}]

Stores(ks, ds, fs) == [op : {"store"}, key : ks, data : ds, flag : fs]

Scans1 == [op : {"nextrec", "rewind"}, key : {None}, data : {None}, flag : {"other"}]

\* Two processes that store in and delete from the same chain and another one.
WritersMenu ==
  (p1 :> Stores({k1}, {d1, d2}, {"DB_STORE"}) \cup Deletes({k2}))
  @@ (p2 :> Stores({k2, k3}, {d1}, {"DB_STORE"}))

\* One process stores with every flag, the other fetches, deletes, stores and scans.
MapMenu ==
  (p1 :> Stores({k1}, {d1, d2, d3}, {"DB_INSERT", "DB_REPLACE", "DB_STORE"}))
  @@ (p2 :> Fetches({k1}) \cup Deletes({k1}) \cup Stores({k2}, {d1}, {"DB_INSERT"}) \cup Scans1)

\* One process also scans between its own stores.
MixedMenu ==
  (p1 :> Stores({k1, k2}, {d1}, {"DB_STORE"}) \cup Scans1)
  @@ (p2 :> {})

\* Calls that fail: a bad flag, an empty data string, files that are full.
LimitsMenu ==
  (p1 :> Stores({k1, k2}, {d1, d2, dEmpty}, {"DB_STORE", "other"}) \cup Scans1)
  @@ (p2 :> Stores({k1}, {d2}, {"DB_REPLACE"}) \cup Fetches({k1, k2}) \cup Deletes({k2}))

\* Writers of two chains that are killed.
CrashMenu ==
  (p1 :> Stores({k1}, {d1, d2}, {"DB_STORE"}))
  @@ (p2 :> Stores({k3}, {d1}, {"DB_STORE"}) \cup Deletes({k1}))

=============================================================================
