-------------------------------- MODULE DbAsMap --------------------------------
(***************************************************************************)
(* The library seen as the map of DbMap: the map is kv, the answers are     *)
(* ret, and a process that has died is in no call.                          *)
(***************************************************************************)
EXTENDS Db

AbstractCall == [p \in Proc |-> IF pc[p] = "dead" THEN NoCall ELSE call[p]]

Map == INSTANCE DbMap WITH call <- AbstractCall

\* Between its start and its return every call takes effect at one instant on one
\* shared map, and returns what the map says (db_fetch, db_store, db_delete).
ImplementsMap == Map!Spec

=============================================================================
