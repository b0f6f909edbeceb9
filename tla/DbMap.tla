--------------------------------- MODULE DbMap ---------------------------------
(***************************************************************************)
(* What the library promises its callers: a map from keys to data on which  *)
(* every call takes effect at one instant between its start and its return. *)
(***************************************************************************)
EXTENDS Integers

CONSTANTS Proc, Keys, Data, Menu, NoCall, None

VARIABLES
  kv,     \* the map
  call,   \* the call each process is in, NoCall between calls
  ret     \* what the last call returned, Pending until a call takes effect

vars == <<kv, call, ret>>

Result(code, k, d) == [code |-> code, key |-> k, data |-> d]

Pending == Result(2, None, None)

Init ==
  /\ kv = [k \in Keys |-> None]
  /\ call = [p \in Proc |-> NoCall]
  /\ ret = [p \in Proc |-> Result(0, None, None)]

Begin(p, c) ==
  /\ call[p] = NoCall
  /\ call' = [call EXCEPT ![p] = c]
  /\ ret' = [ret EXCEPT ![p] = Pending]
  /\ UNCHANGED kv

\* A db_store with an invalid flag fails at once.
Reject(p) ==
  /\ call[p] = NoCall
  /\ ret' = [ret EXCEPT ![p] = Result(-1, None, None)]
  /\ UNCHANGED <<kv, call>>

Answer(p, r) ==
  /\ call[p] # NoCall /\ ret[p] = Pending
  /\ ret' = [ret EXCEPT ![p] = r]
  /\ UNCHANGED call

Fetch(p) ==
  LET k == call[p].key
  IN  /\ call[p].op = "fetch"
      /\ Answer(p, Result(IF kv[k] = None THEN -1 ELSE 0, None, kv[k]))
      /\ UNCHANGED kv

Delete(p) ==
  LET k == call[p].key
  IN  /\ call[p].op = "delete"
      /\ Answer(p, Result(IF kv[k] = None THEN -1 ELSE 0, None, None))
      /\ kv' = [kv EXCEPT ![k] = None]

\* A new key is stored unless DB_REPLACE, a present one replaced unless DB_INSERT.
Store(p) ==
  LET k == call[p].key
  IN  /\ call[p].op = "store"
      /\ CASE kv[k] = None /\ call[p].flag = "DB_REPLACE" ->
                Answer(p, Result(-1, None, None)) /\ UNCHANGED kv
           [] kv[k] # None /\ call[p].flag = "DB_INSERT" ->
                Answer(p, Result(1, None, None)) /\ UNCHANGED kv
           [] OTHER ->
                Answer(p, Result(0, None, None)) /\ kv' = [kv EXCEPT ![k] = call[p].data]

\* A scan answers with some key and data of the map or of a store in progress.
Nextrec(p) ==
  /\ call[p].op = "nextrec"
  /\ \/ Answer(p, Result(-1, None, None))
     \/ \E k \in Keys, d \in Data :
          /\ kv[k] = d \/ \E q \in Proc : call[q].op = "store" /\ call[q].key = k /\ call[q].data = d
          /\ Answer(p, Result(0, k, d))
  /\ UNCHANGED kv

Return(p) ==
  /\ call[p] # NoCall /\ ret[p] # Pending
  /\ call' = [call EXCEPT ![p] = NoCall]
  /\ UNCHANGED <<kv, ret>>

\* The process ends inside its call.  A store may take the old record with it.
Abort(p) ==
  /\ call[p] # NoCall
  /\ call' = [call EXCEPT ![p] = NoCall]
  /\ \/ UNCHANGED kv
     \/ call[p].op = "store" /\ kv' = [kv EXCEPT ![call[p].key] = None]
  /\ UNCHANGED ret

Next ==
  \E p \in Proc :
    \/ \E c \in Menu[p] : Begin(p, c)
    \/ Reject(p) \/ Fetch(p) \/ Delete(p) \/ Store(p) \/ Nextrec(p) \/ Return(p) \/ Abort(p)

Spec == Init /\ [][Next]_vars

=============================================================================
