------------------------------ MODULE MCCluster ------------------------------
(***************************************************************************)
(* Small clusters of five nodes: masters a, b, c with s and t as slaves of  *)
(* a, or five masters with a slot each.                                     *)
(***************************************************************************)
EXTENDS Cluster, TLC

CONSTANTS a, b, c, s, t

MCName == (a :> 2) @@ (b :> 4) @@ (c :> 5) @@ (s :> 1) @@ (t :> 3)

ThreeMasters == [n \in Node |-> IF n \in {s, t} THEN a ELSE None]

ThreeOwners == <<a, b, c, b, c>>

ThreeEpochs == (a :> 1) @@ (b :> 2) @@ (c :> 3) @@ (s :> 0) @@ (t :> 0)

FiveMasters == [n \in Node |-> None]

FiveOwners == <<a, b, c, s, t>>

FiveEpochs == (a :> 1) @@ (b :> 2) @@ (c :> 3) @@ (s :> 4) @@ (t :> 5)

AllFine == [n \in Node |-> "ok"]

NoCommands == [n \in Node |-> {}]

Between(nodes) == {p \in nodes \X nodes : p[1] # p[2]}

\* Nothing happens but what a scenario adds.
Quiet ==
  [master |-> ThreeMasters, owner |-> ThreeOwners, epoch |-> ThreeEpochs,
   flags |-> AllFine, down |-> {}, suspect |-> {}, admin |-> NoCommands, restartable |-> {},
   lateVotes |-> FALSE, expiring |-> TRUE, links |-> {}, maxEpoch |-> 3, maxBeats |-> 0]

\* a has crashed and everybody knows: s and t ask b and c for their votes.
Election ==
  [Quiet EXCEPT !.flags[a] = "fail", !.down = {a}, !.maxEpoch = 5]

\* a crashes; b, c and s find out.
Detection ==
  [Quiet EXCEPT !.down = {a, t}, !.suspect = {a}, !.expiring = FALSE,
                !.links = Between({b, c, s}), !.maxBeats = 1]

\* One of five masters is down, and a is slow to answer: b hears what c and s think of it.
Slow ==
  [Quiet EXCEPT !.master = FiveMasters, !.owner = FiveOwners, !.epoch = FiveEpochs,
                !.down = {t}, !.suspect = {a},
                !.links = {<<b, a>>, <<c, a>>, <<s, a>>, <<b, c>>, <<b, s>>}, !.maxEpoch = 5, !.maxBeats = 1]

\* a crashes, b and c find out, and s replaces it.
Failover ==
  [Quiet EXCEPT !.down = {a, t}, !.suspect = {a}, !.links = {<<b, c>>}, !.maxEpoch = 4, !.maxBeats = 1]

\* s and t are told to take over from a, which is up.
Takeovers ==
  [Quiet EXCEPT !.down = {b, c}, !.admin[s] = {"takeover"}, !.admin[t] = {"takeover"},
                !.links = Between({a, s, t}), !.maxEpoch = 4, !.maxBeats = 1]

\* s is forced to replace a, and restarted on the way; b takes a new epoch.
Forced ==
  [Quiet EXCEPT !.down = {t}, !.admin[s] = {"force"}, !.admin[b] = {"bumpepoch"},
                !.restartable = {s}, !.maxEpoch = 5]

\* One of the voters may be restarted.
Voters ==
  [Election EXCEPT !.restartable = {b, c}, !.maxEpoch = 4]

Regular == {Election, Detection, Slow, Failover, Takeovers, Forced}
Restarts == {Voters}

=============================================================================
