------------------------------- MODULE Cluster -------------------------------
(***************************************************************************)
(* The Redis Cluster bus (redis/src/cluster.c): what every node believes    *)
(* about every other node, the heartbeats that spread it, failure           *)
(* detection, the election of a slave, and the configuration of the slots.  *)
(*                                                                          *)
(* Every node n has its own view[n] of the cluster, server.cluster of that  *)
(* process.  A packet handler and the clusterBeforeSleep that follows it    *)
(* are one step: a reply only leaves the process in a later iteration of    *)
(* its event loop.  Clocks are left out: whatever depends on one (a ping    *)
(* that is not answered, an election that expires) may happen at any time.  *)
(* The set of nodes is fixed: no handshake, no CLUSTER FORGET or RESET.     *)
(***************************************************************************)
EXTENDS Integers, FiniteSets, FiniteSetsExt

CONSTANTS
  Node,          \* the nodes, all of which know each other
  NSlots,        \* CLUSTER_SLOTS
  None,          \* a NULL clusterNode pointer
  Name,          \* [Node -> Nat]: the order of the node IDs under memcmp
  Scenarios      \* the environments considered, see Scenario below

Slot == 1 .. NSlots

Flag == {"ok", "pfail", "fail"}

Commands == {"takeover", "force", "bumpepoch"}

\* An environment: a configured cluster, what may happen to its nodes, and the bounds of
\* the exploration.
Scenario ==
  [master : [Node -> Node \cup {None}],\* the node a slave replicates at the start
   owner : [Slot -> Node],           \* who serves a slot at the start
   epoch : [Node -> Nat],            \* the config epochs every node knows at the start
   flags : [Node -> Flag],           \* what all others think of a node at the start
   down : SUBSET Node,               \* nodes that have crashed for good
   suspect : SUBSET Node,            \* nodes whose answers may be late
   admin : [Node -> SUBSET Commands],\* commands a node may be given
   restartable : SUBSET Node,        \* nodes that may be killed and started again
   lateVotes : BOOLEAN,              \* a vote may arrive after the election is retried
   expiring : BOOLEAN,               \* a failure report may get too old before it is renewed
   links : SUBSET (Node \X Node),    \* links that carry PINGs and broadcast PONGs
   maxEpoch : Nat,                   \* bound on the epochs
   maxBeats : Nat]                   \* bound on the PING and PONG packets in flight

ASSUME ClusterAssumption ==
  /\ IsFiniteSet(Node) /\ None \notin Node
  /\ NSlots \in Nat
  /\ Name \in [Node -> Nat]
  /\ Scenarios \subseteq Scenario
  /\ \A x \in Scenarios, n \in Node : x.master[n] # n /\ <<n, n>> \notin x.links
  /\ \A x \in Scenarios, s \in Slot : x.master[x.owner[s]] = None

VARIABLES
  currentEpoch,  \* server.cluster->currentEpoch
  lastVoteEpoch, \* server.cluster->lastVoteEpoch
  view,          \* the clusterNode structures and the slots table
  auth,          \* failover_auth_sent, _epoch, _count, mf_can_start; history: whose votes
  booting,       \* nodes in the CLUSTER_WRITABLE_DELAY after their start
  disk,          \* the "vars" line of nodes.conf
  net,           \* packets sent and not received
  suspected,     \* history: <<n, m>> when n has timed out waiting for m
  granted,       \* history: <<voter, epoch, candidate>>
  won,           \* history: <<winner, epoch, votes needed>>
  env            \* the scenario, which never changes

vars == <<currentEpoch, lastVoteEpoch, view, auth, booting, disk, net,
          suspected, granted, won, env>>

-----------------------------------------------------------------------------
(* Reading a view.  A node is a slave exactly when its slaveof is not NULL. *)

IsMaster(v, m) == v.slaveof[m] = None

SlotsOf(v, m) == {s \in Slot : v.slots[s] = m}

\* server.cluster->size: the masters that serve at least one slot.
Size(v) == Cardinality({m \in Node : IsMaster(v, m) /\ SlotsOf(v, m) # {}})

\* The size is a field that clusterUpdateState refreshes after a handler, so that a handler
\* finds the one of the view it starts from.  The initial size of 1 stays in place while a
\* master boots.
NeededQuorum(n) ==
  (IF n \in booting /\ IsMaster(view[n], n) THEN 1 ELSE Size(view[n])) \div 2 + 1

MasterOf(v, m) == IF IsMaster(v, m) THEN m ELSE v.slaveof[m]

-----------------------------------------------------------------------------
(* Packets *)

\* clusterBuildMessageHdr: a slave sends the slots and the epoch of its master.
Header(n, v, e, type, to) ==
  [type |-> type, from |-> n, to |-> to, currentEpoch |-> e,
   configEpoch |-> v.configEpoch[MasterOf(v, n)], slots |-> SlotsOf(v, MasterOf(v, n)),
   slaveof |-> v.slaveof[n], failing |-> {}, fine |-> {},
   about |-> None, aboutEpoch |-> 0, aboutSlots |-> {}, force |-> FALSE]

\* clusterSendPing: the gossip section lists nodes picked at random, and all in PFAIL.
Beat(n, v, e, type, to, picked) ==
  [Header(n, v, e, type, to) EXCEPT
     !.failing = {m \in Node : v.flags[m] = "pfail" \/ (v.flags[m] = "fail" /\ m \in picked)},
     !.fine = {m \in picked : v.flags[m] = "ok"}]

\* Only what it says of a suspected node makes a difference.
Picks(n) == SUBSET (env.suspect \ {n})

Beats == {m \in net : m.type \in {"ping", "pong", "bcast"}}

\* At most one UPDATE is in flight; it is not sent when there is no link.
Updates == {m \in net : m.type = "update"}

Others(n) == Node \ {n}

\* clusterBroadcastPong: the nodes in to whose links are up get a PONG.
BroadcastPong(n, v, e, links) == {Beat(n, v, e, "bcast", m, {}) : m \in links}

\* Links that are up, as far as the packets in flight leave room.
SomeLinks(n, to) ==
  {l \in SUBSET {m \in to : <<n, m>> \in env.links} : Cardinality(l) + Cardinality(Beats) <= env.maxBeats}

-----------------------------------------------------------------------------
(* Changes of a view *)

\* The start of clusterProcessPacket: newer epochs of a known sender.
SeeEpochs(v, m) ==
  [v EXCEPT !.configEpoch[m.from] = Max({@, m.configEpoch})]

SetNodeAsMaster(v, m) == [v EXCEPT !.slaveof[m] = None]

DelNodeSlots(v, m) == [v EXCEPT !.slots = [s \in Slot |-> IF @[s] = m THEN None ELSE @[s]]]

\* Mutant: a master that became a slave keeps its slots.
SwitchRoleKeepsSlots(v, m) ==
  IF m.slaveof = None
  THEN SetNodeAsMaster(v, m.from)
  ELSE [v EXCEPT !.slaveof[m.from] = m.slaveof]

\* The role switch of clusterProcessPacket.
SwitchRole(v, m) ==
  IF m.slaveof = None
  THEN SetNodeAsMaster(v, m.from)
  ELSE [(IF IsMaster(v, m.from) THEN DelNodeSlots(v, m.from) ELSE v)
          EXCEPT !.slaveof[m.from] = m.slaveof]

\* Mutant: the epochs are compared the wrong way.
CollisionMissed(n, v, m) ==
  /\ IsMaster(v, n) /\ IsMaster(v, m.from)
  /\ m.configEpoch > v.configEpoch[n]
  /\ v.configEpoch[m.from] = v.configEpoch[n]
  /\ Name[m.from] > Name[n]

\* clusterHandleConfigEpochCollision: the node with the smaller ID takes a new epoch.
HandleConfigEpochCollision(n, v, m) ==
  /\ IsMaster(v, n) /\ IsMaster(v, m.from)
  /\ m.configEpoch = v.configEpoch[n]
  /\ v.configEpoch[m.from] = v.configEpoch[n]
  /\ Name[m.from] > Name[n]

\* Mutant: an owner with the same epoch loses the slot too.
UpdateSlotsConfigWithTie(n, v, sender, epoch, slots) ==
  LET curmaster == MasterOf(v, n)
      taken == {s \in slots : /\ v.slots[s] # sender
                              /\ \/ v.slots[s] = None
                                 \/ v.configEpoch[v.slots[s]] <= epoch}
      bound == [v EXCEPT !.slots = [s \in Slot |-> IF s \in taken THEN sender ELSE @[s]]]
      newmaster == \E s \in taken : v.slots[s] = curmaster
  IN  IF sender = n THEN v
      ELSE IF newmaster /\ SlotsOf(bound, curmaster) = {}
           THEN [bound EXCEPT !.slaveof[n] = sender]
           ELSE bound

\* clusterUpdateSlotsConfigWith, and the clusterSetMaster it may end in.
UpdateSlotsConfigWith(n, v, sender, epoch, slots) ==
  LET curmaster == MasterOf(v, n)
      taken == {s \in slots : /\ v.slots[s] # sender
                              /\ \/ v.slots[s] = None
                                 \/ v.configEpoch[v.slots[s]] < epoch}
      bound == [v EXCEPT !.slots = [s \in Slot |-> IF s \in taken THEN sender ELSE @[s]]]
      newmaster == \E s \in taken : v.slots[s] = curmaster
  IN  IF sender = n THEN v
      ELSE IF newmaster /\ SlotsOf(bound, curmaster) = {}
           THEN [bound EXCEPT !.slaveof[n] = sender]
           ELSE bound

\* The slots the sender, or its master, claims are not the ones I know.
Dirty(v, m) == SlotsOf(v, MasterOf(v, m.from)) # m.slots

ClaimSlots(n, v, m) ==
  IF IsMaster(v, m.from) /\ Dirty(v, m)
  THEN UpdateSlotsConfigWith(n, v, m.from, m.configEpoch, m.slots)
  ELSE v

\* clearNodeFailureIfNeeded and the PFAIL flag, when a node answers a PING.
\* old: the FAIL flag is older than CLUSTER_FAIL_UNDO_TIME_MULT timeouts.
ClearFailure(v, m, old) ==
  IF \/ v.flags[m] = "pfail"
     \/ v.flags[m] = "fail" /\ (old \/ ~IsMaster(v, m) \/ SlotsOf(v, m) = {})
  THEN [v EXCEPT !.flags[m] = "ok"]
  ELSE v

\* fail_reports is a list whose order nobody reads: <<x, k>> is the k-th report of x in it.
ReportsOf(l, x) == {f \in l : f[1] = x}

\* Mutant: the sender is not looked for in the list.
AddFailureReportAgain(l, x) == l \cup {<<x, Cardinality(ReportsOf(l, x)) + 1>>}

\* clusterNodeAddFailureReport: a sender that is in the list only gets a new timestamp.
AddFailureReport(l, x) == IF ReportsOf(l, x) # {} THEN l ELSE l \cup {<<x, 1>>}

\* clusterNodeDelFailureReport: one report of the sender is removed.
DelFailureReport(l, x) == l \ {<<x, Cardinality(ReportsOf(l, x))>>}

\* markNodeAsFailingIfNeeded: myself counts as a voter if it is a master.
MarksFailing(n, v, m) ==
  /\ v.flags[m] = "pfail"
  /\ Cardinality(v.reports[m]) + (IF IsMaster(v, n) THEN 1 ELSE 0) >= NeededQuorum(n)

\* clusterProcessGossipSection: only the reports of masters count.
\* expired: reports clusterNodeCleanupFailureReports finds too old.
Gossip(n, v, m, expired) ==
  LET heard == [v EXCEPT !.reports =
                  [x \in Node |-> IF x = n THEN @[x]
                                  ELSE IF x \in m.failing THEN AddFailureReport(@[x] \ expired, m.from)
                                  ELSE IF x \in m.fine THEN DelFailureReport(@[x], m.from)
                                  ELSE @[x]]]
      marked == {x \in m.failing \ {n} : MarksFailing(n, heard, x)}
  IN  IF IsMaster(v, m.from)
      THEN [view |-> [heard EXCEPT !.flags = [x \in Node |-> IF x \in marked THEN "fail" ELSE @[x]]],
            marked |-> marked]
      ELSE [view |-> v, marked |-> {}]

\* clusterSendFail, by masters only; clusterBroadcastMessage skips the nodes without a link.
FailPackets(n, v, e, marked) ==
  IF IsMaster(v, n)
  THEN {[Header(n, v, e, "fail", to) EXCEPT !.about = x] : to \in Others(n) \ env.down, x \in marked}
  ELSE {}

\* clusterSendUpdate: the configuration of the node about.
UpdatePacket(n, v, e, to, about) ==
  [Header(n, v, e, "update", to) EXCEPT
     !.about = about, !.aboutEpoch = v.configEpoch[about], !.aboutSlots = SlotsOf(v, about)]

\* The first slot the sender claims with an older epoch than its owner has.
StaleClaims(v, m) ==
  {s \in m.slots : /\ v.slots[s] \notin {m.from, None}
                   /\ v.configEpoch[v.slots[s]] > m.configEpoch}

-----------------------------------------------------------------------------
(* Steps *)

Idle == [phase |-> "none", epoch |-> 0, count |-> 0, voters |-> {}, manual |-> FALSE]

InitMasterOf(m) == IF env.master[m] = None THEN m ELSE env.master[m]

\* All nodes have heard of each other, so a slave is known by the epoch of its master.
Init ==
  /\ env \in Scenarios
  /\ currentEpoch = [n \in Node |-> Max({env.epoch[m] : m \in Node})]
  /\ lastVoteEpoch = [n \in Node |-> 0]
  /\ view = [n \in Node |->
       [configEpoch |-> [m \in Node |-> IF m = n THEN env.epoch[m] ELSE env.epoch[InitMasterOf(m)]],
        slaveof |-> env.master, slots |-> env.owner,
        flags |-> [m \in Node |-> IF m = n THEN "ok" ELSE env.flags[m]],
        reports |-> [m \in Node |-> {}]]]
  /\ auth = [n \in Node |-> Idle]
  /\ booting = {}
  /\ disk = [n \in Node |-> [currentEpoch |-> currentEpoch[n], lastVoteEpoch |-> 0]]
  /\ net = {}
  /\ suspected = {p \in Node \X Node : env.flags[p[2]] # "ok"}
  /\ granted = {}
  /\ won = {}

Up(n) == n \notin env.down

\* clusterSaveConfig, when a handler has asked for it.  Nobody reads the file of a
\* node that is never started again.
Save(n, e, vote, saves) ==
  disk' = IF saves /\ n \in env.restartable THEN [disk EXCEPT ![n] = [currentEpoch |-> e, lastVoteEpoch |-> vote]]
          ELSE disk

Seen(m) == SeeEpochs(view[m.to], m)

\* clusterCron pings a node.
SendPing(n, m) ==
  /\ Up(n) /\ <<n, m>> \in env.links
  /\ Cardinality(Beats) < env.maxBeats
  /\ \E picked \in Picks(n) :
       net' = net \cup {Beat(n, view[n], currentEpoch[n], "ping", m, picked)}
  /\ UNCHANGED <<currentEpoch, lastVoteEpoch, view, auth, booting, disk, suspected, granted, won, env>>

\* What a PING, a PONG or a broadcast PONG changes, given the views after the role
\* switch and after the slots are bound, and what the gossip adds.  A packet that is lost
\* with its link is one that is never sent.
HandleBeat(m, e, newEpoch, role, slots, gossip, picked) ==
  LET n == m.to
      pong == IF m.type = "ping" THEN {Beat(n, Seen(m), e, "pong", m.from, picked)} ELSE {}
      stale == IF Dirty(role, m) THEN StaleClaims(slots, m) ELSE {}
      update == IF stale # {} /\ Updates = {}
                THEN {UpdatePacket(n, slots, e, m.from, slots.slots[Min(stale)])} ELSE {}
  IN  /\ currentEpoch' = [currentEpoch EXCEPT ![n] = newEpoch]
      /\ view' = [view EXCEPT ![n] = gossip.view]
      /\ auth' = [auth EXCEPT ![n].manual = @ /\ gossip.view.slaveof[n] = view[n].slaveof[n]]
      /\ \E sent \in SUBSET (pong \cup update \cup FailPackets(n, gossip.view, newEpoch, gossip.marked)) :
           net' = (net \ {m}) \cup sent
      /\ Save(n, newEpoch, lastVoteEpoch[n], [gossip.view EXCEPT !.reports = view[n].reports] # view[n])

ReceiveBeat(m) ==
  LET n == m.to
      e == Max({currentEpoch[n], m.currentEpoch})
  IN  /\ m \in Beats /\ Up(n)
      /\ \E picked \in Picks(n), old \in BOOLEAN,
            expired \in IF env.expiring THEN SUBSET UNION {view[n].reports[x] : x \in m.failing} ELSE {{}} :
           LET role == SwitchRole(IF m.type = "pong" THEN ClearFailure(Seen(m), m.from, old) ELSE Seen(m), m)
               slots == ClaimSlots(n, role, m)
               collides == HandleConfigEpochCollision(n, slots, m)
               newEpoch == IF collides THEN e + 1 ELSE e
               fixed == IF collides THEN [slots EXCEPT !.configEpoch[n] = newEpoch] ELSE slots
           IN  HandleBeat(m, e, newEpoch, role, slots, Gossip(n, fixed, m, expired), picked)
      /\ UNCHANGED <<lastVoteEpoch, booting, suspected, granted, won, env>>

\* The header of a packet of any other type; the handler leaves the view v.
ReceivePacket(m, type, v) ==
  /\ m \in net /\ m.type = type /\ Up(m.to)
  /\ currentEpoch' = [currentEpoch EXCEPT ![m.to] = Max({@, m.currentEpoch})]
  /\ view' = [view EXCEPT ![m.to] = v]

ReceiveFail(m) ==
  LET n == m.to
      v == IF m.about # n THEN [Seen(m) EXCEPT !.flags[m.about] = "fail"] ELSE Seen(m)
  IN  /\ ReceivePacket(m, "fail", v)
      /\ net' = net \ {m}
      /\ Save(n, currentEpoch'[n], lastVoteEpoch[n], v # view[n])
      /\ UNCHANGED <<lastVoteEpoch, auth, booting, suspected, granted, won, env>>

ReceiveUpdate(m) ==
  LET n == m.to
      known == [SetNodeAsMaster(Seen(m), m.about) EXCEPT !.configEpoch[m.about] = m.aboutEpoch]
      v == IF Seen(m).configEpoch[m.about] >= m.aboutEpoch THEN Seen(m)
           ELSE UpdateSlotsConfigWith(n, known, m.about, m.aboutEpoch, m.aboutSlots)
  IN  /\ ReceivePacket(m, "update", v)
      /\ net' = net \ {m}
      /\ auth' = [auth EXCEPT ![n].manual = @ /\ v.slaveof[n] = view[n].slaveof[n]]
      /\ Save(n, currentEpoch'[n], lastVoteEpoch[n], v # view[n])
      /\ UNCHANGED <<lastVoteEpoch, booting, suspected, granted, won, env>>

\* Mutant: the last vote is not looked at.
GrantsAgain(n, v, e, m) ==
  /\ IsMaster(v, n) /\ SlotsOf(v, n) # {}
  /\ m.currentEpoch >= e
  /\ ~IsMaster(v, m.from)
  /\ v.flags[v.slaveof[m.from]] = "fail" \/ m.force
  /\ \A s \in m.slots : v.slots[s] = None \/ v.configEpoch[v.slots[s]] <= m.configEpoch

\* clusterSendFailoverAuthIfNeeded: whether the vote goes to the sender.
Grants(n, v, e, m) ==
  /\ IsMaster(v, n) /\ SlotsOf(v, n) # {}
  /\ m.currentEpoch >= e
  /\ lastVoteEpoch[n] # e
  /\ ~IsMaster(v, m.from)
  /\ v.flags[v.slaveof[m.from]] = "fail" \/ m.force
  /\ \A s \in m.slots : v.slots[s] = None \/ v.configEpoch[v.slots[s]] <= m.configEpoch

\* recent: the node has voted for a slave of the same master two timeouts ago or less.
ReceiveAuthRequest(m) ==
  LET n == m.to
      v == Seen(m)
      e == Max({currentEpoch[n], m.currentEpoch})
  IN  /\ ReceivePacket(m, "authrequest", v)
      /\ \E recent \in IF lastVoteEpoch[n] = 0 THEN {FALSE} ELSE BOOLEAN :
           LET votes == Grants(n, v, e, m) /\ ~recent
           IN  /\ lastVoteEpoch' = IF votes THEN [lastVoteEpoch EXCEPT ![n] = e] ELSE lastVoteEpoch
               /\ net' = (net \ {m}) \cup (IF votes THEN {Header(n, v, e, "ack", m.from)} ELSE {})
               /\ granted' = IF votes THEN granted \cup {<<n, e, m.from>>} ELSE granted
      /\ Save(n, e, lastVoteEpoch'[n], v # view[n])
      /\ UNCHANGED <<auth, booting, suspected, won, env>>

\* Mutant: the votes that are missing are counted down.
ReceiveAuthAckDown(m) ==
  LET n == m.to
      v == Seen(m)
      counts == /\ IsMaster(v, m.from) /\ SlotsOf(v, m.from) # {}
                /\ m.currentEpoch >= auth[n].epoch
  IN  /\ ReceivePacket(m, "ack", v)
      /\ net' = net \ {m}
      /\ auth' = IF counts THEN [auth EXCEPT ![n].count = @ - 1, ![n].voters = @ \cup {m.from}] ELSE auth
      /\ Save(n, currentEpoch'[n], lastVoteEpoch[n], v # view[n])
      /\ UNCHANGED <<lastVoteEpoch, booting, suspected, granted, won, env>>

\* A vote counts whichever election it answers, if its epoch is not older.
ReceiveAuthAck(m) ==
  LET n == m.to
      v == Seen(m)
      counts == /\ IsMaster(v, m.from) /\ SlotsOf(v, m.from) # {}
                /\ m.currentEpoch >= auth[n].epoch
  IN  /\ ReceivePacket(m, "ack", v)
      /\ net' = net \ {m}
      /\ auth' = IF counts THEN [auth EXCEPT ![n].count = @ + 1, ![n].voters = @ \cup {m.from}] ELSE auth
      /\ Save(n, currentEpoch'[n], lastVoteEpoch[n], v # view[n])
      /\ UNCHANGED <<lastVoteEpoch, booting, suspected, granted, won, env>>

-----------------------------------------------------------------------------
(* Failure detection *)

\* clusterCron: a PING has not been answered for cluster_node_timeout.
PongTimeout(n, m) ==
  /\ Up(n) /\ m \in env.suspect \ {n}
  /\ view[n].flags[m] = "ok"
  /\ view' = [view EXCEPT ![n].flags[m] = "pfail"]
  /\ suspected' = suspected \cup {<<n, m>>}
  /\ UNCHANGED <<currentEpoch, lastVoteEpoch, auth, booting, disk, net, granted, won, env>>

-----------------------------------------------------------------------------
(* The election of a slave, clusterHandleSlaveFailover.  The phase stands   *)
(* for failover_auth_time and failover_auth_sent: "none" once auth_timeout  *)
(* is over, "scheduled" while sent is 0, then "sent".                       *)

CanFailover(n) ==
  LET v == view[n]
  IN  /\ Up(n) /\ ~IsMaster(v, n)
      /\ v.flags[v.slaveof[n]] = "fail" \/ auth[n].manual
      /\ SlotsOf(v, v.slaveof[n]) # {}

LocalSlaves(n) ==
  {m \in Others(n) : view[n].slaveof[m] \in {n, view[n].slaveof[n]} \ {None}}

\* The packets of an election, which an election scheduled later should not meet.
OldElection(n) ==
  {m \in net : (m.type = "authrequest" /\ m.from = n) \/ (m.type = "ack" /\ m.to = n)}

\* Mutant: the votes of the last election are still counted.
ScheduleKeepsCount(n) ==
  /\ CanFailover(n) /\ auth[n].phase = "none"
  /\ auth' = [auth EXCEPT ![n] = [@ EXCEPT !.phase = "scheduled", !.voters = {}]]
  /\ \E links \in SomeLinks(n, LocalSlaves(n)) :
       net' = (IF env.lateVotes THEN net ELSE net \ OldElection(n))
              \cup BroadcastPong(n, view[n], currentEpoch[n], links)
  /\ UNCHANGED <<currentEpoch, lastVoteEpoch, view, booting, disk, suspected, granted, won, env>>

Schedule(n) ==
  /\ CanFailover(n) /\ auth[n].phase = "none"
  /\ auth' = [auth EXCEPT ![n] = [@ EXCEPT !.phase = "scheduled", !.count = 0, !.voters = {}]]
  /\ \E links \in SomeLinks(n, LocalSlaves(n)) :
       net' = (IF env.lateVotes THEN net ELSE net \ OldElection(n))
              \cup BroadcastPong(n, view[n], currentEpoch[n], links)
  /\ UNCHANGED <<currentEpoch, lastVoteEpoch, view, booting, disk, suspected, granted, won, env>>

StartElection(n) ==
  LET e == currentEpoch[n] + 1
  IN  /\ CanFailover(n) /\ auth[n].phase = "scheduled"
      /\ e <= env.maxEpoch
      /\ currentEpoch' = [currentEpoch EXCEPT ![n] = e]
      /\ auth' = [auth EXCEPT ![n] = [@ EXCEPT !.phase = "sent", !.epoch = e]]
      /\ net' = net \cup {[Header(n, view[n], e, "authrequest", to) EXCEPT !.force = auth[n].manual] : to \in Others(n)}
      /\ Save(n, e, lastVoteEpoch[n], TRUE)
      /\ UNCHANGED <<lastVoteEpoch, view, booting, suspected, granted, won, env>>

ElectionTimeout(n) ==
  /\ auth[n].phase # "none" /\ currentEpoch[n] < env.maxEpoch
  /\ auth' = [auth EXCEPT ![n].phase = "none"]
  /\ UNCHANGED <<currentEpoch, lastVoteEpoch, view, booting, disk, net, suspected, granted, won, env>>

\* clusterFailoverReplaceYourMaster: the slots of the old master are mine.
ReplaceYourMaster(n, v) ==
  [SetNodeAsMaster(v, n) EXCEPT
     !.slots = [s \in Slot |-> IF @[s] = v.slaveof[n] THEN n ELSE @[s]]]

Promote(n, v, e) ==
  LET w == ReplaceYourMaster(n, v)
  IN  /\ currentEpoch' = [currentEpoch EXCEPT ![n] = e]
      /\ view' = [view EXCEPT ![n] = w]
      /\ \E links \in SomeLinks(n, Others(n)) : net' = net \cup BroadcastPong(n, w, e, links)
      /\ auth' = [auth EXCEPT ![n].manual = FALSE]
      /\ Save(n, e, lastVoteEpoch[n], TRUE)

\* Mutant: half of the masters are enough.
VotesNeededHalf(n) == NeededQuorum(n) - 1

\* The needed_quorum of clusterHandleSlaveFailover.
VotesNeeded(n) == NeededQuorum(n)

Win(n) ==
  /\ CanFailover(n) /\ auth[n].phase = "sent"
  /\ auth[n].count >= VotesNeeded(n)
  /\ Promote(n, [view[n] EXCEPT !.configEpoch[n] = Max({@, auth[n].epoch})], currentEpoch[n])
  /\ won' = won \cup {<<n, auth[n].epoch, VotesNeeded(n)>>}
  /\ UNCHANGED <<lastVoteEpoch, booting, suspected, granted, env>>

-----------------------------------------------------------------------------
(* CLUSTER FAILOVER and CLUSTER BUMPEPOCH *)

\* clusterBumpConfigEpochWithoutConsensus: whether a new epoch is needed.
NeedsBump(n) ==
  LET mine == view[n].configEpoch[n]
      all == {view[n].configEpoch[m] : m \in Node} \cup {currentEpoch[n]}
  IN  mine = 0 \/ mine # Max(all)

Bumped(n) == IF NeedsBump(n) THEN currentEpoch[n] + 1 ELSE currentEpoch[n]

BumpedView(n) == IF NeedsBump(n) THEN [view[n] EXCEPT !.configEpoch[n] = Bumped(n)] ELSE view[n]

Takeover(n) ==
  /\ Up(n) /\ "takeover" \in env.admin[n] /\ ~IsMaster(view[n], n)
  /\ Bumped(n) <= env.maxEpoch
  /\ Promote(n, BumpedView(n), Bumped(n))
  /\ UNCHANGED <<lastVoteEpoch, booting, suspected, granted, won, env>>

BumpEpoch(n) ==
  /\ Up(n) /\ "bumpepoch" \in env.admin[n] /\ NeedsBump(n)
  /\ Bumped(n) <= env.maxEpoch
  /\ currentEpoch' = [currentEpoch EXCEPT ![n] = Bumped(n)]
  /\ view' = [view EXCEPT ![n] = BumpedView(n)]
  /\ Save(n, Bumped(n), lastVoteEpoch[n], TRUE)
  /\ UNCHANGED <<lastVoteEpoch, auth, booting, net, suspected, granted, won, env>>

\* CLUSTER FAILOVER FORCE, and the end of CLUSTER_MF_TIMEOUT.
ForceFailover(n) ==
  /\ Up(n) /\ "force" \in env.admin[n] /\ ~IsMaster(view[n], n)
  /\ auth' = [auth EXCEPT ![n].manual = TRUE]
  /\ UNCHANGED <<currentEpoch, lastVoteEpoch, view, booting, disk, net, suspected, granted, won, env>>

ForceTimeout(n) ==
  /\ auth[n].manual
  /\ auth' = [auth EXCEPT ![n].manual = FALSE]
  /\ UNCHANGED <<currentEpoch, lastVoteEpoch, view, booting, disk, net, suspected, granted, won, env>>

-----------------------------------------------------------------------------
(* Crash and restart *)

\* What nodes.conf holds of a view: what a handler changed in it was saved, except that
\* a node had become PFAIL (kept: those a later save wrote all the same).
Loaded(v, kept) ==
  [v EXCEPT !.flags = [m \in Node |-> IF @[m] = "pfail" /\ m \notin kept THEN "ok" ELSE @[m]],
            !.reports = [m \in Node |-> {}]]

\* The process dies and clusterLoadConfig reads nodes.conf.
Restart(n) ==
  /\ Up(n) /\ n \in env.restartable
  /\ \E kept \in SUBSET {m \in Node : view[n].flags[m] = "pfail"} :
       view' = [view EXCEPT ![n] = Loaded(view[n], kept)]
  /\ currentEpoch' = [currentEpoch EXCEPT ![n] =
       Max({view[n].configEpoch[m] : m \in Node} \cup {disk[n].currentEpoch})]
  /\ lastVoteEpoch' = [lastVoteEpoch EXCEPT ![n] = disk[n].lastVoteEpoch]
  /\ auth' = [auth EXCEPT ![n] = Idle]
  /\ booting' = IF IsMaster(view[n], n) THEN booting \cup {n} ELSE booting
  /\ net' = {m \in net : m.to # n}
  /\ UNCHANGED <<disk, suspected, granted, won, env>>

WritableDelayOver(n) ==
  /\ n \in booting
  /\ booting' = booting \ {n}
  /\ UNCHANGED <<currentEpoch, lastVoteEpoch, view, auth, disk, net, suspected, granted, won, env>>

-----------------------------------------------------------------------------
Next ==
  \/ \E n \in Node, m \in Node : SendPing(n, m)
  \/ \E m \in net : \/ ReceiveBeat(m) \/ ReceiveFail(m) \/ ReceiveUpdate(m)
                    \/ ReceiveAuthRequest(m) \/ ReceiveAuthAck(m)
  \/ \E n \in Node, m \in Node : PongTimeout(n, m)
  \/ \E n \in Node : \/ Schedule(n) \/ StartElection(n) \/ ElectionTimeout(n) \/ Win(n)
                     \/ Takeover(n) \/ BumpEpoch(n) \/ ForceFailover(n) \/ ForceTimeout(n)
                     \/ Restart(n) \/ WritableDelayOver(n)

Spec == Init /\ [][Next]_vars

\* clusterCron pings every node at least once in half a cluster_node_timeout.  From time to
\* time the network lets one of these packets through that speaks of the suspected nodes,
\* the random picks of its gossip section being what they are.  An UPDATE or a FAIL that
\* was really sent arrives, and a PING nobody answers times out.
Hears(n, m) ==
  \E p \in Beats : /\ p.to = n /\ p.from = m /\ p \notin net'
                   /\ env.suspect \ {n, m} \subseteq p.failing \cup p.fine

FairLinks == UNION {x.links : x \in Scenarios}

News == {p \in net : p.type \in {"update", "fail"} /\ Up(p.to)}

Late == {p \in (Node \ env.down) \X (env.down \cap env.suspect) : view[p[1]].flags[p[2]] = "ok"}

FairSpec ==
  /\ Spec
  /\ \A l \in FairLinks : []<><< l \in env.links => Hears(l[1], l[2]) >>_vars
  /\ []<><< News = {} \/ \E p \in News : p \notin net' >>_vars
  /\ []<><< Late = {} \/ Late' # Late >>_vars

-----------------------------------------------------------------------------
(* Properties *)

Packet ==
  [type : {"ping", "pong", "bcast", "fail", "update", "authrequest", "ack"},
   from : Node, to : Node, currentEpoch : Nat, configEpoch : Nat, slots : SUBSET Slot,
   slaveof : Node \cup {None}, failing : SUBSET Node, fine : SUBSET Node,
   about : Node \cup {None}, aboutEpoch : Nat, aboutSlots : SUBSET Slot, force : BOOLEAN]

View ==
  [configEpoch : [Node -> Nat], slaveof : [Node -> Node \cup {None}],
   slots : [Slot -> Node \cup {None}], flags : [Node -> Flag],
   reports : [Node -> SUBSET (Node \X Nat)]]

Auth ==
  [phase : {"none", "scheduled", "sent"}, epoch : Nat, count : Nat, voters : SUBSET Node,
   manual : BOOLEAN]

\* Every field keeps its type; in particular no epoch and no vote count is ever negative.
TypeOK ==
  /\ currentEpoch \in [Node -> Nat]
  /\ lastVoteEpoch \in [Node -> Nat]
  /\ view \in [Node -> View]
  /\ auth \in [Node -> Auth]
  /\ booting \subseteq Node
  /\ disk \in [Node -> [currentEpoch : Nat, lastVoteEpoch : Nat]]
  /\ net \subseteq Packet
  /\ granted \subseteq Node \X Nat \X Node
  /\ won \subseteq Node \X Nat \X Nat

\* No two slaves win an election of the same epoch: the votes of a majority, each
\* given once in an epoch, decide it (the comment on clusterHandleConfigEpochCollision).
OneWinner == \A a, b \in won : a[2] = b[2] => a[1] = b[1]

\* A master gives one vote in an epoch (lastVoteEpoch).
OneVote == \A a, b \in granted : a[1] = b[1] /\ a[2] = b[2] => a[3] = b[3]

\* Whoever wins has the votes of as many different masters as it needs, all of them
\* given to it in the very epoch it wins: failover_auth_count is the number of these
\* votes, although it is a counter that any ACK of a recent epoch increments.
WonByVotes ==
  \A w \in won : Cardinality({x \in Node : <<x, w[2], w[1]>> \in granted}) >= w[3]

\* The assertions of clusterSetMaster, in every view and at all times: a node does not
\* replicate itself, and no slot is bound to a node known to be a slave.
ViewSound(n, v) ==
  /\ v.slaveof[n] # n
  /\ \A s \in Slot : v.slots[s] # None => IsMaster(v, v.slots[s])

RolesSound == \A n \in Node : ViewSound(n, view[n])

\* A node is in FAIL state somewhere only if most masters have missed its PONGs at some
\* time ("the majority of the masters signaled the node is down", as the comment on
\* markNodeAsFailingIfNeeded has it): neither the reports of slaves nor the repeated
\* reports of one master make a FAIL, also when the node answers again in between.  It
\* is about clusters none of whose masters boots: that one acts on a quorum of one.
FailByMajority ==
  \A n, m \in Node : view[n].flags[m] = "fail" =>
    LET masters == {x \in Node : env.master[x] = None}
    IN  2 * Cardinality({x \in masters : <<x, m>> \in suspected}) > Cardinality(masters)

\* A slot moves from one owner to another, in any view, only to a node with a greater
\* config epoch: "the new node claims it with a greater configEpoch", or it is the node
\* itself that takes over after an election or a takeover.
OwnerEpochGrows ==
  [][\A n \in Node, x \in Slot :
       LET old == view[n].slots[x]
           new == view'[n].slots[x]
       IN  old # new /\ old # None /\ new # None
           => view'[n].configEpoch[new] > view[n].configEpoch[old]]_vars

\* All nodes that are up hear of each other.
Connected ==
  \A n, m \in Node \ env.down : n # m => <<n, m>> \in env.links

\* What all nodes agree on: who serves each slot, and that node knows.
Agreed ==
  \A x \in Slot : \E o \in Node :
    /\ IsMaster(view[o], o)
    /\ \A n \in Node \ env.down : view[n].slots[x] = o

EpochsDiffer ==
  \A m, n \in Node \ env.down :
    m # n /\ IsMaster(view[m], m) /\ IsMaster(view[n], n)
    => view[m].configEpoch[m] # view[n].configEpoch[n]

Detected ==
  \A n \in Node \ env.down, m \in env.down \cap env.suspect : view[n].flags[m] = "fail"

\* Where all nodes that are up hear of each other: once commands stop, every node ends up
\* with the same owner of every slot, two masters do not keep the same config epoch
\* (clusterHandleConfigEpochCollision), and a node that crashed is in FAIL state
\* everywhere, on those nodes too that no FAIL packet was sent to ("because of partitions
\* we may not reach every node", the comment on markNodeAsFailingIfNeeded), provided that
\* reports are renewed before they expire.
Settles == <>[](Connected => Agreed /\ EpochsDiffer /\ Detected)

=============================================================================
