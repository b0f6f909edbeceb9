---------------------------- MODULE ClusterProofs ----------------------------
(***************************************************************************)
(* Theorems about Cluster for every set of nodes, every number of slots and *)
(* every environment: the votes of an election, the types of the views, the *)
(* roles and slots in them, and who is in FAIL state, whatever is lost, late *)
(* or restarted.                                                            *)
(***************************************************************************)
EXTENDS Cluster, FiniteSetTheorems, TLAPS

\* Most leaves are first-order: Zenon first, the others go to the SMT solver.
USE ZenonT(3), SMT

-----------------------------------------------------------------------------
(* Votes.  A master that is restarted forgets its last vote, and a vote that *)
(* comes late is counted twice; without either, this is inductive.           *)

Steady == env.restartable = {} /\ ~env.lateVotes

Requests == {m \in net : m.type = "authrequest"}

Acks == {m \in net : m.type = "ack"}

VoteType ==
  /\ currentEpoch \in [Node -> Nat]
  /\ lastVoteEpoch \in [Node -> Nat]
  /\ auth \in [Node -> Auth]
  /\ \A m \in net : m.from \in Node /\ m.to \in Node /\ m.currentEpoch \in Nat
  /\ granted \subseteq Node \X Nat \X Node
  /\ won \subseteq Node \X Nat \X Nat

\* No node votes beyond its last vote, none of which is beyond its epoch.
VotesPast ==
  /\ \A g \in granted : g[2] <= lastVoteEpoch[g[1]]
  /\ \A x \in Node : lastVoteEpoch[x] <= currentEpoch[x]

\* The packets of an election are those of the latest one of the candidate.
LatestElection ==
  /\ \A m \in Requests : /\ m.currentEpoch = auth[m.from].epoch
                         /\ auth[m.from].phase # "scheduled"
  /\ \A m \in Acks : /\ m.currentEpoch = auth[m.to].epoch
                     /\ auth[m.to].phase # "scheduled"
                     /\ <<m.from, m.currentEpoch, m.to>> \in granted
                     /\ m.from \notin auth[m.to].voters
  /\ \A m1, m2 \in Acks : m1.from = m2.from /\ m1.to = m2.to => m1 = m2
  /\ \A x \in Node : auth[x].epoch <= currentEpoch[x]
  /\ \A g \in granted : g[2] <= auth[g[3]].epoch

\* What a candidate has counted.
Counted ==
  \A x \in Node :
    /\ auth[x].count = Cardinality(auth[x].voters)
    /\ \A y \in auth[x].voters : <<y, auth[x].epoch, x>> \in granted
    /\ auth[x].phase = "scheduled" => auth[x].voters = {}

VoteInv == VoteType /\ VotesPast /\ LatestElection /\ Counted /\ OneVote /\ WonByVotes

VoteInvSteady == Steady => VoteInv

-----------------------------------------------------------------------------
(* Numbers *)

LEMMA MaxOfTwo ==
  ASSUME NEW i \in Nat, NEW j \in Nat
  PROVE  Max({i, j}) \in Nat /\ Max({i, j}) >= i /\ Max({i, j}) >= j /\ Max({i, j}) \in {i, j}
<1>1. \E k \in {i, j} : \A y \in {i, j} : k >= y
  <2>1. CASE i >= j
    BY <2>1
  <2>2. CASE j >= i
    BY <2>2
  <2> QED BY <2>1, <2>2
<1> QED BY <1>1 DEF Max

\* A finite set of numbers has a greatest element: no minimal subset lacks one.
LEMMA MaxOfSet ==
  ASSUME NEW S, IsFiniteSet(S), S \subseteq Nat, S # {}
  PROVE  Max(S) \in S /\ \A y \in S : Max(S) >= y
<1> DEFINE Topped(T) == \E k \in T : \A y \in T : k >= y
           Bad == {T \in SUBSET S : T # {} /\ ~Topped(T)}
<1>1. Bad = {}
  <2> SUFFICES ASSUME Bad # {} PROVE FALSE
    OBVIOUS
  <2>1. FiniteSubsetsOf(S) = SUBSET S
    BY FS_FiniteSubsetsOfFinite
  <2>2. IsWellFoundedOn(StrictSubsetOrdering(S), SUBSET S)
    BY <2>1, FS_StrictSubsetOrderingWellFounded
  <2> HIDE DEF Bad
  <2>3. Bad \subseteq SUBSET S
    BY DEF Bad
  <2>4. PICK T \in Bad : \A U \in Bad : ~(<<U, T>> \in StrictSubsetOrdering(S))
    BY <2>2, <2>3, WFMin, Zenon
  <2>5. PICK x \in T : TRUE
    BY DEF Bad
  <2>6. T \ {x} \notin Bad
    BY <2>3, <2>4 DEF StrictSubsetOrdering
  <2>7. CASE T \ {x} = {}
    <3>1. T = {x}
      BY <2>7
    <3>2. x \in Nat /\ x >= x
      BY <2>3
    <3> QED BY <3>1, <3>2 DEF Bad
  <2>8. CASE T \ {x} # {}
    <3>1. PICK k \in T \ {x} : \A y \in T \ {x} : k >= y
      BY <2>3, <2>6, <2>8 DEF Bad
    <3>2. T \subseteq Nat
      BY <2>3
    <3>3. k >= x \/ x >= k
      BY <3>1, <3>2
    <3>4. Topped(T)
      <4>1. CASE k >= x
        BY <3>1, <4>1
      <4>2. CASE x >= k
        <5>1. \A y \in T : x >= y
          BY <3>1, <3>2, <4>2
        <5> QED BY <5>1
      <4> QED BY <3>3, <4>1, <4>2
    <3> QED BY <3>4 DEF Bad
  <2> QED BY <2>7, <2>8
<1>2. Topped(S)
  BY <1>1
<1> QED BY <1>2 DEF Max

\* Those who reported a node and, if it counts, the one who hears of it, are as many as
\* it takes: they are more than half of M.
LEMMA EnoughVoters ==
  ASSUME NEW M, IsFiniteSet(M), NEW S \in SUBSET M, NEW R \in SUBSET S, NEW n, n \notin R,
         NEW self, self \in {0, 1}, self = 1 => n \in S,
         NEW q \in Nat, Cardinality(R) + self >= q, 2 * q > Cardinality(M)
  PROVE  2 * Cardinality(S) > Cardinality(M)
<1>1. IsFiniteSet(S) /\ IsFiniteSet(R)
  BY FS_Subset
<1>2. Cardinality(S) \in Nat /\ Cardinality(R) \in Nat /\ Cardinality(M) \in Nat
  BY <1>1, FS_CardinalityType
<1>3. Cardinality(R) + self <= Cardinality(S)
  <2>1. CASE self = 0
    <3>1. Cardinality(R) <= Cardinality(S)
      BY <1>1, FS_Subset
    <3> QED BY <1>2, <2>1, <3>1
  <2>2. CASE self = 1
    <3>1. R \cup {n} \in SUBSET S
      BY <2>2
    <3>2. Cardinality(R \cup {n}) <= Cardinality(S)
      BY <1>1, <3>1, FS_Subset
    <3>3. Cardinality(R \cup {n}) = Cardinality(R) + 1
      BY <1>1, FS_AddElement
    <3> QED BY <2>2, <3>2, <3>3
  <2> QED BY <2>1, <2>2
<1> QED BY <1>2, <1>3

\* The same for a list of reports in which every sender has one.
LEMMA EnoughReports ==
  ASSUME NEW M, IsFiniteSet(M), NEW S \in SUBSET M, NEW l \in SUBSET (S \X {1}), NEW n, <<n, 1>> \notin l,
         NEW self, self \in {0, 1}, self = 1 => n \in S,
         NEW q \in Nat, Cardinality(l) + self >= q, 2 * q > Cardinality(M)
  PROVE  2 * Cardinality(S) > Cardinality(M)
<1> DEFINE R == {x \in S : <<x, 1>> \in l}
           f == [x \in R |-> <<x, 1>>]
<1>1. IsFiniteSet(R)
  BY FS_Subset
<1>2. f \in Surjection(R, l)
  BY DEF Surjection
<1>3. IsFiniteSet(l) /\ Cardinality(l) <= Cardinality(R)
  BY <1>1, <1>2, FS_Surjection
<1>4. R \in SUBSET S /\ n \notin R
  OBVIOUS
<1>5. Cardinality(R) \in Nat /\ Cardinality(l) \in Nat
  BY <1>1, <1>3, FS_CardinalityType
<1> HIDE DEF R
<1>6. Cardinality(R) + self >= q
  BY <1>3, <1>5
<1> QED BY <1>4, <1>6, EnoughVoters

LEMMA MostGrows ==
  ASSUME NEW M, IsFiniteSet(M), NEW S \in SUBSET M, NEW R \in SUBSET S, 2 * Cardinality(R) > Cardinality(M)
  PROVE  2 * Cardinality(S) > Cardinality(M)
<1>1. IsFiniteSet(S) /\ IsFiniteSet(R)
  BY FS_Subset
<1>2. Cardinality(S) \in Nat /\ Cardinality(R) \in Nat /\ Cardinality(M) \in Nat
  BY <1>1, FS_CardinalityType
<1>3. Cardinality(R) <= Cardinality(S)
  BY <1>1, FS_Subset
<1> QED BY <1>2, <1>3

LEMMA AllAreMost ==
  ASSUME NEW M, IsFiniteSet(M), M # {}
  PROVE  2 * Cardinality(M) > Cardinality(M)
<1>1. Cardinality(M) \in Nat
  BY FS_CardinalityType
<1>2. Cardinality(M) # 0
  BY FS_EmptySet
<1> QED BY <1>1, <1>2

-----------------------------------------------------------------------------
(* Packets *)

LEMMA HeaderFields ==
  ASSUME NEW n, NEW v, NEW e, NEW type, NEW to
  PROVE  LET h == Header(n, v, e, type, to)
         IN  h.type = type /\ h.from = n /\ h.to = to /\ h.currentEpoch = e
BY DEF Header

LEMMA BeatFields ==
  ASSUME NEW n, NEW v, NEW e, NEW type, NEW to, NEW picked
  PROVE  LET h == Beat(n, v, e, type, to, picked)
         IN  h.type = type /\ h.from = n /\ h.to = to /\ h.currentEpoch = e
BY DEF Beat, Header

LEMMA UpdateFields ==
  ASSUME NEW n, NEW v, NEW e, NEW to, NEW about
  PROVE  LET h == UpdatePacket(n, v, e, to, about)
         IN  h.type = "update" /\ h.from = n /\ h.to = to /\ h.currentEpoch = e
BY DEF UpdatePacket, Header

LEMMA FailFields ==
  ASSUME NEW n, NEW v, NEW e, NEW marked, NEW h \in FailPackets(n, v, e, marked)
  PROVE  h.type = "fail" /\ h.from = n /\ h.to \in Others(n) /\ h.currentEpoch = e
<1>1. PICK to \in Others(n) \ env.down, x \in marked : h = [Header(n, v, e, "fail", to) EXCEPT !.about = x]
  BY DEF FailPackets
<1> QED BY <1>1 DEF Header

LEMMA BroadcastFields ==
  ASSUME NEW n, NEW v, NEW e, NEW links, NEW h \in BroadcastPong(n, v, e, links)
  PROVE  h.type = "bcast" /\ h.from = n /\ h.to \in links /\ h.currentEpoch = e
BY BeatFields DEF BroadcastPong

-----------------------------------------------------------------------------
(* The votes of an election *)

\* A step that sends no packet of an election and changes no vote.
NoVote ==
  /\ \A x \in Node : currentEpoch'[x] >= currentEpoch[x]
  /\ UNCHANGED <<lastVoteEpoch, granted, won>>
  /\ Requests' \subseteq Requests /\ Acks' \subseteq Acks
  /\ \A x \in Node : /\ auth'[x].phase \in {auth[x].phase, "none"}
                     /\ auth'[x].epoch = auth[x].epoch
                     /\ auth'[x].count = auth[x].count
                     /\ auth'[x].voters = auth[x].voters

LEMMA NoVoteKeeps ==
  ASSUME VoteInv, VoteType', NoVote
  PROVE  VoteInv'
<1> USE DEF VoteInv
<1>1. VotesPast'
  <2>1. \A g \in granted : g[2] <= lastVoteEpoch[g[1]]
    BY DEF VotesPast
  <2>2. \A x \in Node : lastVoteEpoch[x] <= currentEpoch'[x]
    BY DEF VotesPast, VoteType, Auth, NoVote
  <2> QED BY <2>1, <2>2 DEF VotesPast, NoVote
<1>2. LatestElection'
  <2>1. \A m \in Requests : m.from \in Node
    BY DEF Requests, VoteType, Auth
  <2>2. \A m \in Acks : m.to \in Node
    BY DEF Acks, VoteType, Auth
  <2>3. \A m \in Requests' : /\ m.currentEpoch = auth'[m.from].epoch
                             /\ auth'[m.from].phase # "scheduled"
    BY <2>1 DEF NoVote, LatestElection
  <2>4. \A m \in Acks' : /\ m.currentEpoch = auth'[m.to].epoch
                         /\ auth'[m.to].phase # "scheduled"
                         /\ <<m.from, m.currentEpoch, m.to>> \in granted'
                         /\ m.from \notin auth'[m.to].voters
    BY <2>2, ZenonT(20) DEF NoVote, LatestElection
  <2>5. \A x \in Node : auth'[x].epoch <= currentEpoch'[x]
    BY DEF NoVote, LatestElection, VoteType, Auth
  <2>6. \A g \in granted : g[3] \in Node
    BY DEF VoteType, Auth
  <2>7. \A g \in granted' : g[2] <= auth'[g[3]].epoch
    BY <2>6 DEF NoVote, LatestElection
  <2> QED BY <2>3, <2>4, <2>5, <2>7 DEF NoVote, LatestElection
<1>3. Counted'
  BY DEF Counted, NoVote
<1>4. OneVote' /\ WonByVotes'
  BY DEF OneVote, WonByVotes, NoVote
<1> QED BY <1>1, <1>2, <1>3, <1>4

\* What the packets of a step need for VoteType.
Addressed(m) == m.from \in Node /\ m.to \in Node /\ m.currentEpoch \in Nat

\* More votes do not take a victory away.
LEMMA GrantsGrow ==
  ASSUME VoteType, VoteType', WonByVotes, granted \subseteq granted', won' = won
  PROVE  WonByVotes'
<1> SUFFICES ASSUME NEW w \in won
             PROVE  Cardinality({x \in Node : <<x, w[2], w[1]>> \in granted'}) >= w[3]
  BY DEF WonByVotes
<1> DEFINE V == {x \in Node : <<x, w[2], w[1]>> \in granted}
           W == {x \in Node : <<x, w[2], w[1]>> \in granted'}
<1>1. IsFiniteSet(W) /\ V \in SUBSET W
  BY ClusterAssumption, FS_Subset
<1>2. IsFiniteSet(V) /\ Cardinality(V) <= Cardinality(W)
  BY <1>1, FS_Subset
<1>3. Cardinality(V) \in Nat /\ Cardinality(W) \in Nat
  BY <1>1, <1>2, FS_CardinalityType
<1>4. Cardinality(V) >= w[3] /\ w[3] \in Nat
  BY DEF WonByVotes, VoteType, Auth
<1> HIDE DEF V, W
<1>5. Cardinality(W) >= w[3]
  BY <1>2, <1>3, <1>4
<1> QED BY <1>5 DEF W

LEMMA ManualAuth ==
  ASSUME auth \in [Node -> Auth], NEW n \in Node, NEW b \in BOOLEAN, auth' = [auth EXCEPT ![n].manual = b]
  PROVE  /\ auth' \in [Node -> Auth]
         /\ \A x \in Node : /\ auth'[x].phase = auth[x].phase /\ auth'[x].epoch = auth[x].epoch
                            /\ auth'[x].count = auth[x].count /\ auth'[x].voters = auth[x].voters
BY DEF Auth

LEMMA SendPingVotes ==
  ASSUME VoteInv, NEW n \in Node, NEW m \in Node, SendPing(n, m)
  PROVE  VoteInv'
<1>1. PICK picked : net' = net \cup {Beat(n, view[n], currentEpoch[n], "ping", m, picked)}
  BY DEF SendPing
<1> DEFINE h == Beat(n, view[n], currentEpoch[n], "ping", m, picked)
<1>2. h.type = "ping" /\ h.from = n /\ h.to = m /\ h.currentEpoch = currentEpoch[n]
  BY BeatFields
<1> HIDE DEF h
<1>3. VoteType'
  BY <1>1, <1>2 DEF VoteInv, VoteType, Auth, SendPing, h
<1>4. NoVote
  BY <1>1, <1>2 DEF NoVote, SendPing, Requests, Acks, VoteInv, VoteType, Auth, h
<1> QED BY <1>3, <1>4, NoVoteKeeps

LEMMA BroadcastVotes ==
  ASSUME VoteInv, NEW n \in Node, NEW v, NEW e \in Nat, NEW to \in SUBSET Node,
         NEW links \in SomeLinks(n, to)
  PROVE  \A h \in BroadcastPong(n, v, e, links) : Addressed(h) /\ h.type = "bcast"
<1>1. links \subseteq Node
  BY DEF SomeLinks
<1> QED BY <1>1, BroadcastFields DEF Addressed

\* The handler of a heartbeat ends in HandleBeat, with at most one epoch more.
LEMMA ReceiveBeatHandles ==
  ASSUME NEW m \in net, ReceiveBeat(m)
  PROVE  LET e == Max({currentEpoch[m.to], m.currentEpoch})
         IN  \E newEpoch, role, slots, gossip, picked :
               newEpoch \in {e, e + 1} /\ HandleBeat(m, e, newEpoch, role, slots, gossip, picked)
<1> DEFINE n == m.to
           e == Max({currentEpoch[n], m.currentEpoch})
           role(old) == SwitchRole(IF m.type = "pong" THEN ClearFailure(Seen(m), m.from, old) ELSE Seen(m), m)
           slots(old) == ClaimSlots(n, role(old), m)
           collides(old) == HandleConfigEpochCollision(n, slots(old), m)
           newEpoch(old) == IF collides(old) THEN e + 1 ELSE e
           fixed(old) == IF collides(old) THEN [slots(old) EXCEPT !.configEpoch[n] = newEpoch(old)] ELSE slots(old)
<1>1. PICK picked \in Picks(n), old \in BOOLEAN,
            expired \in IF env.expiring THEN SUBSET UNION {view[n].reports[x] : x \in m.failing} ELSE {{}} :
        HandleBeat(m, e, newEpoch(old), role(old), slots(old), Gossip(n, fixed(old), m, expired), picked)
  BY Zenon DEF ReceiveBeat
<1>2. newEpoch(old) \in {e, e + 1}
  OBVIOUS
<1> HIDE DEF e, newEpoch, fixed, slots, role
<1>3. \E e2, r, s, g, p : e2 \in {e, e + 1} /\ HandleBeat(m, e, e2, r, s, g, p)
  BY <1>1, <1>2
<1> QED BY <1>3 DEF e

LEMMA ReceiveBeatVotes ==
  ASSUME VoteInv, NEW m \in net, ReceiveBeat(m)
  PROVE  VoteInv'
<1> DEFINE n == m.to
           e == Max({currentEpoch[n], m.currentEpoch})
<1>1. n \in Node /\ m.from \in Node /\ m.currentEpoch \in Nat /\ currentEpoch[n] \in Nat
  BY DEF VoteInv, VoteType, Auth
<1>2. e \in Nat /\ e >= currentEpoch[n]
  BY <1>1, MaxOfTwo
<1>3. m \notin Requests /\ m \notin Acks
  BY DEF ReceiveBeat, Beats, Requests, Acks
<1> HIDE DEF e
<1>4. PICK e2, manual, sent :
        /\ e2 \in {e, e + 1} /\ manual \in BOOLEAN
        /\ currentEpoch' = [currentEpoch EXCEPT ![n] = e2]
        /\ auth' = [auth EXCEPT ![n].manual = manual]
        /\ net' = (net \ {m}) \cup sent
        /\ \A h \in sent : Addressed(h) /\ h.type \in {"pong", "update", "fail"}
  <2>1. PICK newEpoch, role, slots, gossip, picked :
          newEpoch \in {e, e + 1} /\ HandleBeat(m, e, newEpoch, role, slots, gossip, picked)
    BY ReceiveBeatHandles DEF e
  <2> DEFINE pong == IF m.type = "ping" THEN {Beat(n, Seen(m), e, "pong", m.from, picked)} ELSE {}
             stale == IF Dirty(role, m) THEN StaleClaims(slots, m) ELSE {}
             update == IF stale # {} /\ Updates = {}
                       THEN {UpdatePacket(n, slots, e, m.from, slots.slots[Min(stale)])} ELSE {}
             fails == FailPackets(n, gossip.view, newEpoch, gossip.marked)
             manual == auth[n].manual /\ gossip.view.slaveof[n] = view[n].slaveof[n]
  <2>2. PICK sent \in SUBSET (pong \cup update \cup fails) : net' = (net \ {m}) \cup sent
    BY <2>1 DEF HandleBeat
  <2>3. currentEpoch' = [currentEpoch EXCEPT ![n] = newEpoch]
    BY <2>1 DEF HandleBeat
  <2>4. auth' = [auth EXCEPT ![n].manual = manual]
    BY <2>1 DEF HandleBeat
  <2>5. manual \in BOOLEAN
    OBVIOUS
  <2>6. \A h \in fails : Addressed(h) /\ h.type = "fail"
    BY <1>1, <1>2, <2>1, FailFields DEF Addressed, Others
  <2>7. \A h \in pong \cup update : Addressed(h) /\ h.type \in {"pong", "update"}
    BY <1>1, <1>2, BeatFields, UpdateFields DEF Addressed
  <2> HIDE DEF fails, manual, pong, update
  <2>8. \A h \in sent : Addressed(h) /\ h.type \in {"pong", "update", "fail"}
    BY <2>6, <2>7
  <2> WITNESS newEpoch, manual, sent
  <2> QED BY <2>1, <2>2, <2>3, <2>4, <2>5, <2>8
<1>5. e2 \in Nat /\ e2 >= currentEpoch[n]
  BY <1>1, <1>2, <1>4
<1>6. lastVoteEpoch' = lastVoteEpoch /\ granted' = granted /\ won' = won
  BY DEF ReceiveBeat
<1>7. VoteType'
  <2>1. currentEpoch' \in [Node -> Nat]
    BY <1>1, <1>4, <1>5 DEF VoteInv, VoteType
  <2>2. auth' \in [Node -> Auth]
    BY <1>1, <1>4, ManualAuth DEF VoteInv, VoteType
  <2>3. \A h \in net' : h.from \in Node /\ h.to \in Node /\ h.currentEpoch \in Nat
    BY <1>4 DEF VoteInv, VoteType, Addressed
  <2> QED BY <1>6, <2>1, <2>2, <2>3 DEF VoteInv, VoteType
<1>8. Requests' \subseteq Requests /\ Acks' \subseteq Acks
  BY <1>4 DEF Requests, Acks
<1>9. \A x \in Node : /\ auth'[x].phase = auth[x].phase /\ auth'[x].epoch = auth[x].epoch
                       /\ auth'[x].count = auth[x].count /\ auth'[x].voters = auth[x].voters
  BY <1>1, <1>4, ManualAuth DEF VoteInv, VoteType
<1>10. \A x \in Node : currentEpoch'[x] >= currentEpoch[x]
  BY <1>1, <1>4, <1>5 DEF VoteInv, VoteType, Auth
<1> QED BY <1>6, <1>7, <1>8, <1>9, <1>10, NoVoteKeeps DEF NoVote

\* The other packets that are no part of an election.
LEMMA ReceiveNewsVotes ==
  ASSUME VoteInv, NEW m \in net, ReceiveFail(m) \/ ReceiveUpdate(m)
  PROVE  VoteInv'
<1>1. m.to \in Node /\ m.currentEpoch \in Nat /\ currentEpoch[m.to] \in Nat
  BY DEF VoteInv, VoteType, Auth
<1>2. /\ net' = net \ {m}
      /\ currentEpoch' = [currentEpoch EXCEPT ![m.to] = Max({currentEpoch[m.to], m.currentEpoch})]
      /\ UNCHANGED <<lastVoteEpoch, granted, won>>
  BY DEF ReceiveFail, ReceiveUpdate, ReceivePacket
<1>3. PICK manual \in BOOLEAN : auth' = [auth EXCEPT ![m.to].manual = manual]
  <2>1. CASE ReceiveFail(m)
    <3>1. auth' = auth /\ auth[m.to].manual \in BOOLEAN
      BY <1>1, <2>1 DEF ReceiveFail, VoteInv, VoteType, Auth
    <3>2. auth = [auth EXCEPT ![m.to].manual = auth[m.to].manual]
      BY <1>1 DEF VoteInv, VoteType, Auth
    <3> QED BY <3>1, <3>2
  <2>2. CASE ReceiveUpdate(m)
    BY <2>2 DEF ReceiveUpdate
  <2> QED BY <2>1, <2>2
<1>4. Max({currentEpoch[m.to], m.currentEpoch}) \in Nat
      /\ Max({currentEpoch[m.to], m.currentEpoch}) >= currentEpoch[m.to]
  BY <1>1, MaxOfTwo
<1>5. VoteType'
  <2>1. currentEpoch' \in [Node -> Nat]
    BY <1>1, <1>2, <1>4 DEF VoteInv, VoteType, Auth
  <2>2. auth' \in [Node -> Auth]
    BY <1>1, <1>3, ManualAuth DEF VoteInv, VoteType
  <2> QED BY <1>2, <2>1, <2>2 DEF VoteInv, VoteType
<1>6. Requests' \subseteq Requests /\ Acks' \subseteq Acks
  BY <1>2 DEF Requests, Acks
<1>7. \A x \in Node : /\ auth'[x].phase = auth[x].phase /\ auth'[x].epoch = auth[x].epoch
                      /\ auth'[x].count = auth[x].count /\ auth'[x].voters = auth[x].voters
  BY <1>1, <1>3, ManualAuth DEF VoteInv, VoteType
<1>8. \A x \in Node : currentEpoch'[x] >= currentEpoch[x]
  BY <1>1, <1>2, <1>4 DEF VoteInv, VoteType
<1> QED BY <1>2, <1>5, <1>6, <1>7, <1>8, NoVoteKeeps DEF NoVote

\* A vote: the epoch is the one of the candidate's latest election, and the voter has
\* not voted in it.
LEMMA ReceiveAuthRequestVotes ==
  ASSUME VoteInv, NEW m \in net, ReceiveAuthRequest(m)
  PROVE  VoteInv'
<1> DEFINE n == m.to
           c == m.from
           e == Max({currentEpoch[n], m.currentEpoch})
           h == Header(n, Seen(m), e, "ack", c)
<1>1. n \in Node /\ c \in Node /\ m.currentEpoch \in Nat /\ currentEpoch[n] \in Nat
      /\ lastVoteEpoch[n] \in Nat
  BY DEF VoteInv, VoteType, Auth
<1>2. e \in Nat /\ e >= currentEpoch[n] /\ e >= m.currentEpoch
  BY <1>1, MaxOfTwo
<1>3. m \in Requests /\ currentEpoch' = [currentEpoch EXCEPT ![n] = e]
      /\ auth' = auth /\ won' = won
  BY DEF ReceiveAuthRequest, ReceivePacket, Requests
<1>4. h.type = "ack" /\ h.from = n /\ h.to = c /\ h.currentEpoch = e
  BY HeaderFields
<1> HIDE DEF e, h
<1>5. PICK votes \in BOOLEAN :
        /\ votes => Grants(n, Seen(m), e, m)
        /\ lastVoteEpoch' = IF votes THEN [lastVoteEpoch EXCEPT ![n] = e] ELSE lastVoteEpoch
        /\ net' = (net \ {m}) \cup (IF votes THEN {h} ELSE {})
        /\ granted' = IF votes THEN granted \cup {<<n, e, c>>} ELSE granted
  <2>1. PICK recent : LET votes == Grants(n, Seen(m), e, m) /\ ~recent
                      IN  /\ lastVoteEpoch' = IF votes THEN [lastVoteEpoch EXCEPT ![n] = e] ELSE lastVoteEpoch
                          /\ net' = (net \ {m}) \cup (IF votes THEN {h} ELSE {})
                          /\ granted' = IF votes THEN granted \cup {<<n, e, c>>} ELSE granted
    BY DEF ReceiveAuthRequest, e, h
  <2> QED BY <2>1
<1>6. CASE ~votes
  <2>1. lastVoteEpoch' = lastVoteEpoch /\ granted' = granted /\ net' = net \ {m}
    BY <1>5, <1>6
  <2>2. VoteType'
    BY <1>1, <1>2, <1>3, <2>1 DEF VoteInv, VoteType, Auth
  <2>3. Requests' \subseteq Requests /\ Acks' \subseteq Acks
    BY <2>1 DEF Requests, Acks
  <2>4. \A x \in Node : currentEpoch'[x] >= currentEpoch[x]
    BY <1>1, <1>2, <1>3 DEF VoteInv, VoteType, Auth
  <2> QED BY <1>3, <2>1, <2>2, <2>3, <2>4, NoVoteKeeps DEF NoVote
<1>7. CASE votes
  <2>1. /\ lastVoteEpoch' = [lastVoteEpoch EXCEPT ![n] = e]
        /\ net' = (net \ {m}) \cup {h} /\ granted' = granted \cup {<<n, e, c>>}
    BY <1>5, <1>7
  <2>2. m.currentEpoch >= e /\ lastVoteEpoch[n] # e
    BY <1>5, <1>7 DEF Grants
  <2>3. e = m.currentEpoch /\ e = auth[c].epoch /\ auth[c].phase # "scheduled"
    BY <1>1, <1>2, <1>3, <2>2 DEF VoteInv, LatestElection
  <2>4. lastVoteEpoch[n] < e
    BY <1>1, <1>2, <2>2 DEF VoteInv, VotesPast
  <2>5. \A g \in granted : g[1] = n => g[2] < e
    <3> SUFFICES ASSUME NEW g \in granted, g[1] = n PROVE g[2] < e
      OBVIOUS
    <3>1. g[2] \in Nat /\ g[2] <= lastVoteEpoch[n]
      BY DEF VoteInv, VoteType, Auth, VotesPast
    <3> QED BY <1>1, <1>2, <2>4, <3>1
  <2>6. VoteType'
    BY <1>1, <1>2, <1>3, <1>4, <2>1 DEF VoteInv, VoteType, Auth
  <2>7. VotesPast'
    <3>1. ASSUME NEW g \in granted' PROVE g[2] <= lastVoteEpoch'[g[1]]
      <4>1. CASE g = <<n, e, c>>
        BY <1>1, <1>2, <2>1, <4>1 DEF VoteInv, VoteType, Auth
      <4>2. CASE g \in granted
        <5>1. g[1] \in Node /\ g[2] \in Nat /\ g[2] <= lastVoteEpoch[g[1]] /\ (g[1] = n => g[2] < e)
          BY <2>5, <4>2 DEF VoteInv, VoteType, Auth, VotesPast
        <5> QED BY <1>1, <1>2, <2>1, <5>1 DEF VoteInv, VoteType, Auth
      <4> QED BY <2>1, <4>1, <4>2
    <3>2. \A x \in Node : lastVoteEpoch'[x] <= currentEpoch'[x]
      BY <1>1, <1>2, <1>3, <2>1 DEF VoteInv, VoteType, Auth, VotesPast
    <3> QED BY <3>1, <3>2 DEF VotesPast
  <2>8. Requests' \subseteq Requests /\ Acks' = Acks \cup {h}
    BY <1>3, <1>4, <2>1 DEF Requests, Acks
  <2>9. <<n, e, c>> \notin granted
    BY <1>1, <1>2, <2>5
  <2>10. LatestElection'
    <3>1. \A q \in Requests' : q.currentEpoch = auth'[q.from].epoch /\ auth'[q.from].phase # "scheduled"
      BY <1>3, <2>8 DEF VoteInv, LatestElection
    <3>2. n \notin auth[c].voters
      BY <1>1, <2>3, <2>9 DEF VoteInv, Counted
    <3>3. \A q \in Acks : ~(q.from = n /\ q.to = c)
      <4> SUFFICES ASSUME NEW q \in Acks, q.from = n, q.to = c PROVE FALSE
        OBVIOUS
      <4>1. q.currentEpoch = auth[c].epoch /\ <<n, q.currentEpoch, c>> \in granted
        BY DEF VoteInv, LatestElection
      <4> QED BY <2>3, <2>9, <4>1
    <3>4. \A q \in Acks' : /\ q.currentEpoch = auth'[q.to].epoch
                           /\ auth'[q.to].phase # "scheduled"
                           /\ <<q.from, q.currentEpoch, q.to>> \in granted'
                           /\ q.from \notin auth'[q.to].voters
      BY <1>3, <1>4, <2>1, <2>3, <2>8, <3>2 DEF VoteInv, LatestElection
    <3>5. \A q1, q2 \in Acks' : q1.from = q2.from /\ q1.to = q2.to => q1 = q2
      BY <1>4, <2>8, <3>3 DEF VoteInv, LatestElection
    <3>6. \A x \in Node : auth'[x].epoch <= currentEpoch'[x]
      BY <1>1, <1>2, <1>3 DEF VoteInv, VoteType, Auth, LatestElection
    <3>7. \A g \in granted' : g[2] <= auth'[g[3]].epoch
      BY <1>1, <1>2, <1>3, <2>1, <2>3 DEF VoteInv, VoteType, Auth, LatestElection
    <3> QED BY <3>1, <3>4, <3>5, <3>6, <3>7 DEF LatestElection
  <2>11. Counted'
    BY <1>3, <2>1 DEF VoteInv, Counted
  <2>12. OneVote'
    BY <1>1, <1>2, <2>1, <2>5 DEF VoteInv, VoteType, Auth, OneVote
  <2>13. WonByVotes'
    BY <1>3, <2>1, <2>6, GrantsGrow DEF VoteInv
  <2> QED BY <2>6, <2>7, <2>10, <2>11, <2>12, <2>13 DEF VoteInv
<1> QED BY <1>6, <1>7

\* A vote that is counted is one that was not counted before.
LEMMA ReceiveAuthAckVotes ==
  ASSUME VoteInv, NEW m \in net, ReceiveAuthAck(m)
  PROVE  VoteInv'
<1> DEFINE n == m.to
           e == Max({currentEpoch[n], m.currentEpoch})
<1>1. n \in Node /\ m.from \in Node /\ m.currentEpoch \in Nat /\ currentEpoch[n] \in Nat
  BY DEF VoteInv, VoteType, Auth
<1>2. e \in Nat /\ e >= currentEpoch[n]
  BY <1>1, MaxOfTwo
<1>3. /\ m \in Acks /\ currentEpoch' = [currentEpoch EXCEPT ![n] = e]
      /\ net' = net \ {m} /\ lastVoteEpoch' = lastVoteEpoch /\ granted' = granted /\ won' = won
  BY DEF ReceiveAuthAck, ReceivePacket, Acks
<1>4. auth' \in {auth, [auth EXCEPT ![n].count = @ + 1, ![n].voters = @ \cup {m.from}]}
  BY DEF ReceiveAuthAck
<1> HIDE DEF e
<1>5. currentEpoch' \in [Node -> Nat] /\ \A x \in Node : currentEpoch'[x] >= currentEpoch[x]
  BY <1>1, <1>2, <1>3 DEF VoteInv, VoteType, Auth
<1>6. Requests' = Requests /\ Acks' = Acks \ {m}
  BY <1>3 DEF Requests, Acks
<1>7. CASE auth' = auth
  <2>1. VoteType'
    BY <1>3, <1>5, <1>7 DEF VoteInv, VoteType, Auth
  <2> QED BY <1>3, <1>5, <1>6, <1>7, <2>1, NoVoteKeeps DEF NoVote
<1>8. CASE auth' = [auth EXCEPT ![n].count = @ + 1, ![n].voters = @ \cup {m.from}]
  <2>0. auth[n] \in Auth /\ auth \in [Node -> Auth]
    BY <1>1 DEF VoteInv, VoteType, Auth
  <2>1. auth' \in [Node -> Auth]
    BY <1>1, <1>8, <2>0 DEF Auth
  <2>2. VoteType'
    BY <1>3, <1>5, <2>1 DEF VoteInv, VoteType, Auth
  <2>3. \A x \in Node : /\ auth'[x].phase = auth[x].phase /\ auth'[x].epoch = auth[x].epoch
                        /\ x # n => auth'[x].count = auth[x].count /\ auth'[x].voters = auth[x].voters
    BY <1>1, <1>8 DEF VoteInv, VoteType, Auth
  <2>4. auth'[n].count = auth[n].count + 1 /\ auth'[n].voters = auth[n].voters \cup {m.from}
    BY <1>1, <1>8 DEF VoteInv, VoteType, Auth
  <2>5. /\ m.from \notin auth[n].voters /\ m.currentEpoch = auth[n].epoch
        /\ <<m.from, m.currentEpoch, n>> \in granted /\ auth[n].phase # "scheduled"
    BY <1>3 DEF VoteInv, LatestElection
  <2>6. VotesPast'
    BY <1>3, <1>5 DEF VoteInv, VoteType, Auth, VotesPast
  <2>7. LatestElection'
    <3>1. \A q \in Requests' : q.currentEpoch = auth'[q.from].epoch /\ auth'[q.from].phase # "scheduled"
      BY <1>6, <2>3 DEF VoteInv, VoteType, Auth, LatestElection, Requests
    <3>2. ASSUME NEW q \in Acks'
          PROVE  /\ q.currentEpoch = auth'[q.to].epoch
                 /\ auth'[q.to].phase # "scheduled"
                 /\ <<q.from, q.currentEpoch, q.to>> \in granted'
                 /\ q.from \notin auth'[q.to].voters
      <4>1. /\ q \in Acks /\ q # m /\ q.to \in Node
            /\ q.currentEpoch = auth[q.to].epoch /\ auth[q.to].phase # "scheduled"
            /\ <<q.from, q.currentEpoch, q.to>> \in granted /\ q.from \notin auth[q.to].voters
        BY <1>6 DEF VoteInv, VoteType, Auth, LatestElection, Acks
      <4>2. ~(q.from = m.from /\ q.to = n)
        BY <1>3, <4>1 DEF VoteInv, LatestElection
      <4> QED BY <1>3, <2>3, <2>4, <4>1, <4>2
    <3>3. \A q1, q2 \in Acks' : q1.from = q2.from /\ q1.to = q2.to => q1 = q2
      BY <1>6 DEF VoteInv, LatestElection
    <3>4. \A x \in Node : auth'[x].epoch <= currentEpoch'[x]
      BY <1>5, <2>3 DEF VoteInv, VoteType, Auth, LatestElection
    <3>5. \A g \in granted' : g[2] <= auth'[g[3]].epoch
      BY <1>3, <2>3 DEF VoteInv, VoteType, Auth, LatestElection
    <3> QED BY <3>1, <3>2, <3>3, <3>4, <3>5 DEF LatestElection
  <2>8. Counted'
    <3>1. IsFiniteSet(auth[n].voters)
      <4>1. auth[n].voters \in SUBSET Node
        BY <1>1 DEF VoteInv, VoteType, Auth
      <4> QED BY <4>1, ClusterAssumption, FS_Subset
    <3>2. Cardinality(auth'[n].voters) = Cardinality(auth[n].voters) + 1
      BY <2>4, <2>5, <3>1, FS_AddElement, ZenonT(20)
    <3>3. auth'[n].count = Cardinality(auth'[n].voters)
      BY <1>1, <2>4, <3>2 DEF VoteInv, Counted
    <3>4. \A y \in auth'[n].voters : <<y, auth'[n].epoch, n>> \in granted'
      BY <1>1, <1>3, <2>3, <2>4, <2>5 DEF VoteInv, Counted
    <3>5. auth'[n].phase # "scheduled"
      BY <1>1, <2>3, <2>5
    <3>6. \A x \in Node \ {n} : /\ auth'[x].count = Cardinality(auth'[x].voters)
                                /\ \A y \in auth'[x].voters : <<y, auth'[x].epoch, x>> \in granted'
                                /\ auth'[x].phase = "scheduled" => auth'[x].voters = {}
      BY <1>3, <2>3 DEF VoteInv, Counted
    <3> QED BY <3>3, <3>4, <3>5, <3>6 DEF Counted
  <2>9. OneVote' /\ WonByVotes'
    BY <1>3 DEF VoteInv, OneVote, WonByVotes
  <2> QED BY <2>2, <2>6, <2>7, <2>8, <2>9 DEF VoteInv
<1> QED BY <1>4, <1>7, <1>8

\* A new election starts without packets of an earlier one.
LEMMA ScheduleVotes ==
  ASSUME VoteInv, ~env.lateVotes, NEW n \in Node, Schedule(n)
  PROVE  VoteInv'
<1>1. auth' = [auth EXCEPT ![n] = [@ EXCEPT !.phase = "scheduled", !.count = 0, !.voters = {}]]
      /\ UNCHANGED <<currentEpoch, lastVoteEpoch, granted, won>>
  BY DEF Schedule
<1>2. PICK links \in SomeLinks(n, LocalSlaves(n)) :
        net' = (net \ OldElection(n)) \cup BroadcastPong(n, view[n], currentEpoch[n], links)
  BY DEF Schedule
<1>3. LocalSlaves(n) \in SUBSET Node /\ currentEpoch[n] \in Nat
  BY DEF LocalSlaves, Others, VoteInv, VoteType, Auth
<1>4. \A h \in BroadcastPong(n, view[n], currentEpoch[n], links) : Addressed(h) /\ h.type = "bcast"
  BY <1>3, BroadcastVotes
<1>5. Requests' = {m \in Requests : m.from # n} /\ Acks' = {m \in Acks : m.to # n}
  BY <1>2, <1>4 DEF Requests, Acks, OldElection
<1>6. auth' \in [Node -> Auth]
  <2>1. auth[n] \in Auth /\ auth \in [Node -> Auth]
    BY DEF VoteInv, VoteType, Auth
  <2>2. [auth[n] EXCEPT !.phase = "scheduled", !.count = 0, !.voters = {}] \in Auth
    BY <2>1 DEF Auth
  <2> QED BY <1>1, <2>1, <2>2
<1>7. VoteType'
  BY <1>1, <1>2, <1>4, <1>6 DEF VoteInv, VoteType, Auth, Addressed
<1>8. \A x \in Node : /\ auth'[x].epoch = auth[x].epoch
                      /\ x # n => /\ auth'[x].phase = auth[x].phase /\ auth'[x].count = auth[x].count
                                  /\ auth'[x].voters = auth[x].voters
  BY <1>1 DEF VoteInv, VoteType, Auth
<1>9. auth'[n].count = 0 /\ auth'[n].voters = {}
  BY <1>1 DEF VoteInv, VoteType, Auth
<1>10. VotesPast' /\ OneVote' /\ WonByVotes'
  BY <1>1 DEF VoteInv, VotesPast, OneVote, WonByVotes
<1>11. LatestElection'
  <2>1. \A m \in Requests' : m.currentEpoch = auth'[m.from].epoch /\ auth'[m.from].phase # "scheduled"
    BY <1>5, <1>8 DEF VoteInv, VoteType, Auth, LatestElection, Requests
  <2>2. \A m \in Acks' : /\ m.currentEpoch = auth'[m.to].epoch
                         /\ auth'[m.to].phase # "scheduled"
                         /\ <<m.from, m.currentEpoch, m.to>> \in granted'
                         /\ m.from \notin auth'[m.to].voters
    BY <1>1, <1>5, <1>8 DEF VoteInv, VoteType, Auth, LatestElection, Acks
  <2>3. \A m1, m2 \in Acks' : m1.from = m2.from /\ m1.to = m2.to => m1 = m2
    BY <1>5 DEF VoteInv, LatestElection
  <2>4. \A x \in Node : auth'[x].epoch <= currentEpoch'[x]
    BY <1>1, <1>8 DEF VoteInv, LatestElection
  <2>5. \A g \in granted' : g[2] <= auth'[g[3]].epoch
    BY <1>1, <1>8 DEF VoteInv, VoteType, Auth, LatestElection
  <2> QED BY <2>1, <2>2, <2>3, <2>4, <2>5 DEF LatestElection
<1>12. Counted'
  <2>1. \A x \in Node \ {n} : /\ auth'[x].count = Cardinality(auth'[x].voters)
                              /\ \A y \in auth'[x].voters : <<y, auth'[x].epoch, x>> \in granted'
                              /\ auth'[x].phase = "scheduled" => auth'[x].voters = {}
    BY <1>1, <1>8 DEF VoteInv, Counted
  <2>2. auth'[n].count = Cardinality(auth'[n].voters)
    BY <1>9, FS_EmptySet
  <2> QED BY <1>9, <2>1, <2>2 DEF Counted
<1> QED BY <1>7, <1>10, <1>11, <1>12 DEF VoteInv

LEMMA StartElectionVotes ==
  ASSUME VoteInv, NEW n \in Node, StartElection(n)
  PROVE  VoteInv'
<1> DEFINE e == currentEpoch[n] + 1
           asked == {[Header(n, view[n], e, "authrequest", to) EXCEPT !.force = auth[n].manual] : to \in Others(n)}
<1>1. /\ auth[n].phase = "scheduled" /\ currentEpoch' = [currentEpoch EXCEPT ![n] = e]
      /\ auth' = [auth EXCEPT ![n] = [@ EXCEPT !.phase = "sent", !.epoch = e]]
      /\ net' = net \cup asked /\ UNCHANGED <<lastVoteEpoch, granted, won>>
  BY DEF StartElection
<1>2. currentEpoch[n] \in Nat /\ e \in Nat /\ e > currentEpoch[n]
  BY DEF VoteInv, VoteType, Auth
<1>3. \A h \in asked : h.type = "authrequest" /\ h.from = n /\ h.to \in Node /\ h.currentEpoch = e
  BY ZenonT(20) DEF Header, Others
<1> HIDE DEF e, asked
<1>4. currentEpoch' \in [Node -> Nat] /\ \A x \in Node : currentEpoch'[x] >= currentEpoch[x]
  BY <1>1, <1>2 DEF VoteInv, VoteType, Auth
<1>5. auth' \in [Node -> Auth]
  <2>1. auth[n] \in Auth /\ auth \in [Node -> Auth]
    BY DEF VoteInv, VoteType, Auth
  <2>2. [auth[n] EXCEPT !.phase = "sent", !.epoch = e] \in Auth
    BY <1>2, <2>1 DEF Auth
  <2> QED BY <1>1, <2>1, <2>2
<1>6. VoteType'
  BY <1>1, <1>2, <1>3, <1>4, <1>5 DEF VoteInv, VoteType, Auth
<1>7. \A x \in Node : /\ auth'[x].count = auth[x].count /\ auth'[x].voters = auth[x].voters
                      /\ x # n => auth'[x].phase = auth[x].phase /\ auth'[x].epoch = auth[x].epoch
  BY <1>1 DEF VoteInv, VoteType, Auth
<1>8. auth'[n].phase = "sent" /\ auth'[n].epoch = e
  BY <1>1 DEF VoteInv, VoteType, Auth
<1>9. auth[n].epoch <= currentEpoch[n] /\ auth[n].epoch \in Nat
  BY DEF VoteInv, VoteType, Auth, LatestElection
<1>10. (\A m \in Requests : m.from # n) /\ (\A m \in Acks : m.to # n)
  BY <1>1 DEF VoteInv, LatestElection
<1>11. Requests' = Requests \cup asked /\ Acks' = Acks
  BY <1>1, <1>3 DEF Requests, Acks
<1>12. VotesPast' /\ OneVote' /\ WonByVotes'
  BY <1>1, <1>4 DEF VoteInv, VoteType, Auth, VotesPast, OneVote, WonByVotes
<1>13. auth[n].voters = {}
  BY <1>1 DEF VoteInv, Counted
<1>14. LatestElection'
  <2>1. \A m \in Requests' : m.currentEpoch = auth'[m.from].epoch /\ auth'[m.from].phase # "scheduled"
    <3>1. \A m \in asked : m.currentEpoch = auth'[m.from].epoch /\ auth'[m.from].phase # "scheduled"
      BY <1>3, <1>8
    <3>2. \A m \in Requests : m.currentEpoch = auth'[m.from].epoch /\ auth'[m.from].phase # "scheduled"
      BY <1>7, <1>10 DEF VoteInv, VoteType, Auth, LatestElection, Requests
    <3> QED BY <1>11, <3>1, <3>2
  <2>2. \A m \in Acks' : /\ m.currentEpoch = auth'[m.to].epoch
                         /\ auth'[m.to].phase # "scheduled"
                         /\ <<m.from, m.currentEpoch, m.to>> \in granted'
                         /\ m.from \notin auth'[m.to].voters
    BY <1>1, <1>7, <1>10, <1>11, ZenonT(20) DEF VoteInv, VoteType, Auth, LatestElection, Acks
  <2>3. \A m1, m2 \in Acks' : m1.from = m2.from /\ m1.to = m2.to => m1 = m2
    BY <1>11 DEF VoteInv, LatestElection
  <2>4. \A x \in Node : auth'[x].epoch <= currentEpoch'[x]
    <3>1. auth'[n].epoch <= currentEpoch'[n]
      BY <1>1, <1>2, <1>8 DEF VoteInv, VoteType, Auth
    <3>2. \A x \in Node \ {n} : auth'[x].epoch = auth[x].epoch /\ auth[x].epoch <= currentEpoch[x]
      BY <1>7 DEF VoteInv, LatestElection
    <3>3. \A x \in Node : currentEpoch'[x] >= currentEpoch[x] /\ currentEpoch[x] \in Nat /\ currentEpoch'[x] \in Nat
      BY <1>4 DEF VoteInv, VoteType
    <3>4. \A x \in Node : auth[x].epoch \in Nat
      BY DEF VoteInv, VoteType, Auth
    <3> QED BY <3>1, <3>2, <3>3, <3>4
  <2>5. ASSUME NEW g \in granted' PROVE g[2] <= auth'[g[3]].epoch
    <3>1. g \in granted /\ g[2] \in Nat /\ g[3] \in Node /\ g[2] <= auth[g[3]].epoch
      BY <1>1 DEF VoteInv, VoteType, Auth, LatestElection
    <3>2. CASE g[3] = n
      BY <1>2, <1>8, <1>9, <3>1, <3>2
    <3>3. CASE g[3] # n
      BY <1>7, <3>1, <3>3
    <3> QED BY <3>2, <3>3
  <2> QED BY <2>1, <2>2, <2>3, <2>4, <2>5 DEF LatestElection
<1>15. Counted'
  <2>1. \A x \in Node \ {n} : /\ auth'[x].count = Cardinality(auth'[x].voters)
                              /\ \A y \in auth'[x].voters : <<y, auth'[x].epoch, x>> \in granted'
                              /\ auth'[x].phase = "scheduled" => auth'[x].voters = {}
    BY <1>1, <1>7 DEF VoteInv, Counted
  <2>2. auth'[n].count = Cardinality(auth'[n].voters) /\ auth'[n].voters = {}
    BY <1>7, <1>13 DEF VoteInv, Counted
  <2> QED BY <2>1, <2>2 DEF Counted
<1> QED BY <1>6, <1>12, <1>14, <1>15 DEF VoteInv

\* What Win and Takeover share.
LEMMA PromoteVotes ==
  ASSUME VoteInv, NEW n \in Node, NEW v, NEW e \in Nat, e >= currentEpoch[n], Promote(n, v, e),
         UNCHANGED <<lastVoteEpoch, granted>>, won' \subseteq Node \X Nat \X Nat
  PROVE  /\ VoteType' /\ Requests' = Requests /\ Acks' = Acks
         /\ \A x \in Node : currentEpoch'[x] >= currentEpoch[x]
         /\ \A x \in Node : /\ auth'[x].phase = auth[x].phase /\ auth'[x].epoch = auth[x].epoch
                            /\ auth'[x].count = auth[x].count /\ auth'[x].voters = auth[x].voters
<1>1. /\ currentEpoch' = [currentEpoch EXCEPT ![n] = e]
      /\ auth' = [auth EXCEPT ![n].manual = FALSE]
      /\ \E links \in SomeLinks(n, Others(n)) :
           net' = net \cup BroadcastPong(n, ReplaceYourMaster(n, v), e, links)
  BY DEF Promote
<1>2. PICK links \in SomeLinks(n, Others(n)) :
        net' = net \cup BroadcastPong(n, ReplaceYourMaster(n, v), e, links)
  BY <1>1
<1>3. \A h \in BroadcastPong(n, ReplaceYourMaster(n, v), e, links) : Addressed(h) /\ h.type = "bcast"
  BY BroadcastVotes DEF Others
<1>4. currentEpoch' \in [Node -> Nat] /\ \A x \in Node : currentEpoch'[x] >= currentEpoch[x]
  BY <1>1 DEF VoteInv, VoteType
<1>5. auth' \in [Node -> Auth]
  BY <1>1, ManualAuth DEF VoteInv, VoteType
<1>6. \A x \in Node : /\ auth'[x].phase = auth[x].phase /\ auth'[x].epoch = auth[x].epoch
                      /\ auth'[x].count = auth[x].count /\ auth'[x].voters = auth[x].voters
  BY <1>1, ManualAuth DEF VoteInv, VoteType
<1>7. VoteType'
  BY <1>2, <1>3, <1>4, <1>5 DEF VoteInv, VoteType, Addressed
<1>8. Requests' = Requests /\ Acks' = Acks
  BY <1>2, <1>3 DEF Requests, Acks
<1> QED BY <1>4, <1>6, <1>7, <1>8

LEMMA QuorumType ==
  ASSUME NEW n
  PROVE  NeededQuorum(n) \in Nat
<1> DEFINE v == view[n]
<1>1. Size(v) \in Nat
  <2> DEFINE M == {m \in Node : IsMaster(v, m) /\ SlotsOf(v, m) # {}}
  <2>1. IsFiniteSet(M)
    BY ClusterAssumption, FS_Subset
  <2> QED BY <2>1, FS_CardinalityType DEF Size
<1> QED BY <1>1 DEF NeededQuorum

LEMMA WinVotes ==
  ASSUME VoteInv, NEW n \in Node, Win(n)
  PROVE  VoteInv'
<1> DEFINE q == NeededQuorum(n)
           w == <<n, auth[n].epoch, q>>
           V == {x \in Node : <<x, auth[n].epoch, n>> \in granted}
<1>1. q \in Nat /\ auth[n].epoch \in Nat /\ currentEpoch[n] \in Nat /\ auth[n].count \in Nat
      /\ auth[n].voters \subseteq Node
  BY QuorumType DEF VoteInv, VoteType, Auth
<1>2. auth[n].count >= q /\ won' = won \cup {w} /\ UNCHANGED <<lastVoteEpoch, granted>>
      /\ \E v : Promote(n, v, currentEpoch[n])
  BY DEF Win, VotesNeeded
<1> HIDE DEF q
<1>3. won' \subseteq Node \X Nat \X Nat
  BY <1>1, <1>2 DEF VoteInv, VoteType
<1>4. /\ VoteType' /\ Requests' = Requests /\ Acks' = Acks
      /\ \A x \in Node : currentEpoch'[x] >= currentEpoch[x]
      /\ \A x \in Node : /\ auth'[x].phase = auth[x].phase /\ auth'[x].epoch = auth[x].epoch
                         /\ auth'[x].count = auth[x].count /\ auth'[x].voters = auth[x].voters
  <2>1. PICK v : Promote(n, v, currentEpoch[n])
    BY <1>2
  <2>2. currentEpoch[n] \in Nat
    BY <1>1
  <2>3. currentEpoch[n] >= currentEpoch[n]
    BY <2>2
  <2> QED BY <1>2, <1>3, <2>1, <2>2, <2>3, PromoteVotes
<1>5. Cardinality(V) >= q
  <2>1. IsFiniteSet(V) /\ auth[n].voters \in SUBSET V
    BY <1>1, ClusterAssumption, FS_Subset DEF VoteInv, Counted
  <2>2. IsFiniteSet(auth[n].voters) /\ Cardinality(auth[n].voters) <= Cardinality(V)
    BY <2>1, FS_Subset
  <2>3. Cardinality(V) \in Nat
    BY <2>1, FS_CardinalityType
  <2>4. Cardinality(auth[n].voters) = auth[n].count
    BY DEF VoteInv, Counted
  <2> HIDE DEF V
  <2>5. auth[n].count <= Cardinality(V) /\ auth[n].count \in Nat /\ q \in Nat /\ auth[n].count >= q
    BY <1>1, <1>2, <2>2, <2>4
  <2> QED BY <2>3, <2>5
<1>6. WonByVotes'
  <2> SUFFICES ASSUME NEW u \in won'
               PROVE  Cardinality({x \in Node : <<x, u[2], u[1]>> \in granted'}) >= u[3]
    BY DEF WonByVotes
  <2>1. CASE u \in won
    BY <1>2, <2>1 DEF VoteInv, WonByVotes
  <2>2. CASE u = w
    BY <1>2, <1>5, <2>2
  <2> QED BY <1>2, <2>1, <2>2
<1>7. VotesPast' /\ OneVote'
  BY <1>2, <1>4 DEF VoteInv, VoteType, VotesPast, OneVote
<1>8. LatestElection'
  <2>1. \A x \in Node : auth'[x].epoch <= currentEpoch'[x]
    BY <1>4 DEF VoteInv, VoteType, Auth, LatestElection
  <2>2. \A g \in granted' : g[2] <= auth'[g[3]].epoch
    BY <1>2, <1>4 DEF VoteInv, VoteType, LatestElection
  <2>3. \A m \in Requests' : m.currentEpoch = auth'[m.from].epoch /\ auth'[m.from].phase # "scheduled"
    BY <1>4 DEF VoteInv, VoteType, LatestElection, Requests
  <2>4. \A m \in Acks' : /\ m.currentEpoch = auth'[m.to].epoch
                         /\ auth'[m.to].phase # "scheduled"
                         /\ <<m.from, m.currentEpoch, m.to>> \in granted'
                         /\ m.from \notin auth'[m.to].voters
    <3>1. \A m \in Acks : m.to \in Node
      BY DEF VoteInv, VoteType, Acks
    <3>2. \A m \in Acks : /\ m.currentEpoch = auth[m.to].epoch
                          /\ auth[m.to].phase # "scheduled"
                          /\ <<m.from, m.currentEpoch, m.to>> \in granted
                          /\ m.from \notin auth[m.to].voters
      BY DEF VoteInv, LatestElection
    <3> QED BY <1>2, <1>4, <3>1, <3>2
  <2>5. \A m1, m2 \in Acks' : m1.from = m2.from /\ m1.to = m2.to => m1 = m2
    BY <1>4 DEF VoteInv, LatestElection
  <2> QED BY <2>1, <2>2, <2>3, <2>4, <2>5 DEF LatestElection
<1>9. Counted'
  BY <1>2, <1>4 DEF VoteInv, Counted
<1> QED BY <1>4, <1>6, <1>7, <1>8, <1>9 DEF VoteInv

\* Commands and timeouts.
Timely(n) ==
  \/ Takeover(n) \/ BumpEpoch(n) \/ ForceFailover(n) \/ ForceTimeout(n) \/ ElectionTimeout(n)
  \/ WritableDelayOver(n)
  \/ \E m \in Node : PongTimeout(n, m)

LEMMA CommandVotes ==
  ASSUME VoteInv, NEW n \in Node,
         Timely(n)
  PROVE  VoteInv'
<1>0. currentEpoch[n] \in Nat
  BY DEF VoteInv, VoteType
<1>1. Bumped(n) \in Nat /\ Bumped(n) >= currentEpoch[n]
  BY <1>0 DEF Bumped
<1>2. CASE Takeover(n)
  <2>1. UNCHANGED <<lastVoteEpoch, granted, won>> /\ \E v : Promote(n, v, Bumped(n))
    BY <1>2 DEF Takeover
  <2>2. PICK v : Promote(n, v, Bumped(n))
    BY <2>1
  <2>3. won' \subseteq Node \X Nat \X Nat
    BY <2>1 DEF VoteInv, VoteType
  <2> QED BY <1>1, <2>1, <2>2, <2>3, PromoteVotes, NoVoteKeeps DEF NoVote
<1>3. CASE BumpEpoch(n)
  <2>1. currentEpoch' = [currentEpoch EXCEPT ![n] = Bumped(n)]
        /\ UNCHANGED <<lastVoteEpoch, auth, net, granted, won>>
    BY <1>3 DEF BumpEpoch
  <2>2. VoteType' /\ \A x \in Node : currentEpoch'[x] >= currentEpoch[x]
    BY <1>1, <2>1 DEF VoteInv, VoteType
  <2> QED BY <2>1, <2>2, NoVoteKeeps DEF NoVote, Requests, Acks
<1>4. CASE ForceFailover(n) \/ ForceTimeout(n) \/ ElectionTimeout(n)
  <2>1. /\ UNCHANGED <<currentEpoch, lastVoteEpoch, net, granted, won>>
        /\ \/ auth' = [auth EXCEPT ![n].manual = TRUE]
           \/ auth' = [auth EXCEPT ![n].manual = FALSE]
           \/ auth' = [auth EXCEPT ![n].phase = "none"]
    BY <1>4 DEF ForceFailover, ForceTimeout, ElectionTimeout
  <2>2. auth \in [Node -> Auth]
    BY DEF VoteInv, VoteType
  <2>3. /\ auth' \in [Node -> Auth]
        /\ \A x \in Node : /\ auth'[x].phase \in {auth[x].phase, "none"} /\ auth'[x].epoch = auth[x].epoch
                           /\ auth'[x].count = auth[x].count /\ auth'[x].voters = auth[x].voters
    <3>1. CASE auth' = [auth EXCEPT ![n].phase = "none"]
      BY <2>2, <3>1 DEF Auth
    <3> QED BY <2>1, <2>2, <3>1, ManualAuth
  <2>4. VoteType' /\ \A x \in Node : currentEpoch'[x] >= currentEpoch[x]
    BY <2>1, <2>3 DEF VoteInv, VoteType
  <2> QED BY <2>1, <2>3, <2>4, NoVoteKeeps DEF NoVote, Requests, Acks
<1>5. CASE WritableDelayOver(n) \/ \E m \in Node : PongTimeout(n, m)
  <2>1. UNCHANGED <<currentEpoch, lastVoteEpoch, auth, net, granted, won>>
    BY <1>5 DEF WritableDelayOver, PongTimeout
  <2>2. VoteType' /\ \A x \in Node : currentEpoch'[x] >= currentEpoch[x]
    BY <2>1 DEF VoteInv, VoteType
  <2> QED BY <2>1, <2>2, NoVoteKeeps DEF NoVote, Requests, Acks
<1> QED BY <1>2, <1>3, <1>4, <1>5 DEF Timely

LEMMA InitVotes == Init => VoteInv
<1> SUFFICES ASSUME Init PROVE VoteInv
  OBVIOUS
<1> DEFINE E == {env.epoch[m] : m \in Node}
<1>0. env.epoch \in [Node -> Nat]
  BY ClusterAssumption DEF Init, Scenario
<1>1. currentEpoch \in [Node -> Nat]
  <2>1. IsFiniteSet(E) /\ E \subseteq Nat
    <3>1. env.epoch \in Surjection(Node, E)
      BY <1>0 DEF Surjection
    <3> QED BY <1>0, <3>1, ClusterAssumption, FS_Surjection
  <2>2. Node # {} => Max(E) \in Nat
    BY <2>1, MaxOfSet
  <2> QED BY <2>2 DEF Init
<1>2. /\ lastVoteEpoch = [n \in Node |-> 0] /\ auth = [n \in Node |-> Idle]
      /\ net = {} /\ granted = {} /\ won = {}
  BY DEF Init
<1>3. Idle \in Auth
  BY DEF Idle, Auth
<1>4. VoteType
  BY <1>1, <1>2, <1>3 DEF VoteType
<1>5. VotesPast /\ LatestElection
  BY <1>1, <1>2 DEF VotesPast, LatestElection, Requests, Acks, Idle
<1>6. Counted /\ OneVote /\ WonByVotes
  BY <1>2, FS_EmptySet DEF Counted, OneVote, WonByVotes, Idle
<1> QED BY <1>4, <1>5, <1>6 DEF VoteInv

LEMMA NextVotes ==
  ASSUME VoteInv, Steady, Next
  PROVE  VoteInv'
<1>1. CASE \E n \in Node, m \in Node : SendPing(n, m)
  BY <1>1, SendPingVotes
<1>2. CASE \E m \in net : \/ ReceiveBeat(m) \/ ReceiveFail(m) \/ ReceiveUpdate(m)
                          \/ ReceiveAuthRequest(m) \/ ReceiveAuthAck(m)
  BY <1>2, ReceiveBeatVotes, ReceiveNewsVotes, ReceiveAuthRequestVotes, ReceiveAuthAckVotes
<1>3. CASE \E n \in Node : Timely(n)
  BY <1>3, CommandVotes
<1>4. CASE \E n \in Node : Schedule(n) \/ StartElection(n) \/ Win(n)
  BY <1>4, ScheduleVotes, StartElectionVotes, WinVotes DEF Steady
<1>5. CASE \E n \in Node : Restart(n)
  BY <1>5 DEF Restart, Steady
<1> QED BY <1>1, <1>2, <1>3, <1>4, <1>5 DEF Next, Timely

LEMMA EnvStays == Next => env' = env
<1>1. ASSUME NEW m PROVE ReceiveBeat(m) => env' = env
  BY DEF ReceiveBeat
<1> QED
  BY <1>1, ZenonT(20) DEF Next, SendPing, ReceiveFail, ReceiveUpdate, ReceiveAuthRequest, ReceiveAuthAck,
              PongTimeout, Schedule, StartElection, ElectionTimeout, Win, Takeover, BumpEpoch,
              ForceFailover, ForceTimeout, Restart, WritableDelayOver

LEMMA VoteInvariant == Spec => []VoteInvSteady
<1>1. Init => VoteInvSteady
  BY InitVotes DEF VoteInvSteady
<1>2. VoteInvSteady /\ [Next]_vars => VoteInvSteady'
  <2> SUFFICES ASSUME VoteInvSteady, [Next]_vars PROVE VoteInvSteady'
    OBVIOUS
  <2>1. CASE Next
    <3>1. Steady' => Steady
      BY <2>1, EnvStays DEF Steady
    <3> QED BY <2>1, <3>1, NextVotes DEF VoteInvSteady
  <2>2. CASE UNCHANGED vars
    BY <2>2 DEF vars, VoteInvSteady, Steady, VoteInv, VoteType, VotesPast, LatestElection, Counted,
                OneVote, WonByVotes, Requests, Acks
  <2> QED BY <2>1, <2>2
<1> QED BY <1>1, <1>2, PTL DEF Spec

-----------------------------------------------------------------------------
\* As long as no master is restarted, a master gives at most one vote in an epoch
\* (lastVoteEpoch in clusterSendFailoverAuthIfNeeded), for every set of nodes.
THEOREM SingleVote == Spec => [](Steady => OneVote)
<1>1. VoteInvSteady => (Steady => OneVote)
  BY DEF VoteInvSteady, VoteInv
<1> QED BY <1>1, VoteInvariant, PTL

\* failover_auth_count never runs ahead of the votes: whoever wins an epoch has that many
\* different voters in that epoch, unless votes of an earlier election arrive late.
THEOREM VictoryByVotes == Spec => [](Steady => WonByVotes)
<1>1. VoteInvSteady => (Steady => WonByVotes)
  BY DEF VoteInvSteady, VoteInv
<1> QED BY <1>1, VoteInvariant, PTL

\* Every winner needed more than half of the nodes that voted in its epoch.
Majorities ==
  \A w \in won : 2 * w[3] > Cardinality({x \in Node : \E y \in Node : <<x, w[2], y>> \in granted})

\* Two slaves never win the same epoch, if the sizes of the cluster they computed are
\* such that both needed a majority of those who voted.  The code does not make sure of
\* that: each node takes the size from its own slots table.
THEOREM SingleWinner == Spec => [](Steady /\ Majorities => OneWinner)
<1>1. VoteInvSteady => (Steady /\ Majorities => OneWinner)
  <2> SUFFICES ASSUME VoteInv, Majorities, NEW a \in won, NEW b \in won, a[2] = b[2]
               PROVE  a[1] = b[1]
    BY DEF VoteInvSteady, OneWinner
  <2> DEFINE U == {x \in Node : \E y \in Node : <<x, a[2], y>> \in granted}
             A == {x \in Node : <<x, a[2], a[1]>> \in granted}
             B == {x \in Node : <<x, a[2], b[1]>> \in granted}
  <2>1. a[1] \in Node /\ b[1] \in Node /\ a[3] \in Nat /\ b[3] \in Nat
    BY DEF VoteInv, VoteType
  <2>2. IsFiniteSet(U) /\ IsFiniteSet(A) /\ IsFiniteSet(B)
    BY ClusterAssumption, FS_Subset
  <2>3. A \subseteq U /\ B \subseteq U
    BY <2>1
  <2>4. Cardinality(A) >= a[3] /\ Cardinality(B) >= b[3]
    BY DEF VoteInv, WonByVotes
  <2>5. 2 * a[3] > Cardinality(U) /\ 2 * b[3] > Cardinality(U)
    BY DEF Majorities
  <2>6. Cardinality(A) \in Nat /\ Cardinality(B) \in Nat /\ Cardinality(U) \in Nat
    BY <2>2, FS_CardinalityType
  <2> HIDE DEF A, B, U
  <2>7. Cardinality(A) + Cardinality(B) > Cardinality(U)
    BY <2>1, <2>4, <2>5, <2>6
  <2>8. A \cap B # {}
    BY <2>2, <2>3, <2>7, FS_MajoritiesIntersect
  <2>9. PICK x \in Node : <<x, a[2], a[1]>> \in granted /\ <<x, a[2], b[1]>> \in granted
    BY <2>8 DEF A, B
  <2> QED BY <2>9 DEF VoteInv, OneVote
<1> QED BY <1>1, VoteInvariant, PTL

-----------------------------------------------------------------------------
(* The views of the nodes.                                                  *)

\* A packet as the senders make them: it goes to another node, and one about a
\* node names it.
Proper(m) ==
  /\ m \in Packet /\ m.from # m.to
  /\ m.type \in {"fail", "update"} => m.about \in Node

RoleInv == TypeOK /\ RolesSound /\ env \in Scenarios /\ \A m \in net : Proper(m)

-----------------------------------------------------------------------------
(* Changes of a view *)

LEMMA MasterOfType ==
  ASSUME NEW v \in View, NEW m \in Node
  PROVE  MasterOf(v, m) \in Node
BY DEF View, MasterOf, IsMaster

LEMMA SeeEpochsSound ==
  ASSUME NEW v \in View, NEW n \in Node, ViewSound(n, v), NEW m \in Packet
  PROVE  SeeEpochs(v, m) \in View /\ ViewSound(n, SeeEpochs(v, m))
<1>1. v.configEpoch[m.from] \in Nat /\ m.configEpoch \in Nat /\ m.from \in Node
  BY DEF View, Packet
<1>2. Max({v.configEpoch[m.from], m.configEpoch}) \in Nat
  BY <1>1, MaxOfTwo
<1> QED BY <1>1, <1>2 DEF SeeEpochs, View, ViewSound, IsMaster

LEMMA SetNodeAsMasterSound ==
  ASSUME NEW v \in View, NEW n \in Node, ViewSound(n, v), NEW m \in Node
  PROVE  SetNodeAsMaster(v, m) \in View /\ ViewSound(n, SetNodeAsMaster(v, m))
BY ClusterAssumption DEF SetNodeAsMaster, View, ViewSound, IsMaster

LEMMA EpochSound ==
  ASSUME NEW v \in View, NEW n \in Node, ViewSound(n, v), NEW m \in Node, NEW e \in Nat
  PROVE  LET w == [v EXCEPT !.configEpoch[m] = e] IN w \in View /\ ViewSound(n, w)
BY DEF View, ViewSound, IsMaster

LEMMA DelNodeSlotsSound ==
  ASSUME NEW v \in View, NEW n \in Node, ViewSound(n, v), NEW m \in Node
  PROVE  /\ DelNodeSlots(v, m) \in View /\ ViewSound(n, DelNodeSlots(v, m))
         /\ \A s \in Slot : DelNodeSlots(v, m).slots[s] # m
BY ClusterAssumption DEF DelNodeSlots, View, ViewSound, IsMaster

LEMMA SlaveSound ==
  ASSUME NEW v \in View, NEW n \in Node, ViewSound(n, v), NEW m \in Node, NEW master \in Node,
         \A s \in Slot : v.slots[s] # m, m = n => master # n
  PROVE  LET w == [v EXCEPT !.slaveof[m] = master] IN w \in View /\ ViewSound(n, w)
<1> DEFINE w == [v EXCEPT !.slaveof[m] = master]
<1>1. w \in View /\ w.slots = v.slots /\ w.slaveof = [v.slaveof EXCEPT ![m] = master]
  BY DEF View
<1>2. v.slaveof \in [Node -> Node \cup {None}] /\ v.slots \in [Slot -> Node \cup {None}]
  BY DEF View
<1> HIDE DEF w
<1>3. w.slaveof[n] # n
  BY <1>1, <1>2 DEF ViewSound
<1>4. ASSUME NEW s \in Slot, w.slots[s] # None PROVE IsMaster(w, w.slots[s])
  BY <1>1, <1>2, <1>4 DEF ViewSound, IsMaster
<1>5. ViewSound(n, w)
  BY <1>3, <1>4 DEF ViewSound
<1> QED BY <1>1, <1>5 DEF w

LEMMA SwitchRoleSound ==
  ASSUME NEW v \in View, NEW n \in Node, ViewSound(n, v), NEW m, Proper(m), m.to = n
  PROVE  SwitchRole(v, m) \in View /\ ViewSound(n, SwitchRole(v, m))
<1>1. m.from \in Node /\ m.slaveof \in Node \cup {None} /\ m.from # n
  BY DEF Proper, Packet
<1>2. CASE m.slaveof = None
  BY <1>1, <1>2, SetNodeAsMasterSound DEF SwitchRole
<1>3. CASE m.slaveof # None
  <2> DEFINE w == IF IsMaster(v, m.from) THEN DelNodeSlots(v, m.from) ELSE v
  <2>1. w \in View /\ ViewSound(n, w)
    BY <1>1, DelNodeSlotsSound
  <2>2. \A s \in Slot : w.slots[s] # m.from
    <3>1. CASE IsMaster(v, m.from)
      BY <1>1, <3>1, DelNodeSlotsSound
    <3>2. CASE ~IsMaster(v, m.from)
      BY <1>1, <3>2, ClusterAssumption DEF ViewSound
    <3> QED BY <3>1, <3>2
  <2>3. SwitchRole(v, m) = [w EXCEPT !.slaveof[m.from] = m.slaveof]
    BY <1>3 DEF SwitchRole
  <2> HIDE DEF w
  <2> QED BY <1>1, <1>3, <2>1, <2>2, <2>3, SlaveSound
<1> QED BY <1>2, <1>3

LEMMA UpdateSlotsConfigWithSound ==
  ASSUME NEW v \in View, NEW n \in Node, ViewSound(n, v), NEW sender \in Node, IsMaster(v, sender),
         NEW epoch, NEW slots \in SUBSET Slot
  PROVE  LET w == UpdateSlotsConfigWith(n, v, sender, epoch, slots) IN w \in View /\ ViewSound(n, w)
<1> DEFINE curmaster == MasterOf(v, n)
           taken == {s \in slots : /\ v.slots[s] # sender
                                   /\ \/ v.slots[s] = None
                                      \/ v.configEpoch[v.slots[s]] < epoch}
           bound == [v EXCEPT !.slots = [s \in Slot |-> IF s \in taken THEN sender ELSE @[s]]]
           w == UpdateSlotsConfigWith(n, v, sender, epoch, slots)
<1>1. w \in {v, bound} \/ (sender # n /\ SlotsOf(bound, curmaster) = {} /\ w = [bound EXCEPT !.slaveof[n] = sender])
  BY DEF UpdateSlotsConfigWith
<1> HIDE DEF taken, w
<1>2. bound \in View /\ ViewSound(n, bound)
  BY DEF View, ViewSound, IsMaster
<1>3. bound.slaveof = v.slaveof
  BY DEF View
<1> HIDE DEF bound
<1>4. CASE sender # n /\ SlotsOf(bound, curmaster) = {} /\ w = [bound EXCEPT !.slaveof[n] = sender]
  <2>1. \A s \in Slot : bound.slots[s] # n
    <3>1. CASE IsMaster(v, n)
      BY <1>4, <3>1 DEF MasterOf, SlotsOf
    <3>2. CASE ~IsMaster(v, n)
      BY <1>2, <1>3, <3>2, ClusterAssumption DEF ViewSound, IsMaster
    <3> QED BY <3>1, <3>2
  <2> QED BY <1>2, <1>4, <2>1, SlaveSound DEF w
<1> QED BY <1>1, <1>2, <1>4 DEF w

LEMMA ClaimSlotsSound ==
  ASSUME NEW v \in View, NEW n \in Node, ViewSound(n, v), NEW m \in Packet
  PROVE  ClaimSlots(n, v, m) \in View /\ ViewSound(n, ClaimSlots(n, v, m))
<1>1. m.from \in Node /\ m.slots \in SUBSET Slot
  BY DEF Packet
<1> QED BY <1>1, UpdateSlotsConfigWithSound DEF ClaimSlots

LEMMA FlagSound ==
  ASSUME NEW v \in View, NEW n \in Node, ViewSound(n, v), NEW m \in Node, NEW f \in Flag
  PROVE  LET w == [v EXCEPT !.flags[m] = f] IN w \in View /\ ViewSound(n, w)
BY DEF View, ViewSound, IsMaster

LEMMA ClearFailureSound ==
  ASSUME NEW v \in View, NEW n \in Node, ViewSound(n, v), NEW m \in Node, NEW old
  PROVE  ClearFailure(v, m, old) \in View /\ ViewSound(n, ClearFailure(v, m, old))
BY FlagSound DEF ClearFailure, Flag

LEMMA ReportsType ==
  ASSUME NEW l \in SUBSET (Node \X Nat), NEW x \in Node
  PROVE  /\ AddFailureReport(l, x) \in SUBSET (Node \X Nat)
         /\ DelFailureReport(l, x) \in SUBSET (Node \X Nat)
BY DEF AddFailureReport, DelFailureReport

LEMMA GossipSound ==
  ASSUME NEW v \in View, NEW n \in Node, ViewSound(n, v), NEW m \in Packet, NEW expired
  PROVE  LET g == Gossip(n, v, m, expired)
         IN  g.view \in View /\ ViewSound(n, g.view) /\ g.marked \in SUBSET Node
<1> DEFINE reports == [x \in Node |-> IF x = n THEN v.reports[x]
                                      ELSE IF x \in m.failing THEN AddFailureReport(v.reports[x] \ expired, m.from)
                                      ELSE IF x \in m.fine THEN DelFailureReport(v.reports[x], m.from)
                                      ELSE v.reports[x]]
           heard == [v EXCEPT !.reports = reports]
           marked == {x \in m.failing \ {n} : MarksFailing(n, heard, x)}
           flags == [x \in Node |-> IF x \in marked THEN "fail" ELSE heard.flags[x]]
           g == Gossip(n, v, m, expired)
<1>1. g \in {[view |-> [heard EXCEPT !.flags = flags], marked |-> marked], [view |-> v, marked |-> {}]}
  BY DEF Gossip
<1>2. m.from \in Node /\ m.failing \in SUBSET Node
  BY DEF Packet
<1>3. marked \in SUBSET Node
  BY <1>2
<1>4. reports \in [Node -> SUBSET (Node \X Nat)]
  <2>1. ASSUME NEW x \in Node
        PROVE  v.reports[x] \in SUBSET (Node \X Nat) /\ v.reports[x] \ expired \in SUBSET (Node \X Nat)
    BY DEF View
  <2> QED BY <1>2, <2>1, ReportsType
<1> HIDE DEF marked, reports, g
<1>5. heard \in View /\ ViewSound(n, heard)
  BY <1>4 DEF View, ViewSound, IsMaster
<1> HIDE DEF heard
<1>6. flags \in [Node -> Flag]
  BY <1>5 DEF View, Flag
<1> HIDE DEF flags
<1>7. [heard EXCEPT !.flags = flags] \in View /\ ViewSound(n, [heard EXCEPT !.flags = flags])
  BY <1>5, <1>6 DEF View, ViewSound, IsMaster
<1> QED BY <1>1, <1>3, <1>7 DEF g

-----------------------------------------------------------------------------
(* Packets *)

Types == {"ping", "pong", "bcast", "fail", "update", "authrequest", "ack"}

LEMMA SlotsOfType ==
  ASSUME NEW v, NEW m
  PROVE  SlotsOf(v, m) \in SUBSET Slot
BY DEF SlotsOf

LEMMA HeaderType ==
  ASSUME NEW n \in Node, NEW v \in View, NEW e \in Nat, NEW type \in Types, NEW to \in Node
  PROVE  Header(n, v, e, type, to) \in Packet
<1>1. v.configEpoch[MasterOf(v, n)] \in Nat
  BY MasterOfType DEF View
<1>2. v.slaveof[n] \in Node \cup {None}
  BY DEF View
<1>3. SlotsOf(v, MasterOf(v, n)) \in SUBSET Slot
  BY SlotsOfType
<1> QED BY <1>1, <1>2, <1>3 DEF Header, Packet, Types

LEMMA BeatProper ==
  ASSUME NEW n \in Node, NEW v \in View, NEW e \in Nat, NEW type \in {"ping", "pong", "bcast"},
         NEW to \in Others(n), NEW picked \in SUBSET Node
  PROVE  Proper(Beat(n, v, e, type, to, picked))
<1> DEFINE h == Header(n, v, e, type, to)
           failing == {m \in Node : v.flags[m] = "pfail" \/ (v.flags[m] = "fail" /\ m \in picked)}
           fine == {m \in picked : v.flags[m] = "ok"}
<1>1. h \in Packet /\ h.type = type /\ h.from = n /\ h.to = to
  BY HeaderType, HeaderFields DEF Types, Others
<1>2. failing \in SUBSET Node /\ fine \in SUBSET Node
  OBVIOUS
<1>3. Beat(n, v, e, type, to, picked) = [h EXCEPT !.failing = failing, !.fine = fine]
  BY DEF Beat
<1> DEFINE p == [h EXCEPT !.failing = failing, !.fine = fine]
<1> HIDE DEF h, failing, fine
<1>4. p \in Packet
  BY <1>1, <1>2 DEF Packet
<1>5. p.type = type /\ p.from = n /\ p.to = to
  BY <1>1 DEF Packet
<1> HIDE DEF p
<1>6. Proper(p)
  BY <1>4, <1>5 DEF Proper, Others
<1> QED BY <1>3, <1>6 DEF p

LEMMA FailProper ==
  ASSUME NEW n \in Node, NEW v \in View, NEW e \in Nat, NEW marked \in SUBSET Node,
         NEW p \in FailPackets(n, v, e, marked)
  PROVE  Proper(p)
<1>1. PICK to \in Others(n) \ env.down, x \in marked : p = [Header(n, v, e, "fail", to) EXCEPT !.about = x]
  BY DEF FailPackets
<1> DEFINE h == Header(n, v, e, "fail", to)
<1>2. h \in Packet /\ h.from = n /\ h.to = to
  BY HeaderType, HeaderFields DEF Types, Others
<1> HIDE DEF h
<1> QED BY <1>1, <1>2 DEF Proper, Packet, Others, h

LEMMA UpdateProper ==
  ASSUME NEW n \in Node, NEW v \in View, NEW e \in Nat, NEW to \in Others(n), NEW about \in Node
  PROVE  Proper(UpdatePacket(n, v, e, to, about))
<1> DEFINE h == Header(n, v, e, "update", to)
           epoch == v.configEpoch[about]
           slots == SlotsOf(v, about)
<1>1. h \in Packet /\ h.from = n /\ h.to = to
  BY HeaderType, HeaderFields DEF Types, Others
<1>2. epoch \in Nat /\ slots \in SUBSET Slot
  BY SlotsOfType DEF View
<1>3. UpdatePacket(n, v, e, to, about) = [h EXCEPT !.about = about, !.aboutEpoch = epoch, !.aboutSlots = slots]
  BY DEF UpdatePacket
<1> DEFINE p == [h EXCEPT !.about = about, !.aboutEpoch = epoch, !.aboutSlots = slots]
<1> HIDE DEF h, epoch, slots
<1>4. p \in Packet
  BY <1>1, <1>2 DEF Packet
<1>5. p.from = n /\ p.to = to /\ p.about = about
  BY <1>1 DEF Packet
<1> HIDE DEF p
<1>6. Proper(p)
  BY <1>4, <1>5 DEF Proper, Others
<1> QED BY <1>3, <1>6 DEF p

LEMMA BroadcastProper ==
  ASSUME NEW n \in Node, NEW v \in View, NEW e \in Nat, NEW to \in SUBSET Others(n),
         NEW links \in SomeLinks(n, to), NEW p \in BroadcastPong(n, v, e, links)
  PROVE  Proper(p)
<1>1. PICK m \in Others(n) : p = Beat(n, v, e, "bcast", m, {})
  BY DEF BroadcastPong, SomeLinks
<1> QED BY <1>1, BeatProper

\* The slot whose owner an UPDATE is about: the first stale one.
LEMMA FirstStale ==
  ASSUME NEW S \in SUBSET Slot, S # {}
  PROVE  Min(S) \in S
<1>1. \E k \in S : \A y \in S : k <= y
  <2>1. S \subseteq Nat
    BY ClusterAssumption DEF Slot
  <2>2. PICK x \in S : TRUE
    OBVIOUS
  <2>3. PICK k \in S : \A y \in S : ~(<<y, k>> \in OpToRel(<, Nat))
    BY <2>1, NatLessThanWellFounded, WFMin
  <2>4. \A y \in S : ~(y < k)
    <3> SUFFICES ASSUME NEW y \in S, y < k PROVE FALSE
      OBVIOUS
    <3>1. <<y, k>> \in Nat \X Nat /\ <<y, k>>[1] = y /\ <<y, k>>[2] = k
      BY <2>1
    <3>2. <<y, k>> \in OpToRel(<, Nat)
      BY <3>1, Zenon DEF OpToRel
    <3> QED BY <2>3, <3>2
  <2> QED BY <2>1, <2>4
<1> QED BY <1>1 DEF Min

-----------------------------------------------------------------------------
(* Steps *)

Disk == [Node -> [currentEpoch : Nat, lastVoteEpoch : Nat]]

LEMMA ViewStep ==
  ASSUME RoleInv, NEW n \in Node, NEW v \in View, ViewSound(n, v), view' = [view EXCEPT ![n] = v]
  PROVE  view' \in [Node -> View] /\ RolesSound'
<1>1. view \in [Node -> View]
  BY DEF RoleInv, TypeOK
<1>2. \A x \in Node : view'[x] = IF x = n THEN v ELSE view[x]
  BY <1>1
<1>3. \A x \in Node : ViewSound(x, view'[x])
  BY <1>2 DEF RoleInv, RolesSound
<1> QED BY <1>1, <1>3 DEF RolesSound

LEMMA SaveStep ==
  ASSUME RoleInv, NEW n \in Node, NEW e \in Nat, NEW vote \in Nat, NEW saves, Save(n, e, vote, saves)
  PROVE  disk' \in Disk
BY DEF Save, RoleInv, TypeOK, Disk

\* What is left to show once the view and the file are done.
LEMMA Assemble ==
  ASSUME RoleInv, view' \in [Node -> View], RolesSound', disk' \in Disk,
         currentEpoch' \in [Node -> Nat], lastVoteEpoch' \in [Node -> Nat], auth' \in [Node -> Auth],
         booting' \subseteq Node, granted' \subseteq Node \X Nat \X Node, won' \subseteq Node \X Nat \X Nat,
         env' = env, NEW sent, net' \subseteq net \cup sent, \A p \in sent : Proper(p)
  PROVE  RoleInv'
<1>1. \A p \in net' : Proper(p)
  BY DEF RoleInv
<1>2. net' \subseteq Packet
  BY <1>1 DEF Proper
<1> QED BY <1>1, <1>2 DEF RoleInv, TypeOK, Disk

LEMMA Received ==
  ASSUME RoleInv, NEW m \in net
  PROVE  /\ Proper(m) /\ m \in Packet /\ m.to \in Node /\ m.from \in Others(m.to)
         /\ currentEpoch[m.to] \in Nat /\ lastVoteEpoch[m.to] \in Nat
         /\ Max({currentEpoch[m.to], m.currentEpoch}) \in Nat
         /\ view[m.to] \in View /\ Seen(m) \in View /\ ViewSound(m.to, Seen(m))
<1>1. Proper(m) /\ m \in Packet /\ m.to \in Node /\ m.from \in Others(m.to) /\ m.currentEpoch \in Nat
  BY DEF RoleInv, Proper, Packet, Others
<1>2. currentEpoch[m.to] \in Nat /\ lastVoteEpoch[m.to] \in Nat
  BY <1>1 DEF RoleInv, TypeOK
<1>3. view[m.to] \in View /\ ViewSound(m.to, view[m.to])
  BY <1>1 DEF RoleInv, TypeOK, RolesSound
<1> QED BY <1>1, <1>2, <1>3, MaxOfTwo, SeeEpochsSound DEF Seen

LEMMA SendPingRoles ==
  ASSUME RoleInv, NEW n \in Node, NEW m \in Node, SendPing(n, m)
  PROVE  RoleInv'
<1>1. PICK picked \in Picks(n) : net' = net \cup {Beat(n, view[n], currentEpoch[n], "ping", m, picked)}
  BY DEF SendPing
<1>2. env \in Scenario
  BY ClusterAssumption DEF RoleInv
<1>3. picked \in SUBSET Node
  BY <1>2 DEF Picks, Scenario
<1>4. m \in Others(n)
  BY ClusterAssumption DEF RoleInv, SendPing, Others
<1>5. view[n] \in View /\ currentEpoch[n] \in Nat
  BY DEF RoleInv, TypeOK
<1>6. Proper(Beat(n, view[n], currentEpoch[n], "ping", m, picked))
  BY <1>3, <1>4, <1>5, BeatProper
<1>7. /\ UNCHANGED <<currentEpoch, lastVoteEpoch, view, auth, booting, disk, granted, won, env>>
      /\ RolesSound'
  BY DEF SendPing, RoleInv, RolesSound
<1> DEFINE sent == {Beat(n, view[n], currentEpoch[n], "ping", m, picked)}
<1>8. net' \subseteq net \cup sent /\ \A p \in sent : Proper(p)
  BY <1>1, <1>6
<1> HIDE DEF sent
<1> QED BY <1>7, <1>8, Assemble DEF RoleInv, TypeOK, Disk

\* The views a heartbeat leads through.
LEMMA HandleBeatRoles ==
  ASSUME RoleInv, NEW m \in net, NEW e \in Nat, NEW newEpoch \in Nat, NEW role, NEW slots \in View,
         NEW g, g.view \in View, ViewSound(m.to, g.view), g.marked \in SUBSET Node, NEW picked \in SUBSET Node,
         HandleBeat(m, e, newEpoch, role, slots, g, picked),
         UNCHANGED <<lastVoteEpoch, booting, granted, won, env>>
  PROVE  RoleInv'
<1> DEFINE n == m.to
           pong == IF m.type = "ping" THEN {Beat(n, Seen(m), e, "pong", m.from, picked)} ELSE {}
           stale == IF Dirty(role, m) THEN StaleClaims(slots, m) ELSE {}
           update == IF stale # {} /\ Updates = {}
                     THEN {UpdatePacket(n, slots, e, m.from, slots.slots[Min(stale)])} ELSE {}
           fails == FailPackets(n, g.view, newEpoch, g.marked)
           manual == auth[n].manual /\ g.view.slaveof[n] = view[n].slaveof[n]
<1>1. n \in Node /\ m.from \in Others(n) /\ lastVoteEpoch[n] \in Nat /\ Seen(m) \in View /\ m \in Packet
  BY Received
<1>2. /\ currentEpoch' = [currentEpoch EXCEPT ![n] = newEpoch]
      /\ view' = [view EXCEPT ![n] = g.view]
      /\ auth' = [auth EXCEPT ![n].manual = manual]
      /\ \E saves : Save(n, newEpoch, lastVoteEpoch[n], saves)
  BY DEF HandleBeat
<1>3. PICK sent \in SUBSET (pong \cup update \cup fails) : net' = (net \ {m}) \cup sent
  BY DEF HandleBeat
<1>4. view' \in [Node -> View] /\ RolesSound'
  BY <1>1, <1>2, ViewStep
<1>5. disk' \in Disk
  BY <1>1, <1>2, SaveStep
<1>6. manual \in BOOLEAN
  OBVIOUS
<1>7. auth' \in [Node -> Auth]
  BY <1>1, <1>2, <1>6, ManualAuth DEF RoleInv, TypeOK
<1>8. currentEpoch' \in [Node -> Nat]
  BY <1>1, <1>2 DEF RoleInv, TypeOK
<1>9. \A p \in fails : Proper(p)
  BY <1>1, FailProper
<1>10. \A p \in pong : Proper(p)
  BY <1>1, BeatProper
<1>11. \A p \in update : Proper(p)
  <2> SUFFICES ASSUME stale # {} PROVE Proper(UpdatePacket(n, slots, e, m.from, slots.slots[Min(stale)]))
    OBVIOUS
  <2>1. stale \in SUBSET Slot
    BY <1>1 DEF StaleClaims, Packet
  <2>2. Min(stale) \in stale
    BY <2>1, FirstStale
  <2>3. slots.slots[Min(stale)] \in Node
    BY <2>1, <2>2 DEF StaleClaims, View
  <2> QED BY <1>1, <2>3, UpdateProper
<1> HIDE DEF pong, update, fails, manual
<1>12. net' \subseteq net \cup sent /\ \A p \in sent : Proper(p)
  BY <1>3, <1>9, <1>10, <1>11
<1> QED BY <1>4, <1>5, <1>7, <1>8, <1>12, Assemble DEF RoleInv, TypeOK

LEMMA ReceiveBeatRoles ==
  ASSUME RoleInv, NEW m \in net, ReceiveBeat(m)
  PROVE  RoleInv'
<1> DEFINE n == m.to
           e == Max({currentEpoch[n], m.currentEpoch})
           answered(old) == IF m.type = "pong" THEN ClearFailure(Seen(m), m.from, old) ELSE Seen(m)
           role(old) == SwitchRole(answered(old), m)
           slots(old) == ClaimSlots(n, role(old), m)
           collides(old) == HandleConfigEpochCollision(n, slots(old), m)
           newEpoch(old) == IF collides(old) THEN e + 1 ELSE e
           fixed(old) == IF collides(old) THEN [slots(old) EXCEPT !.configEpoch[n] = newEpoch(old)] ELSE slots(old)
<1>1. PICK picked \in Picks(n), old \in BOOLEAN,
            expired \in IF env.expiring THEN SUBSET UNION {view[n].reports[x] : x \in m.failing} ELSE {{}} :
        HandleBeat(m, e, newEpoch(old), role(old), slots(old), Gossip(n, fixed(old), m, expired), picked)
  BY Zenon DEF ReceiveBeat
<1>2. /\ Proper(m) /\ m \in Packet /\ n \in Node /\ m.from \in Node /\ e \in Nat
      /\ Seen(m) \in View /\ ViewSound(n, Seen(m))
  BY Received DEF Others
<1>3. answered(old) \in View /\ ViewSound(n, answered(old))
  BY <1>2, ClearFailureSound
<1> HIDE DEF answered, e
<1>4. role(old) \in View /\ ViewSound(n, role(old))
  BY <1>2, <1>3, SwitchRoleSound
<1> HIDE DEF role
<1>5. slots(old) \in View /\ ViewSound(n, slots(old))
  BY <1>2, <1>4, ClaimSlotsSound
<1> HIDE DEF slots
<1>6. newEpoch(old) \in Nat
  BY <1>2
<1> HIDE DEF newEpoch
<1>7. fixed(old) \in View /\ ViewSound(n, fixed(old))
  BY <1>2, <1>5, <1>6, EpochSound
<1> HIDE DEF fixed
<1> DEFINE g == Gossip(n, fixed(old), m, expired)
<1>8. g.view \in View /\ ViewSound(n, g.view) /\ g.marked \in SUBSET Node
  BY <1>2, <1>7, GossipSound
<1> HIDE DEF g
<1>9. picked \in SUBSET Node
  <2>1. env \in Scenario
    BY ClusterAssumption DEF RoleInv
  <2> QED BY <2>1 DEF Picks, Scenario
<1>10. HandleBeat(m, e, newEpoch(old), role(old), slots(old), g, picked)
  BY <1>1 DEF g
<1>11. UNCHANGED <<lastVoteEpoch, booting, granted, won, env>>
  BY DEF ReceiveBeat
<1> QED BY <1>2, <1>5, <1>6, <1>8, <1>9, <1>10, <1>11, HandleBeatRoles

\* The end of a handler that sends nothing, or one packet.
LEMMA ReceivePacketRoles ==
  ASSUME RoleInv, NEW m \in net, NEW type, NEW v \in View, ViewSound(m.to, v), ReceivePacket(m, type, v),
         NEW vote \in Nat, NEW saves,
         Save(m.to, Max({currentEpoch[m.to], m.currentEpoch}), vote, saves),
         lastVoteEpoch' \in [Node -> Nat], auth' \in [Node -> Auth], granted' \subseteq Node \X Nat \X Node,
         UNCHANGED <<booting, won, env>>,
         NEW sent, net' \subseteq net \cup sent, \A p \in sent : Proper(p)
  PROVE  RoleInv'
<1> DEFINE e == Max({currentEpoch[m.to], m.currentEpoch})
<1>1. m.to \in Node /\ e \in Nat
  BY Received
<1>2. currentEpoch' = [currentEpoch EXCEPT ![m.to] = e] /\ view' = [view EXCEPT ![m.to] = v]
  BY DEF ReceivePacket
<1> HIDE DEF e
<1>3. currentEpoch' \in [Node -> Nat]
  BY <1>1, <1>2 DEF RoleInv, TypeOK
<1>4. view' \in [Node -> View] /\ RolesSound'
  BY <1>1, <1>2, ViewStep
<1>5. disk' \in Disk
  BY <1>1, SaveStep DEF e
<1> QED BY <1>3, <1>4, <1>5, Assemble DEF RoleInv, TypeOK

LEMMA NextEpoch ==
  ASSUME RoleInv, NEW m \in net, NEW type, NEW v, ReceivePacket(m, type, v)
  PROVE  currentEpoch'[m.to] = Max({currentEpoch[m.to], m.currentEpoch})
<1>1. m.to \in Node
  BY Received
<1> QED BY <1>1 DEF ReceivePacket, RoleInv, TypeOK

LEMMA ReceiveFailRoles ==
  ASSUME RoleInv, NEW m \in net, ReceiveFail(m)
  PROVE  RoleInv'
<1> DEFINE n == m.to
           v == IF m.about # n THEN [Seen(m) EXCEPT !.flags[m.about] = "fail"] ELSE Seen(m)
<1>1. /\ Proper(m) /\ n \in Node /\ lastVoteEpoch[n] \in Nat
      /\ Seen(m) \in View /\ ViewSound(n, Seen(m))
  BY Received
<1>2. ReceivePacket(m, "fail", v) /\ net' = net \ {m}
      /\ \E saves : Save(n, currentEpoch'[n], lastVoteEpoch[n], saves)
      /\ UNCHANGED <<lastVoteEpoch, auth, booting, granted, won, env>>
  BY DEF ReceiveFail
<1>3. m.about \in Node
  BY <1>1, <1>2 DEF Proper, ReceivePacket
<1>4. v \in View /\ ViewSound(n, v)
  BY <1>1, <1>3, FlagSound DEF Flag
<1> HIDE DEF v
<1>5. currentEpoch'[n] = Max({currentEpoch[n], m.currentEpoch})
  BY <1>2, NextEpoch
<1>6. PICK saves : Save(n, currentEpoch'[n], lastVoteEpoch[n], saves)
  BY <1>2
<1>7. Save(n, Max({currentEpoch[n], m.currentEpoch}), lastVoteEpoch[n], saves)
  BY <1>5, <1>6
<1>8. net' \subseteq net \cup {}
  BY <1>2
<1> QED BY <1>1, <1>2, <1>4, <1>7, <1>8, ReceivePacketRoles DEF RoleInv, TypeOK

LEMMA ReceiveUpdateRoles ==
  ASSUME RoleInv, NEW m \in net, ReceiveUpdate(m)
  PROVE  RoleInv'
<1> DEFINE n == m.to
           master == SetNodeAsMaster(Seen(m), m.about)
           known == [master EXCEPT !.configEpoch[m.about] = m.aboutEpoch]
           v == IF Seen(m).configEpoch[m.about] >= m.aboutEpoch THEN Seen(m)
                ELSE UpdateSlotsConfigWith(n, known, m.about, m.aboutEpoch, m.aboutSlots)
           manual == auth[n].manual /\ v.slaveof[n] = view[n].slaveof[n]
<1>1. /\ Proper(m) /\ m \in Packet /\ n \in Node /\ lastVoteEpoch[n] \in Nat
      /\ Seen(m) \in View /\ ViewSound(n, Seen(m))
  BY Received
<1>2. /\ ReceivePacket(m, "update", v) /\ net' = net \ {m}
      /\ auth' = [auth EXCEPT ![n].manual = manual]
      /\ \E saves : Save(n, currentEpoch'[n], lastVoteEpoch[n], saves)
      /\ UNCHANGED <<lastVoteEpoch, booting, granted, won, env>>
  BY DEF ReceiveUpdate
<1>3. m.about \in Node /\ m.aboutEpoch \in Nat /\ m.aboutSlots \in SUBSET Slot
  BY <1>1, <1>2 DEF Proper, ReceivePacket, Packet
<1>4. master \in View /\ ViewSound(n, master) /\ IsMaster(master, m.about)
  <2>1. IsMaster(master, m.about)
    BY <1>1, <1>3 DEF SetNodeAsMaster, IsMaster, View
  <2> QED BY <1>1, <1>3, <2>1, SetNodeAsMasterSound
<1> HIDE DEF master
<1>5. known \in View /\ ViewSound(n, known) /\ IsMaster(known, m.about)
  <2>1. IsMaster(known, m.about)
    BY <1>4 DEF IsMaster, View
  <2> QED BY <1>1, <1>3, <1>4, <2>1, EpochSound
<1> HIDE DEF known
<1>6. v \in View /\ ViewSound(n, v)
  BY <1>1, <1>3, <1>5, UpdateSlotsConfigWithSound
<1>7. manual \in BOOLEAN
  OBVIOUS
<1> HIDE DEF v, manual
<1>8. auth' \in [Node -> Auth]
  BY <1>1, <1>2, <1>7, ManualAuth DEF RoleInv, TypeOK
<1>9. currentEpoch'[n] = Max({currentEpoch[n], m.currentEpoch})
  BY <1>2, NextEpoch
<1>10. PICK saves : Save(n, currentEpoch'[n], lastVoteEpoch[n], saves)
  BY <1>2
<1>11. Save(n, Max({currentEpoch[n], m.currentEpoch}), lastVoteEpoch[n], saves)
  BY <1>9, <1>10
<1>12. net' \subseteq net \cup {}
  BY <1>2
<1> QED BY <1>1, <1>2, <1>6, <1>8, <1>11, <1>12, ReceivePacketRoles DEF RoleInv, TypeOK

LEMMA ReceiveAuthRequestRoles ==
  ASSUME RoleInv, NEW m \in net, ReceiveAuthRequest(m)
  PROVE  RoleInv'
<1> DEFINE n == m.to
           v == Seen(m)
           e == Max({currentEpoch[n], m.currentEpoch})
           ack == Header(n, v, e, "ack", m.from)
<1>1. /\ n \in Node /\ m.from \in Others(n) /\ e \in Nat /\ lastVoteEpoch \in [Node -> Nat]
      /\ v \in View /\ ViewSound(n, v)
  BY Received DEF RoleInv, TypeOK
<1>2. PICK votes \in BOOLEAN, saves \in BOOLEAN :
        /\ ReceivePacket(m, "authrequest", v)
        /\ lastVoteEpoch' = IF votes THEN [lastVoteEpoch EXCEPT ![n] = e] ELSE lastVoteEpoch
        /\ net' = (net \ {m}) \cup (IF votes THEN {ack} ELSE {})
        /\ granted' = IF votes THEN granted \cup {<<n, e, m.from>>} ELSE granted
        /\ Save(n, e, lastVoteEpoch'[n], saves)
        /\ UNCHANGED <<auth, booting, won, env>>
  <2>1. PICK recent \in IF lastVoteEpoch[n] = 0 THEN {FALSE} ELSE BOOLEAN :
          LET votes == Grants(n, v, e, m) /\ ~recent
          IN  /\ lastVoteEpoch' = IF votes THEN [lastVoteEpoch EXCEPT ![n] = e] ELSE lastVoteEpoch
              /\ net' = (net \ {m}) \cup (IF votes THEN {ack} ELSE {})
              /\ granted' = IF votes THEN granted \cup {<<n, e, m.from>>} ELSE granted
    BY Zenon DEF ReceiveAuthRequest
  <2> DEFINE votes == Grants(n, v, e, m) /\ ~recent
             saves == v # view[n]
  <2>2. ReceivePacket(m, "authrequest", v) /\ Save(n, e, lastVoteEpoch'[n], saves)
        /\ UNCHANGED <<auth, booting, won, env>>
    BY Zenon DEF ReceiveAuthRequest
  <2>3. votes \in BOOLEAN /\ saves \in BOOLEAN
    OBVIOUS
  <2>4. /\ lastVoteEpoch' = IF votes THEN [lastVoteEpoch EXCEPT ![n] = e] ELSE lastVoteEpoch
        /\ net' = (net \ {m}) \cup (IF votes THEN {ack} ELSE {})
        /\ granted' = IF votes THEN granted \cup {<<n, e, m.from>>} ELSE granted
    BY <2>1
  <2> HIDE DEF votes, saves, v, e
  <2> QED BY <2>2, <2>3, <2>4
<1>3. Proper(ack)
  <2>1. ack \in Packet /\ ack.type = "ack" /\ ack.from = n /\ ack.to = m.from
    BY <1>1, HeaderType, HeaderFields DEF Types, Others
  <2> HIDE DEF ack
  <2> QED BY <1>1, <2>1 DEF Proper, Others
<1> HIDE DEF v, e, ack
<1> DEFINE sent == IF votes THEN {ack} ELSE {}
<1>4. net' \subseteq net \cup sent /\ \A p \in sent : Proper(p)
  BY <1>2, <1>3
<1>5. lastVoteEpoch' \in [Node -> Nat] /\ lastVoteEpoch'[n] \in Nat
  BY <1>1, <1>2
<1>6. granted' \subseteq Node \X Nat \X Node
  BY <1>1, <1>2 DEF RoleInv, TypeOK, Others
<1>7. auth' \in [Node -> Auth]
  BY <1>2 DEF RoleInv, TypeOK
<1> HIDE DEF sent
<1> QED BY <1>1, <1>2, <1>4, <1>5, <1>6, <1>7, ReceivePacketRoles DEF e

LEMMA ReceiveAuthAckRoles ==
  ASSUME RoleInv, NEW m \in net, ReceiveAuthAck(m)
  PROVE  RoleInv'
<1> DEFINE n == m.to
           v == Seen(m)
<1>1. /\ n \in Node /\ m.from \in Node /\ lastVoteEpoch[n] \in Nat
      /\ v \in View /\ ViewSound(n, v)
  BY Received DEF Others
<1>2. /\ ReceivePacket(m, "ack", v) /\ net' = net \ {m}
      /\ \E saves : Save(n, currentEpoch'[n], lastVoteEpoch[n], saves)
      /\ UNCHANGED <<lastVoteEpoch, booting, granted, won, env>>
      /\ auth' \in {auth, [auth EXCEPT ![n].count = @ + 1, ![n].voters = @ \cup {m.from}]}
  BY DEF ReceiveAuthAck
<1>3. auth' \in [Node -> Auth]
  <2>1. auth \in [Node -> Auth]
    BY DEF RoleInv, TypeOK
  <2>2. [auth EXCEPT ![n].count = @ + 1, ![n].voters = @ \cup {m.from}] \in [Node -> Auth]
    BY <1>1, <2>1 DEF Auth
  <2> QED BY <1>2, <2>1, <2>2
<1> HIDE DEF v
<1>4. currentEpoch'[n] = Max({currentEpoch[n], m.currentEpoch})
  BY <1>2, NextEpoch
<1>5. PICK saves : Save(n, currentEpoch'[n], lastVoteEpoch[n], saves)
  BY <1>2
<1>6. Save(n, Max({currentEpoch[n], m.currentEpoch}), lastVoteEpoch[n], saves)
  BY <1>4, <1>5
<1>7. net' \subseteq net \cup {}
  BY <1>2
<1> QED BY <1>1, <1>2, <1>3, <1>6, <1>7, ReceivePacketRoles DEF RoleInv, TypeOK

LEMMA PongTimeoutRoles ==
  ASSUME RoleInv, NEW n \in Node, NEW m \in Node, PongTimeout(n, m)
  PROVE  RoleInv'
<1> DEFINE v == [view[n] EXCEPT !.flags[m] = "pfail"]
<1>1. view[n] \in View /\ ViewSound(n, view[n])
  BY DEF RoleInv, TypeOK, RolesSound
<1>2. v \in View /\ ViewSound(n, v)
  BY <1>1, FlagSound DEF Flag
<1>3. view' = [view EXCEPT ![n] = v]
  BY DEF PongTimeout, RoleInv, TypeOK
<1> HIDE DEF v
<1>4. view' \in [Node -> View] /\ RolesSound'
  BY <1>2, <1>3, ViewStep
<1>5. UNCHANGED <<currentEpoch, lastVoteEpoch, auth, booting, disk, granted, won, env>> /\ net' \subseteq net \cup {}
  BY DEF PongTimeout
<1> QED BY <1>4, <1>5, Assemble DEF RoleInv, TypeOK, Disk

LEMMA ScheduleRoles ==
  ASSUME RoleInv, NEW n \in Node, Schedule(n)
  PROVE  RoleInv'
<1>1. PICK links \in SomeLinks(n, LocalSlaves(n)) :
        net' \subseteq net \cup BroadcastPong(n, view[n], currentEpoch[n], links)
  BY DEF Schedule
<1>2. view[n] \in View /\ currentEpoch[n] \in Nat /\ LocalSlaves(n) \in SUBSET Others(n)
  BY DEF RoleInv, TypeOK, LocalSlaves
<1>3. \A p \in BroadcastPong(n, view[n], currentEpoch[n], links) : Proper(p)
  BY <1>2, BroadcastProper
<1>4. auth' \in [Node -> Auth]
  <2>1. auth[n] \in Auth /\ auth \in [Node -> Auth]
    BY DEF RoleInv, TypeOK
  <2>2. auth' = [auth EXCEPT ![n] = [@ EXCEPT !.phase = "scheduled", !.count = 0, !.voters = {}]]
    BY DEF Schedule
  <2>3. [auth[n] EXCEPT !.phase = "scheduled", !.count = 0, !.voters = {}] \in Auth
    BY <2>1 DEF Auth
  <2> QED BY <2>1, <2>2, <2>3
<1>5. UNCHANGED <<currentEpoch, lastVoteEpoch, view, booting, disk, granted, won, env>> /\ RolesSound'
  BY DEF Schedule, RoleInv, RolesSound
<1> QED BY <1>1, <1>3, <1>4, <1>5, Assemble DEF RoleInv, TypeOK, Disk

LEMMA StartElectionRoles ==
  ASSUME RoleInv, NEW n \in Node, StartElection(n)
  PROVE  RoleInv'
<1> DEFINE e == currentEpoch[n] + 1
           sent == {[Header(n, view[n], e, "authrequest", to) EXCEPT !.force = auth[n].manual] : to \in Others(n)}
<1>1. view[n] \in View /\ e \in Nat /\ lastVoteEpoch[n] \in Nat /\ auth[n].manual \in BOOLEAN
  BY DEF RoleInv, TypeOK, Auth
<1>2. ASSUME NEW p \in sent PROVE Proper(p)
  <2>1. PICK to \in Others(n) : p = [Header(n, view[n], e, "authrequest", to) EXCEPT !.force = auth[n].manual]
    OBVIOUS
  <2> DEFINE h == Header(n, view[n], e, "authrequest", to)
  <2>2. h \in Packet /\ h.type = "authrequest" /\ h.from = n /\ h.to = to
    BY <1>1, HeaderType, HeaderFields DEF Types, Others
  <2> HIDE DEF h
  <2> QED BY <1>1, <2>1, <2>2 DEF Proper, Packet, Others, h
<1>3. net' \subseteq net \cup sent
  BY DEF StartElection
<1>4. Save(n, e, lastVoteEpoch[n], TRUE) /\ currentEpoch' = [currentEpoch EXCEPT ![n] = e]
      /\ auth' = [auth EXCEPT ![n] = [@ EXCEPT !.phase = "sent", !.epoch = e]]
      /\ UNCHANGED <<lastVoteEpoch, view, booting, granted, won, env>>
  BY DEF StartElection
<1> HIDE DEF sent, e
<1>5. disk' \in Disk
  BY <1>1, <1>4, SaveStep
<1>6. currentEpoch' \in [Node -> Nat] /\ auth' \in [Node -> Auth]
  <2>1. auth[n] \in Auth /\ auth \in [Node -> Auth] /\ currentEpoch \in [Node -> Nat]
    BY DEF RoleInv, TypeOK
  <2>2. [auth[n] EXCEPT !.phase = "sent", !.epoch = e] \in Auth
    BY <1>1, <2>1 DEF Auth
  <2> QED BY <1>1, <1>4, <2>1, <2>2
<1>7. RolesSound'
  BY <1>4 DEF RoleInv, RolesSound
<1> QED BY <1>2, <1>3, <1>4, <1>5, <1>6, <1>7, Assemble DEF RoleInv, TypeOK

LEMMA PromoteRoles ==
  ASSUME RoleInv, NEW n \in Node, NEW v \in View, ViewSound(n, v), ~IsMaster(v, n), NEW e \in Nat,
         Promote(n, v, e), won' \subseteq Node \X Nat \X Nat,
         UNCHANGED <<lastVoteEpoch, booting, granted, env>>
  PROVE  RoleInv'
<1> DEFINE slots == [s \in Slot |-> IF v.slots[s] = v.slaveof[n] THEN n ELSE v.slots[s]]
           m == SetNodeAsMaster(v, n)
           w == ReplaceYourMaster(n, v)
<1>1. m \in View /\ ViewSound(n, m) /\ m.slots = v.slots /\ IsMaster(m, n)
  <2>1. m.slots = v.slots /\ IsMaster(m, n)
    BY DEF SetNodeAsMaster, View, IsMaster
  <2> QED BY <2>1, SetNodeAsMasterSound
<1>2. w = [m EXCEPT !.slots = slots] /\ slots \in [Slot -> Node \cup {None}]
  <2>1. w = [m EXCEPT !.slots = [s \in Slot |-> IF m.slots[s] = v.slaveof[n] THEN n ELSE m.slots[s]]]
    BY DEF ReplaceYourMaster, SetNodeAsMaster, View
  <2>2. slots \in [Slot -> Node \cup {None}]
    BY DEF View
  <2> QED BY <1>1, <2>1, <2>2
<1> HIDE DEF m, w
<1>3. w \in View /\ ViewSound(n, w)
  <2>1. w \in View /\ w.slots = slots /\ w.slaveof = m.slaveof
    BY <1>1, <1>2 DEF View
  <2>2. ASSUME NEW s \in Slot, w.slots[s] # None PROVE IsMaster(w, w.slots[s])
    BY <1>1, <2>1, <2>2 DEF ViewSound, IsMaster
  <2> QED BY <1>1, <2>1, <2>2 DEF ViewSound
<1>4. PICK links \in SomeLinks(n, Others(n)) : net' = net \cup BroadcastPong(n, w, e, links)
  BY DEF Promote, w
<1>5. \A p \in BroadcastPong(n, w, e, links) : Proper(p)
  BY <1>3, BroadcastProper
<1>6. /\ currentEpoch' = [currentEpoch EXCEPT ![n] = e] /\ view' = [view EXCEPT ![n] = w]
      /\ auth' = [auth EXCEPT ![n].manual = FALSE] /\ Save(n, e, lastVoteEpoch[n], TRUE)
  BY DEF Promote, w
<1>7. view' \in [Node -> View] /\ RolesSound'
  BY <1>3, <1>6, ViewStep
<1>8. lastVoteEpoch[n] \in Nat /\ auth \in [Node -> Auth] /\ currentEpoch \in [Node -> Nat]
  BY DEF RoleInv, TypeOK
<1>9. disk' \in Disk
  BY <1>6, <1>8, SaveStep
<1>10. currentEpoch' \in [Node -> Nat] /\ auth' \in [Node -> Auth]
  BY <1>6, <1>8, ManualAuth
<1> QED BY <1>4, <1>5, <1>7, <1>9, <1>10, Assemble DEF RoleInv, TypeOK

LEMMA BumpedSound ==
  ASSUME RoleInv, NEW n \in Node
  PROVE  /\ Bumped(n) \in Nat /\ BumpedView(n) \in View /\ ViewSound(n, BumpedView(n))
         /\ BumpedView(n).slaveof = view[n].slaveof
<1>1. view[n] \in View /\ ViewSound(n, view[n]) /\ currentEpoch[n] \in Nat
  BY DEF RoleInv, TypeOK, RolesSound
<1>2. Bumped(n) \in Nat
  BY <1>1 DEF Bumped
<1>3. BumpedView(n) \in {view[n], [view[n] EXCEPT !.configEpoch[n] = Bumped(n)]}
  BY DEF BumpedView
<1>4. [view[n] EXCEPT !.configEpoch[n] = Bumped(n)].slaveof = view[n].slaveof
  BY <1>1 DEF View
<1>5. [view[n] EXCEPT !.configEpoch[n] = Bumped(n)] \in View
      /\ ViewSound(n, [view[n] EXCEPT !.configEpoch[n] = Bumped(n)])
  BY <1>1, <1>2, EpochSound
<1>6. CASE BumpedView(n) = view[n]
  BY <1>1, <1>2, <1>6
<1>7. CASE BumpedView(n) = [view[n] EXCEPT !.configEpoch[n] = Bumped(n)]
  BY <1>2, <1>4, <1>5, <1>7
<1> QED BY <1>3, <1>6, <1>7

LEMMA WinRoles ==
  ASSUME RoleInv, NEW n \in Node, Win(n)
  PROVE  RoleInv'
<1> DEFINE v == [view[n] EXCEPT !.configEpoch[n] = Max({@, auth[n].epoch})]
<1>1. view[n] \in View /\ ViewSound(n, view[n]) /\ currentEpoch[n] \in Nat /\ auth[n].epoch \in Nat
  BY DEF RoleInv, TypeOK, RolesSound, Auth
<1>2. view[n].configEpoch[n] \in Nat
  BY <1>1 DEF View
<1>3. Max({view[n].configEpoch[n], auth[n].epoch}) \in Nat
  BY <1>1, <1>2, MaxOfTwo
<1>4. v \in View /\ ViewSound(n, v)
  BY <1>1, <1>3, EpochSound
<1>5. ~IsMaster(v, n)
  BY <1>1 DEF Win, CanFailover, IsMaster, View
<1>6. /\ Promote(n, v, currentEpoch[n]) /\ won' = won \cup {<<n, auth[n].epoch, NeededQuorum(n)>>}
      /\ UNCHANGED <<lastVoteEpoch, booting, granted, env>>
  BY DEF Win, VotesNeeded
<1> HIDE DEF v
<1>7. won' \subseteq Node \X Nat \X Nat
  BY <1>1, <1>6, QuorumType DEF RoleInv, TypeOK
<1> QED BY <1>1, <1>4, <1>5, <1>6, <1>7, PromoteRoles

LEMMA CommandRoles ==
  ASSUME RoleInv, NEW n \in Node, Takeover(n) \/ BumpEpoch(n)
  PROVE  RoleInv'
<1>1. /\ Bumped(n) \in Nat /\ BumpedView(n) \in View /\ ViewSound(n, BumpedView(n))
      /\ BumpedView(n).slaveof = view[n].slaveof
  BY BumpedSound
<1>2. CASE Takeover(n)
  <2>1. ~IsMaster(BumpedView(n), n)
    BY <1>1, <1>2 DEF Takeover, IsMaster
  <2>2. Promote(n, BumpedView(n), Bumped(n)) /\ UNCHANGED <<lastVoteEpoch, booting, granted, won, env>>
    BY <1>2 DEF Takeover
  <2> QED BY <1>1, <2>1, <2>2, PromoteRoles DEF RoleInv, TypeOK
<1>3. CASE BumpEpoch(n)
  <2>1. /\ currentEpoch' = [currentEpoch EXCEPT ![n] = Bumped(n)]
        /\ view' = [view EXCEPT ![n] = BumpedView(n)] /\ Save(n, Bumped(n), lastVoteEpoch[n], TRUE)
        /\ UNCHANGED <<lastVoteEpoch, auth, booting, net, granted, won, env>>
    BY <1>3 DEF BumpEpoch
  <2>2. view' \in [Node -> View] /\ RolesSound'
    BY <1>1, <2>1, ViewStep
  <2>3. lastVoteEpoch[n] \in Nat /\ currentEpoch \in [Node -> Nat]
    BY DEF RoleInv, TypeOK
  <2>4. disk' \in Disk /\ currentEpoch' \in [Node -> Nat]
    BY <1>1, <2>1, <2>3, SaveStep
  <2>5. net' \subseteq net \cup {}
    BY <2>1
  <2> QED BY <2>1, <2>2, <2>4, <2>5, Assemble DEF RoleInv, TypeOK
<1> QED BY <1>2, <1>3

LEMMA TimerRoles ==
  ASSUME RoleInv, NEW n \in Node,
         ForceFailover(n) \/ ForceTimeout(n) \/ ElectionTimeout(n) \/ WritableDelayOver(n)
  PROVE  RoleInv'
<1>1. /\ UNCHANGED <<currentEpoch, lastVoteEpoch, view, disk, net, granted, won, env>>
      /\ booting' \subseteq booting
      /\ \/ auth' = auth
         \/ auth' = [auth EXCEPT ![n].manual = TRUE]
         \/ auth' = [auth EXCEPT ![n].manual = FALSE]
         \/ auth' = [auth EXCEPT ![n].phase = "none"]
  BY DEF ForceFailover, ForceTimeout, ElectionTimeout, WritableDelayOver
<1>2. auth \in [Node -> Auth]
  BY DEF RoleInv, TypeOK
<1>3. [auth EXCEPT ![n].phase = "none"] \in [Node -> Auth]
  BY <1>2 DEF Auth
<1>4. auth' \in [Node -> Auth]
  BY <1>1, <1>2, <1>3, ManualAuth
<1>5. RolesSound' /\ net' \subseteq net \cup {}
  BY <1>1 DEF RoleInv, RolesSound
<1> QED BY <1>1, <1>4, <1>5, Assemble DEF RoleInv, TypeOK, Disk

LEMMA RestartRoles ==
  ASSUME RoleInv, NEW n \in Node, Restart(n)
  PROVE  RoleInv'
<1> DEFINE v == view[n]
           flags(kept) == [m \in Node |-> IF v.flags[m] = "pfail" /\ m \notin kept THEN "ok" ELSE v.flags[m]]
           empty == [m \in Node |-> {}]
           w(kept) == Loaded(v, kept)
           all == {v.configEpoch[m] : m \in Node} \cup {disk[n].currentEpoch}
<1>1. v \in View /\ ViewSound(n, v) /\ view \in [Node -> View]
  BY DEF RoleInv, TypeOK, RolesSound
<1>2. PICK kept : view' = [view EXCEPT ![n] = w(kept)]
  BY DEF Restart
<1>3. w(kept) \in View /\ ViewSound(n, w(kept))
  <2>1. flags(kept) \in [Node -> Flag]
    BY <1>1 DEF View, Flag
  <2>2. empty \in [Node -> SUBSET (Node \X Nat)]
    OBVIOUS
  <2>3. w(kept) = [v EXCEPT !.flags = flags(kept), !.reports = empty]
    BY DEF Loaded
  <2> HIDE DEF flags, empty, v, w
  <2> QED BY <1>1, <2>1, <2>2, <2>3 DEF View, ViewSound, IsMaster
<1>4. view' \in [Node -> View] /\ RolesSound'
  BY <1>2, <1>3, ViewStep
<1>5. disk[n].currentEpoch \in Nat /\ disk[n].lastVoteEpoch \in Nat
  BY DEF RoleInv, TypeOK
<1>6. Max(all) \in Nat
  <2> DEFINE E == {v.configEpoch[m] : m \in Node}
  <2>1. v.configEpoch \in [Node -> Nat]
    BY <1>1 DEF View
  <2>2. v.configEpoch \in Surjection(Node, E)
    BY <2>1 DEF Surjection
  <2>3. IsFiniteSet(E)
    BY <2>2, ClusterAssumption, FS_Surjection
  <2>4. E \subseteq Nat
    BY <2>1
  <2> HIDE DEF E
  <2>5. IsFiniteSet(E \cup {disk[n].currentEpoch})
    BY <2>3, FS_AddElement
  <2>6. Max(E \cup {disk[n].currentEpoch}) \in E \cup {disk[n].currentEpoch}
    BY <1>5, <2>4, <2>5, MaxOfSet
  <2> QED BY <1>5, <2>4, <2>6 DEF E
<1>7. /\ currentEpoch' = [currentEpoch EXCEPT ![n] = Max(all)]
      /\ lastVoteEpoch' = [lastVoteEpoch EXCEPT ![n] = disk[n].lastVoteEpoch]
      /\ auth' = [auth EXCEPT ![n] = Idle] /\ booting' \subseteq booting \cup {n}
      /\ net' \subseteq net \cup {} /\ UNCHANGED <<disk, granted, won, env>>
  BY DEF Restart
<1>8. Idle \in Auth
  BY DEF Idle, Auth
<1> HIDE DEF all
<1>9. currentEpoch' \in [Node -> Nat] /\ lastVoteEpoch' \in [Node -> Nat] /\ auth' \in [Node -> Auth]
  BY <1>5, <1>6, <1>7, <1>8 DEF RoleInv, TypeOK
<1> QED BY <1>4, <1>7, <1>9, Assemble DEF RoleInv, TypeOK, Disk

LEMMA InitRoles == Init => RoleInv
<1> SUFFICES ASSUME Init PROVE RoleInv
  OBVIOUS
<1> DEFINE E == {env.epoch[m] : m \in Node}
           first(n) == [configEpoch |-> [m \in Node |-> IF m = n THEN env.epoch[m] ELSE env.epoch[InitMasterOf(m)]],
                        slaveof |-> env.master, slots |-> env.owner,
                        flags |-> [m \in Node |-> IF m = n THEN "ok" ELSE env.flags[m]],
                        reports |-> [m \in Node |-> {}]]
<1>0. /\ env.epoch \in [Node -> Nat] /\ env.master \in [Node -> Node \cup {None}]
      /\ env.owner \in [Slot -> Node]
  BY ClusterAssumption DEF Init, Scenario
<1>1. currentEpoch \in [Node -> Nat]
  <2>1. IsFiniteSet(E) /\ E \subseteq Nat
    <3>1. env.epoch \in Surjection(Node, E)
      BY <1>0 DEF Surjection
    <3> QED BY <1>0, <3>1, ClusterAssumption, FS_Surjection
  <2>2. Node # {} => Max(E) \in Nat
    BY <2>1, MaxOfSet
  <2> QED BY <2>2 DEF Init
<1>2. env \in Scenarios /\ env \in Scenario
  BY ClusterAssumption DEF Init
<1>3. ASSUME NEW n \in Node PROVE first(n) \in View /\ ViewSound(n, first(n))
  <2>1. \A m \in Node : InitMasterOf(m) \in Node
    BY <1>0 DEF InitMasterOf
  <2>2. first(n).configEpoch \in [Node -> Nat]
    BY <1>0, <2>1
  <2>3. first(n).flags \in [Node -> Flag]
    BY <1>2 DEF Scenario, Flag
  <2>4. first(n).slaveof = env.master /\ first(n).slots = env.owner
    OBVIOUS
  <2>5. first(n) \in View
    BY <1>0, <2>2, <2>3 DEF View
  <2> HIDE DEF first
  <2> QED BY <1>2, <2>4, <2>5, ClusterAssumption DEF ViewSound, IsMaster
<1>4. view = [n \in Node |-> first(n)]
  BY DEF Init
<1> HIDE DEF first
<1>5. view \in [Node -> View] /\ RolesSound
  BY <1>3, <1>4 DEF RolesSound
<1>6. /\ lastVoteEpoch \in [Node -> Nat] /\ booting = {} /\ net = {} /\ granted = {} /\ won = {}
      /\ disk = [n \in Node |-> [currentEpoch |-> currentEpoch[n], lastVoteEpoch |-> 0]]
      /\ auth = [n \in Node |-> Idle]
  BY DEF Init
<1>7. Idle \in Auth
  BY DEF Idle, Auth
<1> QED BY <1>1, <1>2, <1>5, <1>6, <1>7 DEF RoleInv, TypeOK

LEMMA NextRoles ==
  ASSUME RoleInv, Next
  PROVE  RoleInv'
<1>1. CASE \E n \in Node, m \in Node : SendPing(n, m) \/ PongTimeout(n, m)
  BY <1>1, SendPingRoles, PongTimeoutRoles
<1>2. CASE \E m \in net : \/ ReceiveBeat(m) \/ ReceiveFail(m) \/ ReceiveUpdate(m)
                          \/ ReceiveAuthRequest(m) \/ ReceiveAuthAck(m)
  BY <1>2, ReceiveBeatRoles, ReceiveFailRoles, ReceiveUpdateRoles, ReceiveAuthRequestRoles, ReceiveAuthAckRoles
<1>3. CASE \E n \in Node : Schedule(n) \/ StartElection(n) \/ Win(n)
  BY <1>3, ScheduleRoles, StartElectionRoles, WinRoles
<1>4. CASE \E n \in Node : \/ Takeover(n) \/ BumpEpoch(n) \/ Restart(n)
                           \/ ForceFailover(n) \/ ForceTimeout(n) \/ ElectionTimeout(n) \/ WritableDelayOver(n)
  BY <1>4, CommandRoles, TimerRoles, RestartRoles
<1> QED BY <1>1, <1>2, <1>3, <1>4 DEF Next

LEMMA RoleInvariant == Spec => []RoleInv
<1>1. RoleInv /\ [Next]_vars => RoleInv'
  <2> SUFFICES ASSUME RoleInv, [Next]_vars PROVE RoleInv'
    OBVIOUS
  <2>1. CASE UNCHANGED vars
    BY <2>1 DEF vars, RoleInv, TypeOK, RolesSound
  <2> QED BY <2>1, NextRoles
<1> QED BY <1>1, InitRoles, PTL DEF Spec

-----------------------------------------------------------------------------
\* The variables keep their types, and no handler meets an epoch, a slot or a node
\* outside them, in every environment.
THEOREM Typed == Spec => []TypeOK
<1>1. RoleInv => TypeOK
  BY DEF RoleInv
<1> QED BY <1>1, RoleInvariant, PTL

\* The assertions of clusterSetMaster hold in every view and at all times, although the
\* role of a node and its slots change in separate handlers and on separate news: no
\* node replicates itself, and no slot is bound to a slave.
THEOREM SoundRoles == Spec => []RolesSound
<1>1. RoleInv => RolesSound
  BY DEF RoleInv
<1> QED BY <1>1, RoleInvariant, PTL

-----------------------------------------------------------------------------
(* Failure detection, as long as nobody takes a slave for a master and every *)
(* node computes a quorum that is a majority.                                *)

Masters == {x \in Node : env.master[x] = None}

\* The masters are those of the start, in every view, and so is the quorum.
FirstMasters ==
  /\ Masters # {}
  /\ \A n \in Node : /\ 2 * NeededQuorum(n) > Cardinality(Masters)
                     /\ \A x \in Node : IsMaster(view[n], x) => x \in Masters

MostMissed(m) == 2 * Cardinality({x \in Masters : <<x, m>> \in suspected}) > Cardinality(Masters)

\* x may say that m fails: it has missed a PONG, or has heard from a majority.
Blames(x, m) == <<x, m>> \in suspected \/ MostMissed(m)

\* A report about m in a list of n: the only one of a master other than n.
Fresh(n, m, f) == f \in Masters \X {1} /\ f[1] # n /\ Blames(f[1], m)

ViewBlames(n, v) ==
  \A m \in Node : /\ v.flags[m] = "fail" => MostMissed(m)
                  /\ v.flags[m] = "pfail" => Blames(n, m)
                  /\ \A f \in v.reports[m] : Fresh(n, m, f)

PacketBlames(p) ==
  /\ \A m \in p.failing : Blames(p.from, m)
  /\ p.type = "fail" => MostMissed(p.about)

FailInv ==
  /\ \A n \in Node : ViewBlames(n, view[n])
  /\ \A p \in net : PacketBlames(p)

LEMMA FiniteMasters == IsFiniteSet(Masters) /\ Masters \subseteq Node
BY ClusterAssumption, FS_Subset DEF Masters

\* What changes a role, an epoch or a slot leaves the flags and the reports.
SameBlame(v, w) == w.flags = v.flags /\ w.reports = v.reports

LEMMA SameBlameBlames ==
  ASSUME NEW n, NEW v, NEW w, ViewBlames(n, v), SameBlame(v, w)
  PROVE  ViewBlames(n, w)
BY DEF ViewBlames, SameBlame

LEMMA SeenBlames ==
  ASSUME NEW v \in View, NEW m
  PROVE  SameBlame(v, SeeEpochs(v, m))
BY DEF View, SameBlame, SeeEpochs

LEMMA EpochBlames ==
  ASSUME NEW v \in View, NEW m, NEW e
  PROVE  SameBlame(v, [v EXCEPT !.configEpoch[m] = e])
BY DEF View, SameBlame

LEMMA SetMasterBlames ==
  ASSUME NEW v \in View, NEW m
  PROVE  SameBlame(v, SetNodeAsMaster(v, m))
BY DEF View, SameBlame, SetNodeAsMaster

LEMMA SwitchRoleBlames ==
  ASSUME NEW v \in View, NEW m
  PROVE  SameBlame(v, SwitchRole(v, m))
<1>1. CASE m.slaveof = None
  BY <1>1, SetMasterBlames DEF SwitchRole
<1>2. CASE m.slaveof # None
  BY <1>2 DEF View, SameBlame, SwitchRole, DelNodeSlots
<1> QED BY <1>1, <1>2

LEMMA UpdateSlotsBlames ==
  ASSUME NEW v \in View, NEW n, NEW sender, NEW epoch, NEW slots
  PROVE  SameBlame(v, UpdateSlotsConfigWith(n, v, sender, epoch, slots))
<1> DEFINE taken == {s \in slots : /\ v.slots[s] # sender
                                   /\ \/ v.slots[s] = None
                                      \/ v.configEpoch[v.slots[s]] < epoch}
           bound == [v EXCEPT !.slots = [s \in Slot |-> IF s \in taken THEN sender ELSE @[s]]]
           w == UpdateSlotsConfigWith(n, v, sender, epoch, slots)
<1>1. w \in {v, bound, [bound EXCEPT !.slaveof[n] = sender]}
  BY DEF UpdateSlotsConfigWith
<1> HIDE DEF w, taken
<1>2. SameBlame(v, v) /\ SameBlame(v, bound) /\ SameBlame(v, [bound EXCEPT !.slaveof[n] = sender])
  BY DEF View, SameBlame
<1> HIDE DEF bound
<1>3. SameBlame(v, w)
  BY <1>1, <1>2
<1> QED BY <1>3 DEF w

LEMMA ClaimSlotsBlames ==
  ASSUME NEW v \in View, NEW n, NEW m
  PROVE  SameBlame(v, ClaimSlots(n, v, m))
BY UpdateSlotsBlames DEF ClaimSlots, SameBlame

LEMMA ClearFailureBlames ==
  ASSUME NEW v \in View, NEW n \in Node, ViewBlames(n, v), NEW m \in Node, NEW old
  PROVE  ViewBlames(n, ClearFailure(v, m, old))
<1> DEFINE w == [v EXCEPT !.flags[m] = "ok"]
<1>1. w.reports = v.reports /\ \A x \in Node : w.flags[x] \in {"ok", v.flags[x]}
  BY DEF View
<1> HIDE DEF w
<1>2. ViewBlames(n, w)
  BY <1>1 DEF ViewBlames
<1> QED BY <1>2 DEF ClearFailure, w

LEMMA GossipRoles ==
  ASSUME NEW v \in View, NEW n, NEW m, NEW expired
  PROVE  LET w == Gossip(n, v, m, expired).view IN w.slaveof = v.slaveof /\ w.slots = v.slots
BY DEF Gossip, View

\* A gossip section only marks a node whose failure a majority has seen.
LEMMA GossipBlames ==
  ASSUME NEW v \in View, NEW n \in Node, ViewBlames(n, v),
         NEW m \in Packet, m.from # n, PacketBlames(m), NEW expired,
         \A x \in Node : IsMaster(v, x) => x \in Masters, 2 * NeededQuorum(n) > Cardinality(Masters)
  PROVE  LET g == Gossip(n, v, m, expired)
         IN  ViewBlames(n, g.view) /\ \A x \in g.marked : MostMissed(x)
<1> DEFINE reports == [x \in Node |-> IF x = n THEN v.reports[x]
                                      ELSE IF x \in m.failing THEN AddFailureReport(v.reports[x] \ expired, m.from)
                                      ELSE IF x \in m.fine THEN DelFailureReport(v.reports[x], m.from)
                                      ELSE v.reports[x]]
           heard == [v EXCEPT !.reports = reports]
           marked == {x \in m.failing \ {n} : MarksFailing(n, heard, x)}
           w == [heard EXCEPT !.flags = [x \in Node |-> IF x \in marked THEN "fail" ELSE heard.flags[x]]]
           g == Gossip(n, v, m, expired)
<1>1. m.from \in Node /\ m.failing \in SUBSET Node
  BY DEF Packet
<1>2. CASE ~IsMaster(v, m.from)
  <2>1. g = [view |-> v, marked |-> {}]
    BY <1>2 DEF Gossip
  <2> QED BY <2>1
<1>3. CASE IsMaster(v, m.from)
  <2>1. g = [view |-> w, marked |-> marked]
    BY <1>3 DEF Gossip
  <2>2. m.from \in Masters
    BY <1>1, <1>3
  <2>3. ASSUME NEW x \in Node, NEW f \in reports[x]
        PROVE  Fresh(n, x, f)
    <3>1. f \in v.reports[x] \/ (f = <<m.from, 1>> /\ x \in m.failing)
      BY DEF AddFailureReport, DelFailureReport
    <3>2. CASE f \in v.reports[x]
      BY <3>2 DEF ViewBlames
    <3>3. CASE f = <<m.from, 1>> /\ x \in m.failing
      BY <2>2, <3>3 DEF PacketBlames, Fresh
    <3> QED BY <3>1, <3>2, <3>3
  <2> HIDE DEF reports
  <2>4. heard.flags = v.flags /\ heard.reports = reports /\ heard.slaveof = v.slaveof /\ heard.slots = v.slots
    BY DEF View
  <2>5. w.reports = reports /\ \A x \in Node : w.flags[x] = IF x \in marked THEN "fail" ELSE v.flags[x]
    BY <2>4 DEF View
  <2> HIDE DEF heard
  <2>6. ASSUME NEW x \in marked PROVE MostMissed(x)
    <3> DEFINE R == reports[x]
               S == {y \in Masters : <<y, x>> \in suspected}
               self == IF IsMaster(v, n) THEN 1 ELSE 0
               q == NeededQuorum(n)
    <3>1. x \in Node /\ v.flags[x] = "pfail" /\ Cardinality(R) + self >= q
      BY <1>1, <2>4 DEF MarksFailing, IsMaster
    <3>2. Blames(n, x)
      BY <3>1 DEF ViewBlames
    <3> SUFFICES ASSUME ~MostMissed(x) PROVE FALSE
      OBVIOUS
    <3>3. R \in SUBSET (S \X {1}) /\ <<n, 1>> \notin R
      BY <2>3, <3>1 DEF Blames, Fresh
    <3>4. self \in {0, 1} /\ (self = 1 => n \in S)
      BY <3>2 DEF Blames
    <3>5. S \in SUBSET Masters /\ q \in Nat
      BY QuorumType
    <3> HIDE DEF R, self, q
    <3>6. 2 * q > Cardinality(Masters)
      BY DEF q
    <3> HIDE DEF S
    <3>7. 2 * Cardinality(S) > Cardinality(Masters)
      BY <3>1, <3>3, <3>4, <3>5, <3>6, FiniteMasters, EnoughReports
    <3> QED BY <3>7 DEF MostMissed, S
  <2> HIDE DEF marked, w
  <2>7. ViewBlames(n, w)
    <3>1. ASSUME NEW x \in Node
          PROVE  (w.flags[x] = "fail" => MostMissed(x)) /\ (w.flags[x] = "pfail" => Blames(n, x))
      BY <2>5, <2>6 DEF ViewBlames
    <3> QED BY <2>3, <2>5, <3>1 DEF ViewBlames
  <2> QED BY <2>1, <2>6, <2>7
<1> QED BY <1>2, <1>3

LEMMA BeatBlames ==
  ASSUME NEW n, NEW v, ViewBlames(n, v), NEW e, NEW type \in {"ping", "pong", "bcast"}, NEW to, NEW picked
  PROVE  PacketBlames(Beat(n, v, e, type, to, picked))
<1> DEFINE p == Beat(n, v, e, type, to, picked)
<1>1. p.type # "fail" /\ p.from = n
  BY BeatFields
<1>2. p.failing = {m \in Node : v.flags[m] = "pfail" \/ (v.flags[m] = "fail" /\ m \in picked)}
  BY DEF Beat, Header
<1> HIDE DEF p
<1>3. ASSUME NEW m \in p.failing PROVE Blames(n, m)
  BY <1>2 DEF ViewBlames, Blames
<1>4. PacketBlames(p)
  BY <1>1, <1>3 DEF PacketBlames
<1> QED BY <1>4 DEF p

LEMMA BroadcastBlames ==
  ASSUME NEW n, NEW v, ViewBlames(n, v), NEW e, NEW links, NEW p \in BroadcastPong(n, v, e, links)
  PROVE  PacketBlames(p)
BY BeatBlames DEF BroadcastPong

LEMMA UpdateBlames ==
  ASSUME NEW n, NEW v, NEW e, NEW to, NEW about
  PROVE  PacketBlames(UpdatePacket(n, v, e, to, about))
<1>1. UpdatePacket(n, v, e, to, about).type = "update" /\ UpdatePacket(n, v, e, to, about).failing = {}
  BY DEF UpdatePacket, Header
<1> QED BY <1>1 DEF PacketBlames

LEMMA FailPacketBlames ==
  ASSUME NEW n, NEW v, NEW e, NEW marked, \A x \in marked : MostMissed(x), NEW p \in FailPackets(n, v, e, marked)
  PROVE  PacketBlames(p)
<1>1. PICK to \in Others(n) \ env.down, x \in marked : p = [Header(n, v, e, "fail", to) EXCEPT !.about = x]
  BY DEF FailPackets
<1>2. p.failing = {} /\ p.about = x
  BY <1>1 DEF Header
<1> QED BY <1>2 DEF PacketBlames

\* What is left to show once the view of n and the packets it sends are done.
LEMMA BlameStep ==
  ASSUME RoleInv, FailInv, UNCHANGED <<suspected, env>>, NEW n \in Node, NEW v, ViewBlames(n, v),
         view' = [view EXCEPT ![n] = v], NEW sent, net' \subseteq net \cup sent,
         \A p \in sent : PacketBlames(p)
  PROVE  FailInv'
<1>1. Masters' = Masters /\ \A m : MostMissed(m)' <=> MostMissed(m)
  BY DEF MostMissed, Masters
<1>2. \A x, m : Blames(x, m)' <=> Blames(x, m)
  BY <1>1 DEF Blames
<1>3. ASSUME NEW x \in Node PROVE ViewBlames(x, view'[x])
  BY DEF RoleInv, TypeOK, FailInv
<1>4. ASSUME NEW x \in Node PROVE ViewBlames(x, view[x])'
  BY <1>1, <1>2, <1>3 DEF ViewBlames, Fresh
<1>5. ASSUME NEW p \in net' PROVE PacketBlames(p)
  BY DEF FailInv
<1>6. ASSUME NEW p \in net' PROVE PacketBlames(p)'
  BY <1>1, <1>2, <1>5 DEF PacketBlames
<1> QED BY <1>4, <1>6 DEF FailInv

\* A step that leaves the flags and the reports of every view, and sends no news of a
\* failure.
LEMMA QuietStep ==
  ASSUME RoleInv, FailInv, UNCHANGED <<suspected, env>>, NEW n \in Node, NEW v, SameBlame(view[n], v),
         view' = [view EXCEPT ![n] = v], NEW sent, net' \subseteq net \cup sent,
         \A p \in sent : PacketBlames(p)
  PROVE  FailInv'
<1>1. ViewBlames(n, v)
  BY SameBlameBlames DEF FailInv
<1> QED BY <1>1, BlameStep

\* The same when nothing is sent.
LEMMA SilentStep ==
  ASSUME RoleInv, FailInv, UNCHANGED <<suspected, env>>, NEW n \in Node, NEW v, ViewBlames(n, v),
         view' = [view EXCEPT ![n] = v], net' \subseteq net
  PROVE  FailInv'
<1> DEFINE sent == {}
<1>1. net' \subseteq net \cup sent /\ \A p \in sent : PacketBlames(p)
  OBVIOUS
<1> HIDE DEF sent
<1> QED BY <1>1, BlameStep

LEMMA StillView ==
  ASSUME RoleInv, NEW n \in Node
  PROVE  view = [view EXCEPT ![n] = view[n]] /\ SameBlame(view[n], view[n]) /\ view[n] \in View
BY DEF RoleInv, TypeOK, SameBlame

LEMMA SendPingBlames ==
  ASSUME RoleInv, FailInv, NEW n \in Node, NEW m \in Node, SendPing(n, m)
  PROVE  FailInv'
<1>1. PICK picked : net' = net \cup {Beat(n, view[n], currentEpoch[n], "ping", m, picked)}
  BY DEF SendPing
<1>2. PacketBlames(Beat(n, view[n], currentEpoch[n], "ping", m, picked))
  BY BeatBlames DEF FailInv
<1>3. UNCHANGED <<suspected, env>> /\ view' = view
  BY DEF SendPing
<1> DEFINE sent == {Beat(n, view[n], currentEpoch[n], "ping", m, picked)}
<1>4. net' \subseteq net \cup sent /\ \A p \in sent : PacketBlames(p)
  BY <1>1, <1>2
<1> HIDE DEF sent
<1> QED BY <1>3, <1>4, StillView, QuietStep

\* The views a heartbeat leads through.
LEMMA HandleBeatBlames ==
  ASSUME RoleInv, FailInv, NEW m \in net, NEW e, NEW newEpoch, NEW role, NEW slots, NEW g, NEW picked,
         ViewBlames(m.to, g.view), \A x \in g.marked : MostMissed(x),
         HandleBeat(m, e, newEpoch, role, slots, g, picked), UNCHANGED <<suspected, env>>
  PROVE  FailInv'
<1> DEFINE n == m.to
           pong == IF m.type = "ping" THEN {Beat(n, Seen(m), e, "pong", m.from, picked)} ELSE {}
           stale == IF Dirty(role, m) THEN StaleClaims(slots, m) ELSE {}
           update == IF stale # {} /\ Updates = {}
                     THEN {UpdatePacket(n, slots, e, m.from, slots.slots[Min(stale)])} ELSE {}
           fails == FailPackets(n, g.view, newEpoch, g.marked)
<1>1. n \in Node /\ view[n] \in View
  BY Received
<1>2. view' = [view EXCEPT ![n] = g.view]
  BY DEF HandleBeat
<1>3. PICK sent \in SUBSET (pong \cup update \cup fails) : net' = (net \ {m}) \cup sent
  BY DEF HandleBeat
<1>4. ViewBlames(n, Seen(m))
  BY <1>1, SeenBlames, SameBlameBlames DEF FailInv, Seen
<1>5. \A p \in pong : PacketBlames(p)
  BY <1>4, BeatBlames
<1>6. \A p \in update : PacketBlames(p)
  BY UpdateBlames
<1>7. \A p \in fails : PacketBlames(p)
  BY FailPacketBlames
<1> HIDE DEF pong, update, fails
<1>8. net' \subseteq net \cup sent /\ \A p \in sent : PacketBlames(p)
  BY <1>3, <1>5, <1>6, <1>7
<1> QED BY <1>1, <1>2, <1>8, BlameStep

LEMMA ReceiveBeatBlames ==
  ASSUME RoleInv, FailInv, FirstMasters, FirstMasters', NEW m \in net, ReceiveBeat(m)
  PROVE  FailInv'
<1> DEFINE n == m.to
           e == Max({currentEpoch[n], m.currentEpoch})
           answered(old) == IF m.type = "pong" THEN ClearFailure(Seen(m), m.from, old) ELSE Seen(m)
           role(old) == SwitchRole(answered(old), m)
           slots(old) == ClaimSlots(n, role(old), m)
           collides(old) == HandleConfigEpochCollision(n, slots(old), m)
           newEpoch(old) == IF collides(old) THEN e + 1 ELSE e
           fixed(old) == IF collides(old) THEN [slots(old) EXCEPT !.configEpoch[n] = newEpoch(old)] ELSE slots(old)
<1>1. PICK picked \in Picks(n), old \in BOOLEAN,
            expired \in IF env.expiring THEN SUBSET UNION {view[n].reports[x] : x \in m.failing} ELSE {{}} :
        HandleBeat(m, e, newEpoch(old), role(old), slots(old), Gossip(n, fixed(old), m, expired), picked)
  BY Zenon DEF ReceiveBeat
<1>2. UNCHANGED <<suspected, env>> /\ booting' = booting
  BY DEF ReceiveBeat
<1>3. /\ Proper(m) /\ m \in Packet /\ n \in Node /\ m.from \in Node /\ m.from # n /\ e \in Nat
      /\ view[n] \in View /\ Seen(m) \in View /\ ViewSound(n, Seen(m))
  BY Received DEF Others
<1>4. PacketBlames(m) /\ ViewBlames(n, Seen(m))
  BY <1>3, SeenBlames, SameBlameBlames DEF FailInv, Seen
<1>5. answered(old) \in View /\ ViewSound(n, answered(old)) /\ ViewBlames(n, answered(old))
  BY <1>3, <1>4, ClearFailureSound, ClearFailureBlames
<1> HIDE DEF answered, e
<1>6. role(old) \in View /\ ViewSound(n, role(old)) /\ ViewBlames(n, role(old))
  BY <1>3, <1>5, SwitchRoleSound, SwitchRoleBlames, SameBlameBlames
<1> HIDE DEF role
<1>7. slots(old) \in View /\ ViewSound(n, slots(old)) /\ ViewBlames(n, slots(old))
  BY <1>3, <1>6, ClaimSlotsSound, ClaimSlotsBlames, SameBlameBlames
<1> HIDE DEF slots
<1>8. newEpoch(old) \in Nat
  BY <1>3
<1> HIDE DEF newEpoch
<1>9. fixed(old) \in View /\ ViewBlames(n, fixed(old))
  BY <1>3, <1>7, <1>8, EpochSound, EpochBlames, SameBlameBlames
<1> HIDE DEF fixed
<1> DEFINE g == Gossip(n, fixed(old), m, expired)
<1>10. g.view.slaveof = fixed(old).slaveof /\ g.view.slots = fixed(old).slots
  BY <1>9, GossipRoles
<1>11. view'[n] = g.view
  BY <1>1, <1>3 DEF HandleBeat, RoleInv, TypeOK
<1> HIDE DEF g
<1>12. \A x \in Node : IsMaster(fixed(old), x) => x \in Masters
  <2>1. Masters' = Masters
    BY <1>2 DEF Masters
  <2>2. ASSUME NEW x \in Node, view'[n].slaveof[x] = None PROVE x \in Masters'
    BY <1>3, <2>2 DEF FirstMasters, IsMaster
  <2> QED BY <1>10, <1>11, <2>1, <2>2 DEF IsMaster
<1>13. 2 * NeededQuorum(n) > Cardinality(Masters)
  BY <1>3 DEF FirstMasters
<1>14. ViewBlames(n, g.view) /\ \A x \in g.marked : MostMissed(x)
  BY <1>3, <1>4, <1>9, <1>12, <1>13, GossipBlames DEF g
<1>15. HandleBeat(m, e, newEpoch(old), role(old), slots(old), g, picked)
  BY <1>1 DEF g
<1> QED BY <1>2, <1>14, <1>15, HandleBeatBlames

LEMMA ReceiveFailBlames ==
  ASSUME RoleInv, FailInv, NEW m \in net, ReceiveFail(m)
  PROVE  FailInv'
<1> DEFINE n == m.to
           failed == [Seen(m) EXCEPT !.flags[m.about] = "fail"]
           v == IF m.about # n THEN failed ELSE Seen(m)
<1>1. Proper(m) /\ n \in Node /\ view[n] \in View /\ Seen(m) \in View
  BY Received
<1>2. m.type = "fail" /\ view' = [view EXCEPT ![n] = v] /\ net' \subseteq net /\ UNCHANGED <<suspected, env>>
  BY DEF ReceiveFail, ReceivePacket
<1>3. ViewBlames(n, Seen(m))
  BY <1>1, SeenBlames, SameBlameBlames DEF FailInv, Seen
<1>4. m.about \in Node /\ MostMissed(m.about)
  BY <1>1, <1>2 DEF Proper, FailInv, PacketBlames
<1>5. /\ failed.reports = Seen(m).reports
      /\ \A x \in Node : failed.flags[x] = IF x = m.about THEN "fail" ELSE Seen(m).flags[x]
  BY <1>1, <1>4 DEF View
<1> HIDE DEF failed
<1>6. ViewBlames(n, failed)
  BY <1>3, <1>4, <1>5 DEF ViewBlames
<1>7. ViewBlames(n, v)
  BY <1>3, <1>6
<1> HIDE DEF v
<1> QED BY <1>1, <1>2, <1>7, SilentStep

LEMMA ReceiveUpdateBlames ==
  ASSUME RoleInv, FailInv, NEW m \in net, ReceiveUpdate(m)
  PROVE  FailInv'
<1> DEFINE n == m.to
           master == SetNodeAsMaster(Seen(m), m.about)
           known == [master EXCEPT !.configEpoch[m.about] = m.aboutEpoch]
           v == IF Seen(m).configEpoch[m.about] >= m.aboutEpoch THEN Seen(m)
                ELSE UpdateSlotsConfigWith(n, known, m.about, m.aboutEpoch, m.aboutSlots)
<1>1. /\ Proper(m) /\ m \in Packet /\ n \in Node /\ view[n] \in View
      /\ Seen(m) \in View /\ ViewSound(n, Seen(m))
  BY Received
<1>2. m.type = "update" /\ view' = [view EXCEPT ![n] = v] /\ net' \subseteq net /\ UNCHANGED <<suspected, env>>
  BY DEF ReceiveUpdate, ReceivePacket
<1>3. ViewBlames(n, Seen(m))
  BY <1>1, SeenBlames, SameBlameBlames DEF FailInv, Seen
<1>4. m.about \in Node /\ m.aboutEpoch \in Nat
  BY <1>1, <1>2 DEF Proper, Packet
<1>5. master \in View /\ ViewSound(n, master) /\ ViewBlames(n, master)
  BY <1>1, <1>3, <1>4, SetNodeAsMasterSound, SetMasterBlames, SameBlameBlames
<1> HIDE DEF master
<1>6. known \in View /\ ViewBlames(n, known)
  BY <1>1, <1>4, <1>5, EpochSound, EpochBlames, SameBlameBlames
<1> HIDE DEF known
<1>7. ViewBlames(n, v)
  BY <1>3, <1>6, UpdateSlotsBlames, SameBlameBlames
<1> HIDE DEF v
<1> QED BY <1>1, <1>2, <1>7, SilentStep

LEMMA ReceiveVoteBlames ==
  ASSUME RoleInv, FailInv, NEW m \in net, ReceiveAuthRequest(m) \/ ReceiveAuthAck(m)
  PROVE  FailInv'
<1> DEFINE n == m.to
           sent == {Header(n, Seen(m), Max({currentEpoch[n], m.currentEpoch}), "ack", m.from)}
<1>1. n \in Node /\ view[n] \in View
  BY Received
<1>2. SameBlame(view[n], Seen(m))
  BY <1>1, SeenBlames DEF Seen
<1>3. view' = [view EXCEPT ![n] = Seen(m)] /\ net' \subseteq net \cup sent /\ UNCHANGED <<suspected, env>>
  BY DEF ReceiveAuthRequest, ReceiveAuthAck, ReceivePacket
<1>4. \A p \in sent : PacketBlames(p)
  BY DEF PacketBlames, Header
<1> HIDE DEF sent
<1> QED BY <1>1, <1>2, <1>3, <1>4, QuietStep

LEMMA PongTimeoutBlames ==
  ASSUME RoleInv, FailInv, NEW n \in Node, NEW m \in Node, PongTimeout(n, m)
  PROVE  FailInv'
<1>1. suspected' = suspected \cup {<<n, m>>} /\ net' = net /\ env' = env
  BY DEF PongTimeout
<1>2. Masters' = Masters
  BY <1>1 DEF Masters
<1>3. ASSUME NEW y, MostMissed(y) PROVE MostMissed(y)'
  <2> DEFINE R == {x \in Masters : <<x, y>> \in suspected}
             S == {x \in Masters : <<x, y>> \in suspected'}
  <2>1. R \in SUBSET S /\ S \in SUBSET Masters
    BY <1>1
  <2>2. 2 * Cardinality(R) > Cardinality(Masters)
    BY <1>3 DEF MostMissed
  <2> HIDE DEF R, S
  <2>3. 2 * Cardinality(S) > Cardinality(Masters)
    BY <2>1, <2>2, FiniteMasters, MostGrows
  <2> QED BY <1>2, <2>3 DEF MostMissed, S
<1>4. ASSUME NEW x, NEW y, Blames(x, y) PROVE Blames(x, y)'
  BY <1>1, <1>3, <1>4 DEF Blames
<1>5. Blames(n, m)'
  BY <1>1 DEF Blames
<1>6. ASSUME NEW x \in Node, NEW y \in Node
      PROVE  /\ view'[x].reports = view[x].reports
             /\ view'[x].flags[y] = view[x].flags[y] \/ (x = n /\ y = m /\ view'[x].flags[y] = "pfail")
  <2>1. view \in [Node -> View] /\ view[x] \in View
    BY DEF RoleInv, TypeOK
  <2>2. view' = [view EXCEPT ![n].flags[m] = "pfail"]
    BY DEF PongTimeout
  <2> QED BY <2>1, <2>2 DEF View
<1>7. ASSUME NEW x \in Node PROVE ViewBlames(x, view[x])'
  <2>1. ViewBlames(x, view[x])
    BY DEF FailInv
  <2>2. ASSUME NEW y \in Node
        PROVE  /\ view'[x].flags[y] = "fail" => MostMissed(y)'
               /\ view'[x].flags[y] = "pfail" => Blames(x, y)'
    BY <1>3, <1>4, <1>5, <1>6, <2>1 DEF ViewBlames
  <2>3. ASSUME NEW y \in Node, NEW f \in view'[x].reports[y]
        PROVE  Fresh(x, y, f)'
    <3>1. Fresh(x, y, f)
      BY <1>6, <2>1 DEF ViewBlames
    <3> QED BY <1>2, <1>4, <3>1 DEF Fresh
  <2> QED BY <2>2, <2>3 DEF ViewBlames
<1>8. ASSUME NEW p \in net' PROVE PacketBlames(p)'
  BY <1>1, <1>3, <1>4 DEF FailInv, PacketBlames
<1> QED BY <1>7, <1>8 DEF FailInv

LEMMA ElectionBlames ==
  ASSUME RoleInv, FailInv, NEW n \in Node, Schedule(n) \/ StartElection(n)
  PROVE  FailInv'
<1>1. UNCHANGED <<suspected, env>> /\ view' = view
  BY DEF Schedule, StartElection
<1>2. CASE Schedule(n)
  <2>1. PICK links : net' \subseteq net \cup BroadcastPong(n, view[n], currentEpoch[n], links)
    BY <1>2 DEF Schedule
  <2>2. \A p \in BroadcastPong(n, view[n], currentEpoch[n], links) : PacketBlames(p)
    BY BroadcastBlames DEF FailInv
  <2> QED BY <1>1, <2>1, <2>2, StillView, QuietStep
<1>3. CASE StartElection(n)
  <2> DEFINE e == currentEpoch[n] + 1
             sent == {[Header(n, view[n], e, "authrequest", to) EXCEPT !.force = auth[n].manual] : to \in Others(n)}
  <2>1. net' \subseteq net \cup sent
    BY <1>3 DEF StartElection
  <2>2. \A p \in sent : PacketBlames(p)
    BY DEF PacketBlames, Header
  <2> HIDE DEF sent
  <2> QED BY <1>1, <2>1, <2>2, StillView, QuietStep
<1> QED BY <1>2, <1>3

LEMMA PromoteBlames ==
  ASSUME RoleInv, FailInv, NEW n \in Node, NEW v \in View, SameBlame(view[n], v), NEW e,
         Promote(n, v, e), UNCHANGED <<suspected, env>>
  PROVE  FailInv'
<1> DEFINE w == ReplaceYourMaster(n, v)
<1>1. SameBlame(view[n], w)
  BY DEF ReplaceYourMaster, SetNodeAsMaster, View, SameBlame
<1>2. ViewBlames(n, w)
  BY <1>1, SameBlameBlames DEF FailInv
<1>3. view' = [view EXCEPT ![n] = w]
  BY DEF Promote
<1>4. PICK links : net' \subseteq net \cup BroadcastPong(n, w, e, links)
  BY DEF Promote
<1> HIDE DEF w
<1>5. \A p \in BroadcastPong(n, w, e, links) : PacketBlames(p)
  BY <1>2, BroadcastBlames
<1> QED BY <1>2, <1>3, <1>4, <1>5, BlameStep

LEMMA BumpedBlames ==
  ASSUME RoleInv, NEW n \in Node
  PROVE  BumpedView(n) \in View /\ SameBlame(view[n], BumpedView(n))
<1>1. BumpedView(n) \in {view[n], [view[n] EXCEPT !.configEpoch[n] = Bumped(n)]}
  BY DEF BumpedView
<1>2. SameBlame(view[n], [view[n] EXCEPT !.configEpoch[n] = Bumped(n)]) /\ SameBlame(view[n], view[n])
  BY StillView, EpochBlames
<1>3. SameBlame(view[n], BumpedView(n))
  BY <1>1, <1>2
<1> QED BY <1>3, BumpedSound

LEMMA WinBlames ==
  ASSUME RoleInv, FailInv, NEW n \in Node, Win(n)
  PROVE  FailInv'
<1> DEFINE v == [view[n] EXCEPT !.configEpoch[n] = Max({@, auth[n].epoch})]
<1>1. view[n] \in View /\ ViewSound(n, view[n]) /\ auth[n].epoch \in Nat
  BY DEF RoleInv, TypeOK, RolesSound, Auth
<1>2. view[n].configEpoch[n] \in Nat
  BY <1>1 DEF View
<1>3. Max({view[n].configEpoch[n], auth[n].epoch}) \in Nat
  BY <1>1, <1>2, MaxOfTwo
<1>4. v \in View /\ SameBlame(view[n], v)
  BY <1>1, <1>3, EpochSound, EpochBlames
<1>5. Promote(n, v, currentEpoch[n]) /\ UNCHANGED <<suspected, env>>
  BY DEF Win
<1> HIDE DEF v
<1> QED BY <1>4, <1>5, PromoteBlames

LEMMA CommandBlames ==
  ASSUME RoleInv, FailInv, NEW n \in Node, Takeover(n) \/ BumpEpoch(n)
  PROVE  FailInv'
<1>1. BumpedView(n) \in View /\ SameBlame(view[n], BumpedView(n))
  BY BumpedBlames
<1>2. CASE Takeover(n)
  <2>1. Promote(n, BumpedView(n), Bumped(n)) /\ UNCHANGED <<suspected, env>>
    BY <1>2 DEF Takeover
  <2> QED BY <1>1, <2>1, PromoteBlames
<1>3. CASE BumpEpoch(n)
  <2>1. view' = [view EXCEPT ![n] = BumpedView(n)] /\ net' \subseteq net /\ UNCHANGED <<suspected, env>>
    BY <1>3 DEF BumpEpoch
  <2>2. ViewBlames(n, BumpedView(n))
    BY <1>1, SameBlameBlames DEF FailInv
  <2> QED BY <2>1, <2>2, SilentStep
<1> QED BY <1>2, <1>3

LEMMA TimerBlames ==
  ASSUME RoleInv, FailInv, NEW n \in Node,
         ForceFailover(n) \/ ForceTimeout(n) \/ ElectionTimeout(n) \/ WritableDelayOver(n)
  PROVE  FailInv'
<1>1. view' = view /\ net' \subseteq net /\ UNCHANGED <<suspected, env>>
  BY DEF ForceFailover, ForceTimeout, ElectionTimeout, WritableDelayOver
<1>2. ViewBlames(n, view[n])
  BY DEF FailInv
<1> QED BY <1>1, <1>2, StillView, SilentStep

LEMMA RestartBlames ==
  ASSUME RoleInv, FailInv, NEW n \in Node, Restart(n)
  PROVE  FailInv'
<1> DEFINE w(kept) == Loaded(view[n], kept)
<1>1. PICK kept : view' = [view EXCEPT ![n] = w(kept)]
  BY DEF Restart
<1>2. net' \subseteq net /\ UNCHANGED <<suspected, env>>
  BY DEF Restart
<1>3. view[n] \in View /\ ViewBlames(n, view[n])
  BY DEF RoleInv, TypeOK, FailInv
<1>4. \A x \in Node : w(kept).flags[x] \in {"ok", view[n].flags[x]} /\ w(kept).reports[x] = {}
  BY <1>3 DEF Loaded, View
<1> HIDE DEF w
<1>5. ViewBlames(n, w(kept))
  BY <1>3, <1>4 DEF ViewBlames
<1> QED BY <1>1, <1>2, <1>5, SilentStep

LEMMA InitBlames == Init /\ FirstMasters => FailInv
<1> SUFFICES ASSUME Init, FirstMasters PROVE FailInv
  OBVIOUS
<1>1. net = {} /\ suspected = {p \in Node \X Node : env.flags[p[2]] # "ok"}
  BY DEF Init
<1>2. ASSUME NEW n \in Node, NEW m \in Node
      PROVE  view[n].reports[m] = {} /\ view[n].flags[m] \in {"ok", env.flags[m]}
  BY DEF Init
<1>3. ASSUME NEW m \in Node, env.flags[m] # "ok"
      PROVE  MostMissed(m) /\ \A n \in Node : Blames(n, m)
  <2>1. {x \in Masters : <<x, m>> \in suspected} = Masters
    BY <1>1, <1>3, FiniteMasters
  <2>2. 2 * Cardinality(Masters) > Cardinality(Masters)
    BY FiniteMasters, AllAreMost DEF FirstMasters
  <2>3. MostMissed(m)
    BY <2>1, <2>2 DEF MostMissed
  <2> QED BY <2>3 DEF Blames
<1>4. ASSUME NEW n \in Node PROVE ViewBlames(n, view[n])
  BY <1>2, <1>3 DEF ViewBlames
<1> QED BY <1>1, <1>4 DEF FailInv

LEMMA NextBlames ==
  ASSUME RoleInv, FailInv, FirstMasters, FirstMasters', Next
  PROVE  FailInv'
<1>1. CASE \E n \in Node, m \in Node : SendPing(n, m) \/ PongTimeout(n, m)
  BY <1>1, SendPingBlames, PongTimeoutBlames
<1>2. CASE \E m \in net : \/ ReceiveBeat(m) \/ ReceiveFail(m) \/ ReceiveUpdate(m)
                          \/ ReceiveAuthRequest(m) \/ ReceiveAuthAck(m)
  BY <1>2, ReceiveBeatBlames, ReceiveFailBlames, ReceiveUpdateBlames, ReceiveVoteBlames
<1>3. CASE \E n \in Node : Schedule(n) \/ StartElection(n) \/ Win(n)
  BY <1>3, ElectionBlames, WinBlames
<1>4. CASE \E n \in Node : \/ Takeover(n) \/ BumpEpoch(n) \/ Restart(n)
                           \/ ForceFailover(n) \/ ForceTimeout(n) \/ ElectionTimeout(n) \/ WritableDelayOver(n)
  BY <1>4, CommandBlames, TimerBlames, RestartBlames
<1> QED BY <1>1, <1>2, <1>3, <1>4 DEF Next

\* As long as the masters are those of the start and every node computes a majority of
\* them as its quorum, a node is in FAIL state somewhere only if most masters have missed
\* its PONGs themselves: the reports are of different masters, each of which has timed
\* out or has learned of the FAIL, whatever is late, lost, out of order or restarted.
\* The code does not make sure of the hypothesis, see NeededQuorum.
THEOREM FailuresSeen == Spec /\ []FirstMasters => []FailByMajority
<1>1. RoleInv /\ FailInv /\ FirstMasters /\ FirstMasters' /\ [Next]_vars => FailInv'
  <2> SUFFICES ASSUME RoleInv, FailInv, FirstMasters, FirstMasters', [Next]_vars PROVE FailInv'
    OBVIOUS
  <2>1. CASE UNCHANGED vars
    <3>1. UNCHANGED <<view, net, suspected, env>>
      BY <2>1 DEF vars
    <3>2. Masters' = Masters /\ \A m : MostMissed(m)' <=> MostMissed(m)
      BY <3>1 DEF MostMissed, Masters
    <3>3. \A x, m : Blames(x, m)' <=> Blames(x, m)
      BY <3>1, <3>2 DEF Blames
    <3>4. ASSUME NEW n \in Node PROVE ViewBlames(n, view[n])'
      BY <3>1, <3>2, <3>3 DEF FailInv, ViewBlames, Fresh
    <3>5. ASSUME NEW q \in net' PROVE PacketBlames(q)'
      BY <3>1, <3>2, <3>3 DEF FailInv, PacketBlames
    <3> QED BY <3>4, <3>5 DEF FailInv
  <2> QED BY <2>1, NextBlames
<1>2. FailInv => FailByMajority
  BY DEF FailInv, ViewBlames, MostMissed, Masters, FailByMajority
<1> QED BY <1>1, <1>2, InitBlames, RoleInvariant, PTL DEF Spec

=============================================================================
