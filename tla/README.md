# Verification of the C programs

This directory holds TLA+ models of the stateful programs of this repository,
TLC configurations that check them on small instances, and proofs that TLAPS
checks for every instance. `PROJECT.json` is the machine-readable index: which
definition models which lines, which run checks which property, and which
hazards of the code each property is aimed at.

## The system

The repository is a collection of C and C++ programs. Its parts, by what they
keep correct:

| part | what it is | state |
|---|---|---|
| `src/apue/apue.3e/db` | record library: `db.c` over two files, `fcntl` record locks | `Db`, `DbMap` |
| `src/apue/apue.3e/printer` | print spooler: daemon `printd`, command `print`, printer protocol | `Printd` |
| `src/redis/src/cluster.c` | Redis Cluster bus: failure detection, elections, slots configuration | `Cluster` |
| `src/apue/apue.3e/lib` | wrappers, record locks, TELL/WAIT, `popen`, `semaph` | `lock_reg` and `err_dump` are part of `Db` |
| `src/apue/apue.3e/threads`, `ipc2` (`opend`) | shared objects and queues, a server of open files | not modelled |
| other directories of `apue.3e` | one-call demonstrations | not modelled: no state to keep correct |
| `src/pocketDB`, puzzles, `src/my-sqlite3`, exercises | programs of one process | not modelled |
| the rest of `src/redis`; `src/readline`, `src/zork`, `src/SocketsProgramming/unpv13e` | third-party sources | not modelled |

The three modelled parts do not interact. Inside each of them the interesting
interaction is between concurrent actors: processes that share the files of a
database, the threads, clients and restarts of the print daemon, and the nodes
of a cluster.

| modules | content |
|---|---|
| `Db`; `DbMap`, `DbAsMap`; `MCDb` | the record library; the abstract map and the refinement mapping; instances |
| `DbInv`, `DbLists` | the inductive invariants of the record library |
| `DbProofs` | its theorems about locks, pointers and types, and facts about the lists that the next modules share |
| `DbListProofs`, `DbMapProofs` | the steps that keep the invariants of the lists and of the map |
| `DbCallProofs` | the data records, and that every action is a step of the map or a stutter |
| `DbPromises` | its theorems about walks, the map and the refinement |
| `Printd`; `MCPrintd` | the print spooler; instances |
| `PrintdProofs`, `PrintdPromises` | its invariants and theorems |
| `Cluster`; `MCCluster` | the cluster bus; instances |
| `ClusterProofs` | its invariants and theorems |

## The record library

### Model

`Db` models `db.c`. A process has one open handle and is either idle or inside
`db_fetch`, `db_store`, `db_delete`, `db_nextrec` or `db_rewind`; `pc[p]` names
the next system call it makes. **One step is one lock, one read or one write of a file**
together with the local computation around it, so processes interleave as their
system calls do.

* Index file: `ptr[o]` is the chain pointer at offset `o`. Offset 0 is the free
  list (`FREE_OFF`), `1 .. NHash` the hash table, and larger offsets are the
  index records in file order; `rec[o]` holds the other fields of such a
  record. Offsets are counted in places rather than bytes.
* Data file: `dat[i]` is the i-th data record, `datsize` the end of the file.
* Locks: `rl[o]` and `wl[o]` are the holders of read and write locks on one
  byte of the index file; `wl[RecOff]` is the lock on everything after the hash
  table, which `_db_writeidx` takes to append; `datwl` is the lock on the data
  file.
* Handle: `db[p]` holds the fields of `DB` and the locals that outlive a step
  (`offset`, `save`, `head` are `offset`, `saveptr` and `ptrval` of the code);
  `pos[p]` is the file position of `idxfd`, which `db_nextrec` relies on.
* `kv` and `ret` are history: the map built by the calls that have taken effect
  and what each call returns.

Keys and data are model values with lengths, since the code compares keys for
equality and lengths for reuse. A hash function maps keys to chains. A blank
key or data record reads as `Blank`. `err_dump` ends a process (`Exit`), which
releases its locks; a killed process (`Crash`) does the same at any step.
The sequence of seek and write that the code makes atomic only with the help of
a lock (appends) is two steps; seek and write to a place fixed by the handle's
own state is one, as no other process shares the file position. `_db_dodelete`
prints its blanks into the buffer it prints from, which the C standard leaves
undefined; the outcome modelled is a record of blanks, which a library that
copies the prefix before it reads the argument produces.

Abstractions of `db.c`. `_db_readidx` reads the fixed part of an index record
with `readv` and the rest with `read`; both are one step (`ReadIdx`), which
changes nothing because a record that is used again keeps its length. The check
of the record's length in `_db_writeidx` (db.c:580) is left out: keys have the
lengths that `db_store` accepts. A write on a full disk writes nothing (`IdxFull`,
`DatFull`), while a `writev` may really leave part of a record behind the end
that the index knows; nothing points to it. `db_open` is modelled as far as it
opens existing files (`Reopen`).

`DbMap` is the abstract specification: a map on which each call takes effect
at one instant between its start and its return. `DbAsMap!ImplementsMap` says
that `Db` implements it; the refinement mapping is the identity on `kv` and
`ret`, and a dead process is in no call.

### Runs

| run | question | instance |
|---|---|---|
| `db_writers` | Do two writers keep chains and free list well formed (`ListsSound`), equal to the stored map (`FilesHoldMap`), without leaking records (`NoRecordLost`) or sharing data (`DataUnshared`)? | 3 keys on 2 chains, 2 lengths |
| `db_map` | Is every call atomic, with every store flag (`ImplementsMap`), and does a scan beside a writer return only pairs that are stored or being stored (`FreeExclusion` is why)? | 2 colliding keys, 3 data values |
| `db_limits` | Full files, offsets above `PTR_MAX`, bad flags and lengths: is any other record harmed (`FilesHoldMap`)? Does every call end (`CallsDrain`)? | small `PtrMax`, `IdxCap`, `DatCap`; fairness |
| `db_crash` | Are the lists still sound and the locks still exclusive after a kill outside the two torn steps of `_db_dodelete`? | 2 writers, 2 chains |
| `db_mixed` | *violation*: a scan that is interleaved with stores on the same handle | 1 process |

`CrashSpec` excludes the two steps between rewriting the deleted index record
(db.c:509) and unlinking it (db.c:522), during which the chain runs into the
free list. A kill there loses the rest of the chain; the theorems below are about
`KillSpec`, which allows it, and say what holds even then. The exclusion is a
statement about the code, and is in `Torn`.

`db_mixed` shows the one disagreement found in this part: `db_nextrec` reads
at the current file position, which the other calls on the handle move too. After
a store that has linked its record the position is behind a chain pointer, where
no index record starts, and stays there until `db_rewind`. `_db_readidx` then finds a bad length or separator and `err_dump` aborts;
the model always takes this outcome (bytes that line up by chance are left out).

Bounds. Two processes reach every pair of steps; three records and three data
records are enough for a reused record, an appended one and a third on another
list. Two keys on one chain and one on another give both conflicting and
independent calls. The caps `IdxCap` and `DatCap` play the part of a full disk
and are themselves exercised (`IdxFull`, `DatFull`).

Fairness. `FairSpec` assumes weak fairness of each process's own steps: the
system schedules every process whose next system call can proceed. Nothing is
assumed about the order in which a lock is granted, nor that callers call;
hence `CallsDrain` does not promise that a waiting process is served while
others keep calling, but that no set of calls is ever stuck.

### Theorems

All are for any sets of processes, keys and data, any hash function, and files of
any size. The assumptions are `DbConstants`, which TLC evaluates in every
`MCDb` run. `KillSpec` allows a kill at any step, `CrashSpec` one outside the two
torn steps, `Spec` none.

| theorem | states | about |
|---|---|---|
| `DbProofs!Exclusion`, `FreeListExclusive`, `AppendsExclusive` | `ChainExclusion`, `FreeExclusion`, `AppendExclusion` | `KillSpec` |
| `DbProofs!PointerSafety`, `DbTyped` | `PointersValid`, `TypeOK` | `KillSpec` |
| `DbCallProofs!UnsharedData` | `DataUnshared` | `KillSpec` |
| `DbPromises!SoundLists` | `ListsSound` | `CrashSpec` |
| `DbPromises!MapOnFiles` | `FilesHoldMap` | `Spec` |
| `DbPromises!RecordsKept` | `NoRecordLost` while the index file fits its pointers (`Fits`) | `Spec` |
| `DbPromises!Refinement` | `ImplementsMap` if `IdxCap <= PtrMax` | `Spec` |

*Locks.* The properties say only what no two processes do. `DbInv!LockInv` says
*why*: at each label which call the process is in (`CallOK`), which locks it
therefore holds (`HoldOK`), and what `fcntl` guarantees (`GrantInv`). The proof
goes action by action; `OthersKeep` and `Stay` carry the part about the other
processes.

*Pointers and types.* `DbInv!FileInv` adds what each handle refers to at each
label: its offsets are places of written records, and at the two append labels
the remembered offset is still the end of the file. The latter needs `LockInv`,
since another process could otherwise move the end (`Grow`, `AppendFileInv`).

*Lists.* `ListsSound` is a statement about walks, and nothing about a walk is
inductive while another process is between two pointer writes: in `_db_dodelete`
the chain on the file runs into the free list for two steps. `DbLists!ListInv`
therefore speaks of the lists as the code *means* them. It says that there are
functions `own` (the list a place is on), `nx` (what follows it there) and
`rank` (a number that falls along each list) of the right `Shape`; that the file
agrees with them wherever no process is torn (`OnFile`); and for each label how the
handle's offsets stand to them (`Place`): what `_db_find_and_lock` has passed,
what it found, what is held on no list. Each action that writes a pointer says
which of the functions changes and how (`ShapeRemove`, `ShapeInsert`);
`DbPromises` then gets the statements about walks from a least rank at which
they would fail (`UpTo`). That is how a fact about lists of any length is proved
without induction over data.

*Data.* `DataInv` is `DataUnshared` with what a process knows of the data record
it has appended or is about to overwrite (`DataPlace`).

*Map.* `MapInv` relates the lists to `kv`: a record on a chain is in the map with
its data unless that is just being blanked, and a key of the map is on its chain
unless a delete or a replacing store is between two steps (`Between`). `Whole`
says that no record that a pointer can lead to is off all lists and held by
nobody. The record that `_db_writeptr` refuses to link is lost, hence `Fits`.

*Refinement.* `AnswerPlace` adds which calls have taken effect and what a scan
has read. Every action is then a step of the map or a stutter: the effect of a
call is at `_db_find_and_lock`'s miss, at the read of the data, at the unlink
of `_db_dodelete`, at the in-place write or at the link of the new head. Every
other step stutters (`Hidden`), a return is `Return`, an `err_dump` is `Abort`.
`IdxCap <= PtrMax` is needed because a scan meets a record that `_db_writeptr`
refused, which never enters the map.

`LockInv`, `FileInv`, `ListInv` (with `own`, `nx` and `rank` computed from the
state), `DataInv`, `MapInv`, `Whole` and `AnswerPlace` were checked by TLC on the
instances of the runs before they were proved. `CallsDrain` is liveness and
`ScanNeverAborts` fails; everything else that the runs check about `Db` is proved.

## The print spooler

### Model

`Printd` models `printd.c` with all its threads, and as much of `print.c` and
`util.c` as the daemon can see.

* Spool directory (survives a restart): `data[j]` and `ctl[j]` are the data and
  the control file of job `j`, `jobfile` the number in the job file, `conf` the
  version of the configuration file. A data file is the client it comes from
  and how many reads of it have been stored; a control file is empty or holds a
  client's request.
* Memory: `queue` is the job list as a sequence (`add_job` appends, `replace_job`
  puts back in front, `remove_job` takes the head), `nextjob` the counter,
  `th[c]` the client thread of `c`, `ppc` and `job` the printer thread,
  `main` and `scan` the main thread, `printer`, `reread` the configuration.
* Threads interleave at every system call and critical section. Sections under
  `joblock` are one step, except `get_newjobno` at the largest number, where the
  increment and the correction are two (`WrapJobno`) because `update_jobno` reads
  `nextjob` without the lock. `pthread_cond_signal` comes after the unlock, as in
  the code, and `pthread_cond_wait` may wake up by itself.
* Failures are switched on per run by `Faults`: a stalled client, a killed
  client, failing writes (`disk`), failing opens (`open`), failing reads of a
  request at start-up (`read`), a printer that cannot be reached, refuses, or
  whose answer gets lost (`printer`).
* `Stop` ends the daemon at any step; `Start` begins a new one from the spool
  directory.
* History: `confirmed` are the clients whose file the printer has confirmed,
  `torn` those of them whose data file was still there when the daemon was
  stopped (between printd.c:825 and 826), `unread` those whose request
  `build_qonstart` opened and failed to read, `cancelled` those given up by this
  daemon because a file could not be opened.

`update_jobno` does not truncate the job file, so a shorter number leaves the
last digits of a longer one (`Overwritten`). The code's comment says the file
"Doesn't handle wrap-around of job number"; what a daemon makes of a job file
beyond `INT32_MAX` is left out, and no restart run wraps around.

### Runs

| run | question | instance |
|---|---|---|
| `printd_queue` | Are acknowledged jobs kept, in the queue exactly once, served in order and never printed again, with numbers that wrap around and a failing printer? | 3 clients, numbers from the largest one on |
| `printd_stop` | Do acknowledged files survive restarts and failing opens and writes, those aside that `build_qonstart` failed to read? Is the queue rebuilt completely and without duplicates while the printer thread runs? Does a job picked up after SIGHUP use the new configuration? When is a confirmed file printed again (`ReprintOnlyTorn`)? | 2 clients with files of one read, restarts, 2 edits, one of them without a printer |
| `printd_drain` | Is every acknowledged job printed, and do failed, rejected and printed jobs leave the spool directory clean? | 2 clients with fairness; disk, death, stall, printer |
| `printd_reuse` | *violation*: an acknowledged file is overwritten after a restart | restarts at any time |
| `printd_partial` | *violation*: an incomplete file is printed | a client is killed |

The passing restart run allows a stop only while no spooled job has a number
that a new daemon would give out again (`Recorded`). This is exactly the
situation that `printd_reuse` shows to be fatal: the job file is written when
the printer thread picks a job up, not when a number is given out, so a daemon
stopped in between hands out numbers of spooled jobs again, and `creat`
truncates their data. Two more things are lost at a restart, and the
properties say so. A request that cannot be read is removed with its data, even if
it is whole and the error a passing one (printd.c:365-378): `AckedKept` and
`AckedQueued` exempt these jobs (`unread`) and no others that are not confirmed or,
for the latter, cancelled. And a daemon stopped after the printer's confirmation and
before the `unlink` of the data file prints the file again: `ReprintOnlyTorn` says
that this is the only such moment, so that a stop between the two `unlink`s, or a
second stop while the next daemon clears up, reprints nothing. `NoReprint`, without
the exception, is checked and proved for a daemon that is not stopped.

`printd_partial` shows that the end of a file is whatever ends the read loop.
The print command does not shut down its side, so even a healthy transfer ends
with the 20-second timeout, and the `size` in the request is never compared
with what has arrived.

Bounds. Two clients reach every pair of thread steps; the third makes the queue
long enough for order to matter. Clients 2 and 3 are interchangeable in
`printd_queue`, both clients in `printd_stop`, where symmetry is used. A file takes
up to two reads. `MaxPrint` bounds how often a lost answer makes a file print again.
Deadlock is not checked: each print command submits once, and a daemon with
nothing to do waits.

Fairness. `FairSpec` assumes that each thread of the daemon is scheduled, and
that a printer asked again and again is at last reached and confirms. Without
the latter the job at the head blocks the queue, by design of `replace_job`.
A client that stalls is not assumed to go on: the timeouts of `tread` are
actions of their own.

### Theorems

For every set of print commands, every range of job numbers up to 998 (`Digits`,
which models the untruncated job file, knows three digits), every content of the
job file and every set of faults. The assumptions are `PrintdConstants`; one of
them is that there are no more print commands than numbers.

| theorem | states | about |
|---|---|---|
| `PrintdProofs!PrintdTyped` | `TypeOK` | `KillSpec`: stopped at any step |
| `PrintdProofs!OldestFirst` | `ServedInOrder` | `KillSpec` |
| `PrintdProofs!SighupHonoured` | `ConfigHonoured` | `KillSpec` |
| `PrintdPromises!NoJobTwice` | `NoDuplicateJob` | `Promising` |
| `PrintdPromises!FilesKept` | `AckedKept` (all but the `unread` jobs), if no read of a client times out (`"stall"`) | `Promising` |
| `PrintdPromises!JobsQueued` | `AckedQueued` | `Promising` |
| `PrintdPromises!ReprintedWhenTorn` | `ReprintOnlyTorn` | `Promising` |
| `PrintdPromises!PrintedOnce` | `NoReprint` | `Spec` |
| `PrintdPromises!SpoolLeftClean` | `SpoolClean`, if no open fails (`"open"`) | `Spec` |

`Promising` is a daemon that is not stopped, whose numbers may wrap around
(`Spec`), or one that is stopped where `Recorded` allows it, while the numbers do
not wrap around (`NoWrap /\ StopSpec`); `printd_reuse` shows that without
`Recorded` the promises fail.

`DaemonInv` adds to the types what each thread has in hand at each place, and that
the list with the job in hand is the list of the jobs in the order they came
(`LineInv`). `ConfigInv` says that a printer thread whose flag is down has read
the configuration at least as new as the last SIGHUP.

`JobInv` is the invariant behind the promises: who owns each file of the spool
directory (`OwnFiles`, `SpoolInv`), that queue, job in hand and files still to be
scanned are different jobs (`QueueInv`), and where the job of an acknowledged
client is (`AckInv`, `HeldInv`). All steps but one keep it in every
environment; the exception is `get_newjobno`, which must give out a free number.
That is `AgeInv` for a daemon that is not stopped (the numbers in use are the last
ones given out, counted around the wrap) and `RisingInv` for one that is (numbers
only rise, and the job file is never behind a spooled one). `CleanInv` is
for `SpoolClean`: every file belongs to a thread at work or to a job.

The invariants were checked by TLC first. `AckedPrinted` is liveness and stays
with TLC.

## The cluster bus

### Model

`Cluster` models the part of `redis/src/cluster.c` in which nodes work together:
heartbeats with their gossip, failure detection, the election of a slave,
`CLUSTER FAILOVER FORCE` and `TAKEOVER`, `CLUSTER BUMPEPOCH`, the propagation and
repair of the slots configuration, and what `nodes.conf` keeps over a restart.

* `view[n]` is what node `n` believes: for every node its config epoch, the node it
  replicates (`slaveof`, `None` for a master), its failure flag and its list
  of failure reports (`<<x, k>>` is the k-th report of `x`; their order is not read), and for every slot its owner.
* `currentEpoch`, `lastVoteEpoch` and `auth` are the fields of `server.cluster` with
  these names (`failover_auth_*`, `mf_can_start`); `booting` are the nodes in the two
  seconds after their start, and `disk` is the `vars` line of `nodes.conf`.
* `net` is the set of packets in flight. They are received in any order; a packet
  that is lost is one that is never sent or never received. PING and PONG carry the
  sender's view of its role, slots and epochs and a gossip section; FAIL,
  UPDATE, AUTH_REQUEST and AUTH_ACK are the others.
* A packet handler and the `clusterBeforeSleep` that follows it are one step
  (`ReceiveBeat`, `ReceiveFail`, `ReceiveUpdate`, `ReceiveAuthRequest`,
  `ReceiveAuthAck`), since a reply only leaves the process in a later iteration of
  its event loop. The parts of `clusterCron` and `clusterHandleSlaveFailover` are
  `SendPing`, `PongTimeout`, `Schedule`, `StartElection`, `ElectionTimeout` and
  `Win`; the commands are `Takeover`, `BumpEpoch`, `ForceFailover`.
* Clocks are left out: what depends on one (a ping that is not answered, an
  election that expires, an old failure report) may happen at any time. One
  timing assumption is an option: unless `lateVotes` holds, the votes of an
  election arrive before the same slave schedules the next one, four node timeouts
  later (`Schedule` removes the packets of the earlier one). The code only
  waits; with a later vote `WonByVotes` fails.
* What a handler sends is a subset of what the code would send: a reply may be
  lost, and `clusterBroadcastMessage` skips the nodes without a link
  (cluster.c:2185), so that a FAIL reaches any subset of the nodes.
* The quorum is computed from the view with which a handler starts (`NeededQuorum`),
  since `server.cluster->size` is recomputed after the handler. For a booting
  master it is that of a cluster of size 1.
* `granted`, `won` and `suspected` are history. A pair stays in `suspected` when the
  node answers again: the property is about what a master has seen at some time.

`CanFailover` leaves out how old the slave's data may be (`data_age`,
cluster.c:2876-2902), which only forbids more.

An environment (`Scenario`) says how the cluster is configured at the start, which
nodes are down, suspected, restarted or given commands, whether failure reports may
expire before they are renewed (`expiring`), which links carry heartbeats, and the
bounds on epochs and packets in flight. `env` is chosen once.

### Runs

| run | question | instance |
|---|---|---|
| `cluster` | Does a master vote once in an epoch (`OneVote`), does an epoch have one winner (`OneWinner`) with enough votes of its own (`WonByVotes`)? Do the assertions of `clusterSetMaster` hold (`RolesSound`)? Is FAIL a majority's opinion (`FailByMajority`), and does a slot only move to a greater epoch (`OwnerEpochGrows`)? Do the nodes end up agreeing (`Settles`)? | masters `a`, `b`, `c`, slaves `s`, `t` of `a`, or five masters; six environments |
| `cluster_vote` | *violation*: two slaves win the same epoch | the same, and voters that are restarted |

The environments of `cluster`: `Election` (both slaves compete for a failed master),
`Detection` (a crash is found out), `Slow` (five masters, one of them down and one
slow to answer: it is suspected, answers, is suspected again, and reports of it
are withdrawn, expire and come again), `Failover` (detection and election together),
`Takeovers` (two takeovers at once, which choose the same epoch) and `Forced`
(a forced failover with a restart of the slave and a new epoch in between).

`FailByMajority` asks for three different masters out of five in `Slow`, where
two reports and one's own suspicion are needed. No master is restarted in these
environments. One that boots acts on a quorum of size 1 for two seconds, and with
four masters or more it may set FAIL on its own suspicion and one report, which the
comment on `markNodeAsFailingIfNeeded` does not foresee.

`Settles` speaks of clusters whose live nodes all hear of each other
(`Connected`); of the environments these are `Detection` and `Takeovers`, and in
the others it says nothing. In `Detection` the FAIL packets may reach nobody:
each node must then find the crash out by itself, from the reports of the others.

`cluster_vote` shows a disagreement of the code with its own comment: a vote
changes `lastVoteEpoch` without asking for a save of `nodes.conf`, so that a master
restarted after its vote votes again in the epoch, and two slaves are elected in
it, which the comment on `clusterHandleConfigEpochCollision` rules out.

Bounds. Three masters are the smallest number with a majority that is not
everybody, five the smallest odd number at which one report does not make a FAIL, and
two slaves make an election a competition. One heartbeat in flight
at a time is enough for reordering against the other packets, since what it
carries was true when it was sent and may be stale when it arrives. `maxEpoch`
leaves room for two elections or takeovers.

Fairness. `FairSpec` assumes of every link of the environment that some heartbeat
gets through again and again (`clusterCron` pings every node within half a node
timeout), whose gossip section speaks of the suspected nodes (`Hears`; the nodes in it
are picked at random), that FAIL and UPDATE packets that are in flight are received
at last (they need not have been sent), and that a ping nobody answers times out. In
`Detection` reports do not expire before they are renewed: they are valid for two
node timeouts, and packets come every half. It assumes nothing of elections. Deadlock is not
checked: a cluster in which everything is settled and the epochs are used up
stops.

### Theorems

For every finite set of nodes, every number of slots, every initial
configuration and every environment that satisfies `ClusterAssumption`.

| theorem | states | as long as |
|---|---|---|
| `ClusterProofs!SingleVote` | `OneVote` | nobody is restarted and no vote is late (`Steady`) |
| `ClusterProofs!VictoryByVotes` | `WonByVotes` | `Steady` |
| `ClusterProofs!SingleWinner` | `OneWinner` | `Steady`, and each winner needed more than half of those who voted (`Majorities`) |
| `ClusterProofs!Typed` | `TypeOK` | |
| `ClusterProofs!SoundRoles` | `RolesSound` | |
| `ClusterProofs!FailuresSeen` | `FailByMajority` | the masters are those of the start in every view, and every node's quorum is a majority of them (`FirstMasters`) |

`VoteInv` ties `lastVoteEpoch` to the votes given (`VotesPast`), the packets of an
election to its latest epoch (`LatestElection`), and the counter to a set of
voters (`Counted`). `Majorities` is a hypothesis because the code does not ensure
it: each node takes the size of the cluster from its own slots table.
`RoleInv` is `TypeOK` and `RolesSound` with what packets in flight may say; it holds
with restarts and with late votes.

`FailInv` is behind `FailuresSeen`: whoever a view, a report or a packet says is
failing has been timed out on by the master that says so, or by most masters
(`Blames`), and no list has two reports of one master. `FirstMasters` is a
hypothesis about the whole behaviour because the code does not ensure it: a
slave that is promoted, or a booting master's quorum, ends it. It holds in every
state of `Detection` and `Slow`.

`OwnerEpochGrows` and `Settles` are model-checked only. `Settles` is liveness. The
other holds in the environments of the run but not for all constants: it depends on
the epochs with which the nodes start (a slave that already has the greatest epoch
takes over without a new one).

## What is proved and what is model-checked

Every safety property that a passing run checks is also a theorem, except
`OwnerEpochGrows`; some theorems have hypotheses, given in the tables. Liveness under fairness (`CallsDrain`,
`AckedPrinted`, `Settles`) is beyond the proof system and stays with TLC.
The theorems have no assumptions but the named ones on constants and the
hypotheses in the tables above. Each passing property has a mutant in
`PROJECT.json`: a plausible bug in the code under which TLC finds it violated.

## Not modelled

Of the database: `db_open` (creation of the files under a whole-file lock); its
result is the initial state. Of the spooler: the list of worker threads, and the
parsing of the printer's answer (`printer_status`), which is a choice between
"confirmed" and "not confirmed" in `Printd`. The list serves to cancel the
client threads at a stop, and `client_cleanup` finds the socket it has to close in
it; `add_worker` does not store the new entry in `workers` unless the list is
empty (printd.c:543-546), so that neither happens for every thread. Of the cluster bus: the
handshake, `CLUSTER FORGET` and `RESET`, resharding, replica migration, manual
failovers that wait for the master's offset, the ok/fail state of the cluster,
and `MIGRATE`. Formatting of headers, addresses and log messages has no bearing on
the properties. The remaining components and reasons are in `PROJECT.json`.
