--------------------------- MODULE PrintdPromises ---------------------------
(***************************************************************************)
(* The steps of the main and printer threads keep JobInv, the numbers that  *)
(* printd gives out are free, and with that the promises of printd to its   *)
(* clients: first for a daemon that is not stopped (Spec), where the numbers *)
(* may wrap around, then for one that is stopped and started again          *)
(* (StopSpec), where they must not.                                         *)
(***************************************************************************)
EXTENDS PrintdProofs, FiniteSetTheorems

\* Most leaves are first-order: Zenon first, the others go to the SMT solver.
USE ZenonT(3), SMT

-----------------------------------------------------------------------------
(* Steps of the main and printer threads.                                   *)

\* A step that changes neither files nor jobs.
LEMMA QuietKeeps ==
  ASSUME JobInv, DaemonInv', MainInv', HandInv',
         UNCHANGED <<data, ctl, scan, queue, th, live, ans, job, Over, cancelled, unread>>,
         ppc = "unlinkdata" => ppc' = "unlinkdata",
         main = "down" => main' = "down"
  PROVE  JobInv'
<1>1. /\ OwnFiles /\ QueueInv /\ HeldInv
      /\ \A d \in Client : ThreadInv(d) /\ AckInv(d)
      /\ \A k \in Jobs : SpoolInv(k)
  BY DEF JobInv
<1>2. OwnFiles' /\ QueueInv' /\ HeldInv'
  BY <1>1 DEF OwnFiles, HeldInv, QueueInv, NoDuplicateJob
<1>3. \A d \in Client : ThreadInv(d)' /\ AckInv(d)'
  BY <1>1 DEF ThreadInv, AckInv
<1>4. \A k \in Jobs : SpoolInv(k)'
  BY <1>1 DEF SpoolInv
<1> QED BY <1>2, <1>3, <1>4 DEF JobInv

LEMMA QuietSteps ==
  ASSUME JobInv, DaemonInv',
         \/ BuildSignal \/ BuildDone \/ Sighup \/ EditConfig \/ UNCHANGED vars
         \/ Wait \/ SpuriousWakeup \/ UpdateJobno \/ CheckReread \/ InitPrinter \/ OpenData
         \/ Contact \/ ContactFails \/ SendFails \/ StatusBad \/ Slept
         \/ \E o \in {"ok", "lost", "error"} : Send(o)
  PROVE  JobInv'
<1>1. MainInv /\ HandInv /\ QueueInv /\ DaemonInv /\ \A k \in Jobs : SpoolInv(k)
  BY DEF JobInv
<1>2. UNCHANGED <<data, ctl, scan, drop, queue, th, live, ans, job, Over, cancelled, unread>>
  BY DEF BuildSignal, BuildDone, Sighup, EditConfig, vars, Wait, SpuriousWakeup, UpdateJobno, CheckReread,
     InitPrinter, OpenData, Contact, ContactFails, SendFails, StatusBad, Slept, Send,
     disk, mem, client, prt, history, Over
<1>3. \/ main' = main
      \/ main = "signal" /\ main' = "build"
      \/ main = "build" /\ main' = "accept" /\ scan = {}
  BY DEF BuildSignal, BuildDone, Sighup, EditConfig, vars, Wait, SpuriousWakeup, UpdateJobno, CheckReread,
     InitPrinter, OpenData, Contact, ContactFails, SendFails, StatusBad, Slept, Send, mem
<1>4. MainInv'
  BY <1>1, <1>2, <1>3 DEF MainInv
<1>5. \/ ppc' = ppc
      \/ ppc' \notin {"connect", "send", "status", "unlinkdata", "unlinkctl"}
      \/ ppc \in {"connect", "send"} /\ ppc' \in {"send", "status"}
      \/ ppc = "open" /\ data[job.id] # None /\ ppc' = "connect"
  BY DEF BuildSignal, Signal, BuildDone, Sighup, EditConfig, vars, Wait, SpuriousWakeup, UpdateJobno,
     CheckReread, InitPrinter, OpenData, Contact, ContactFails, SendFails, StatusBad, Slept, Send, prt
<1>6. ppc = "unlinkdata" => ppc' = "unlinkdata"
  BY DEF BuildSignal, Signal, BuildDone, Sighup, EditConfig, vars, Wait, SpuriousWakeup, UpdateJobno,
     CheckReread, InitPrinter, OpenData, Contact, ContactFails, SendFails, StatusBad, Slept, Send, prt
<1>7. HandInv'
  <2>1. CASE ppc = "open" /\ data[job.id] # None /\ ppc' = "connect"
    <3>1. job \in JobType /\ job # NoJob
      BY <1>1, <2>1, RealJob DEF DaemonInv, PlaceInv, AtJob
    <3>2. job.id \in Jobs /\ ctl[job.id] = job.by /\ job.by \in Client
      BY <1>1, <3>1 DEF JobType, QueueInv
    <3>3. job.by \notin Over
      BY <1>1, <2>1, <3>2 DEF SpoolInv
    <3> QED BY <1>2, <2>1, <3>3 DEF HandInv
  <2>2. CASE ~(ppc = "open" /\ data[job.id] # None /\ ppc' = "connect")
    BY <1>1, <1>2, <1>5, <2>2 DEF HandInv
  <2> QED BY <2>1, <2>2
<1> QED BY <1>2, <1>3, <1>4, <1>6, <1>7, QuietKeeps

\* A step that leaves the threads, the files and the answers alone.
LEMMA ThreadsSame ==
  ASSUME \A d \in Client : ThreadInv(d) /\ AckInv(d), UNCHANGED <<th, data, ctl, live, ans, Over, unread>>
  PROVE  \A d \in Client : ThreadInv(d)' /\ AckInv(d)'
<1> SUFFICES ASSUME NEW d \in Client PROVE ThreadInv(d)' /\ AckInv(d)'
  OBVIOUS
<1>1. ThreadInv(d) /\ AckInv(d)
  OBVIOUS
<1>2. ThreadInv(d)'
  BY <1>1 DEF ThreadInv
<1>3. AckInv(d)'
  BY <1>1 DEF AckInv
<1> QED BY <1>2, <1>3

\* The printer thread has a job of the spool directory in hand.
LEMMA InHandFacts ==
  ASSUME JobInv, ppc \in AtJob
  PROVE  /\ job # NoJob /\ job.id \in Jobs /\ job.by \in Client
         /\ ctl[job.id] = job.by /\ th[job.by].pc \in {"signal", "done"}
         /\ job.id \notin scan
         /\ \A i \in 1 .. Len(queue) : queue[i].id # job.id
         /\ \A c \in Client : th[c].pc \in Numbered => th[c].id # job.id
<1>1. QueueInv /\ DaemonInv /\ \A c \in Client : ThreadInv(c)
  BY DEF JobInv
<1>2. job \in JobType /\ job # NoJob
  BY <1>1, RealJob DEF DaemonInv, PlaceInv
<1>3. job.id \in Jobs /\ job.by \in Client /\ ctl[job.id] = job.by /\ th[job.by].pc \in {"signal", "done"}
  BY <1>1, <1>2 DEF QueueInv, JobType
<1>4. job.id \notin scan /\ \A i \in 1 .. Len(queue) : queue[i].id # job.id
  BY <1>1 DEF QueueInv, NoDuplicateJob
<1>5. ASSUME NEW c \in Client, th[c].pc \in Numbered, th[c].id = job.id PROVE FALSE
  <2>1. ctl[job.id] \in {None, "empty"} \/ (ctl[job.id] = c /\ th[c].pc \in {"respond", "add"})
    BY <1>1, <1>5 DEF ThreadInv, Numbered
  <2> QED BY <1>3, <2>1, Values
<1> QED BY <1>2, <1>3, <1>4, <1>5

LEMMA ConfirmKeeps == JobInv /\ DaemonInv' /\ StatusOk => JobInv'
<1> SUFFICES ASSUME JobInv, DaemonInv', StatusOk PROVE JobInv'
  OBVIOUS
<1>1. /\ OwnFiles /\ QueueInv /\ MainInv /\ HandInv /\ HeldInv
      /\ \A d \in Client : ThreadInv(d) /\ AckInv(d)
      /\ \A k \in Jobs : SpoolInv(k)
  BY DEF JobInv
<1>2. /\ UNCHANGED <<data, ctl, main, scan, drop, queue, th, live, ans, job, cancelled, unread>>
      /\ ppc = "status" /\ ppc' = "unlinkdata" /\ Over' = Over \cup {job.by}
  BY DEF StatusOk, disk, mem, client, Over
<1>3. /\ job # NoJob /\ job.id \in Jobs /\ job.by \in Client /\ ctl[job.id] = job.by
      /\ th[job.by].pc \in {"signal", "done"}
  BY <1>2, InHandFacts DEF AtJob
<1>4. OwnFiles' /\ MainInv' /\ HeldInv' /\ QueueInv'
  BY <1>1, <1>2 DEF OwnFiles, MainInv, HeldInv, QueueInv, NoDuplicateJob
<1>5. HandInv'
  BY <1>1, <1>2 DEF HandInv
<1>6. \A d \in Client : ThreadInv(d)'
  BY <1>1, <1>2 DEF ThreadInv
<1>7. \A d \in Client : AckInv(d)'
  BY <1>1, <1>2, <1>3 DEF AckInv
<1>8. ASSUME NEW k \in Jobs PROVE SpoolInv(k)'
  <2>1. ctl[k] = job.by => k = job.id
    BY <1>1, <1>3 DEF OwnFiles
  <2> QED BY <1>1, <1>2, <2>1 DEF SpoolInv
<1> QED BY <1>4, <1>5, <1>6, <1>7, <1>8 DEF JobInv

\* Pick takes the first job off the list, replace_job puts it back.
LEMMA MoveKeepsJobs == JobInv /\ DaemonInv' /\ (Pick \/ ReplaceJob) => JobInv'
<1> SUFFICES ASSUME JobInv, DaemonInv', Pick \/ ReplaceJob PROVE JobInv'
  OBVIOUS
<1>1. /\ OwnFiles /\ QueueInv /\ MainInv /\ HandInv /\ HeldInv /\ DaemonInv
      /\ \A d \in Client : ThreadInv(d) /\ AckInv(d)
      /\ \A k \in Jobs : SpoolInv(k)
  BY DEF JobInv
<1>2. /\ UNCHANGED <<data, ctl, main, scan, drop, th, live, ans, Over, cancelled, unread>>
      /\ ppc # "unlinkdata" /\ ppc' \in {"jobno", "sleep"}
  BY DEF Pick, ReplaceJob, disk, client, history, Over
<1>3. main # "down"
  BY <1>1 DEF Pick, ReplaceJob, DaemonInv, PlaceInv
<1>4. OwnFiles' /\ MainInv' /\ HandInv'
  BY <1>1, <1>2, <1>3 DEF OwnFiles, MainInv, HandInv
<1>5. \A d \in Client : ThreadInv(d)' /\ AckInv(d)'
  BY <1>1, <1>2, ThreadsSame
<1>6. \A k \in Jobs : SpoolInv(k)'
  BY <1>1, <1>2 DEF SpoolInv
<1>7. queue \in Seq(JobType) /\ scan \subseteq Jobs /\ Len(queue) \in Nat /\ \A q \in JobType : q.id # 0
  BY <1>1, FileTypes, Bounds DEF JobType, Jobs
<1>8. QueueInv' /\ HeldInv'
  <2>1. CASE Pick
    <3>1. /\ job = NoJob /\ job' = queue[1] /\ job' \in JobType /\ Len(queue') = Len(queue) - 1
          /\ Len(queue) >= 1 /\ Len(queue') \in Nat
          /\ \A i \in 1 .. Len(queue') : queue'[i] = queue[i + 1]
      BY <1>1, <1>7, <2>1 DEF Pick, DaemonInv, PlaceInv, AtJob
    <3>2. \A i \in 1 .. Len(queue') : i + 1 \in 1 .. Len(queue) /\ i + 1 # 1
      BY <3>1
    <3>3. 1 \in 1 .. Len(queue)
      BY <3>1
    <3>4. NoDuplicateJob'
      <4>1. \A i, j \in 1 .. Len(queue') : queue'[i].id = queue'[j].id => i = j
        BY <1>1, <3>1, <3>2 DEF QueueInv, NoDuplicateJob
      <4>2. \A i \in 1 .. Len(queue') : queue'[i].id # job'.id
        BY <1>1, <3>1, <3>2, <3>3 DEF QueueInv, NoDuplicateJob
      <4> QED BY <4>1, <4>2 DEF NoDuplicateJob
    <3>5. QueueInv'
      <4>1. \A i \in 1 .. Len(queue') :
              ctl'[queue'[i].id] = queue'[i].by /\ th'[queue'[i].by].pc \in {"signal", "done"}
        BY <1>1, <1>2, <3>1, <3>2 DEF QueueInv
      <4>2. ctl'[job'.id] = job'.by /\ th'[job'.by].pc \in {"signal", "done"}
        BY <1>1, <1>2, <3>1, <3>3 DEF QueueInv
      <4>3. \A k \in scan' : /\ ctl'[k] # None /\ k # job'.id
                             /\ \A i \in 1 .. Len(queue') : queue'[i].id # k
        BY <1>1, <1>2, <3>1, <3>2, <3>3 DEF QueueInv
      <4> QED BY <3>4, <4>1, <4>2, <4>3 DEF QueueInv
    <3>6. HeldInv'
      <4> SUFFICES ASSUME NEW k \in Jobs, ctl[k] \in Client \ cancelled
                   PROVE  \/ k \in scan \/ job'.id = k \/ (\E i \in 1 .. Len(queue') : queue'[i].id = k)
                          \/ th[ctl[k]].pc \in {"respond", "add"}
        BY <1>2 DEF HeldInv
      <4>1. CASE \E i \in 1 .. Len(queue) : queue[i].id = k
        <5>1. PICK i \in 1 .. Len(queue) : queue[i].id = k
          BY <4>1
        <5>2. i = 1 \/ (i - 1 \in 1 .. Len(queue') /\ (i - 1) + 1 = i)
          BY <3>1
        <5> QED BY <3>1, <5>1, <5>2
      <4>2. CASE ~\E i \in 1 .. Len(queue) : queue[i].id = k
        <5>1. job.id # k
          BY <3>1, Bounds DEF NoJob, Jobs
        <5> QED BY <1>1, <1>3, <4>2, <5>1 DEF HeldInv
      <4> QED BY <4>1, <4>2
    <3> QED BY <3>5, <3>6
  <2>2. CASE ReplaceJob
    <3>1. job \in JobType /\ job # NoJob /\ job' = NoJob /\ queue' = <<job>> \o queue
      BY <1>1, <2>2, RealJob DEF ReplaceJob, DaemonInv, PlaceInv, AtJob
    <3>2. /\ Len(queue') = Len(queue) + 1 /\ queue'[1] = job
          /\ \A i \in 2 .. Len(queue') : queue'[i] = queue[i - 1] /\ i - 1 \in 1 .. Len(queue)
      BY <1>7, <3>1
    <3>3. \A i \in 1 .. Len(queue) : queue'[i + 1] = queue[i] /\ i + 1 \in 1 .. Len(queue')
      BY <1>7, <3>1
    <3>4. ASSUME NEW i \in 1 .. Len(queue') PROVE i = 1 \/ i \in 2 .. Len(queue')
      BY <1>7, <3>2
    <3>5. \A i \in 1 .. Len(queue') : queue'[i] \in JobType
      BY <1>7, <3>1, <3>2, <3>4
    <3>6. NoDuplicateJob'
      <4>1. \A i, j \in 1 .. Len(queue') : queue'[i].id = queue'[j].id => i = j
        <5>1. ASSUME NEW i \in 2 .. Len(queue') PROVE queue'[i].id # job.id
          BY <1>1, <3>2 DEF QueueInv, NoDuplicateJob
        <5>2. ASSUME NEW i \in 2 .. Len(queue'), NEW j \in 2 .. Len(queue'), queue'[i].id = queue'[j].id
              PROVE  i = j
          <6>1. /\ i - 1 \in 1 .. Len(queue) /\ j - 1 \in 1 .. Len(queue)
                /\ queue[i - 1].id = queue[j - 1].id
            BY <3>2, <5>2
          <6>2. i - 1 = j - 1
            BY <1>1, <6>1 DEF QueueInv, NoDuplicateJob
          <6> QED BY <6>2
        <5> QED BY <3>2, <3>4, <5>1, <5>2
      <4>2. \A i \in 1 .. Len(queue') : queue'[i].id # job'.id
        BY <1>7, <3>1, <3>5 DEF NoJob
      <4> QED BY <4>1, <4>2 DEF NoDuplicateJob
    <3>7. QueueInv'
      <4>1. \A i \in 1 .. Len(queue') :
              ctl'[queue'[i].id] = queue'[i].by /\ th'[queue'[i].by].pc \in {"signal", "done"}
        BY <1>1, <1>2, <3>1, <3>2, <3>4 DEF QueueInv
      <4>2. \A k \in scan' : /\ ctl'[k] # None /\ k # job'.id
                             /\ \A i \in 1 .. Len(queue') : queue'[i].id # k
        <5>1. \A k \in scan : k # 0
          BY <1>7, Bounds DEF Jobs
        <5> QED BY <1>1, <1>2, <3>1, <3>2, <3>4, <5>1 DEF QueueInv, NoJob
      <4> QED BY <3>1, <3>6, <4>1, <4>2 DEF QueueInv
    <3>8. HeldInv'
      <4> SUFFICES ASSUME NEW k \in Jobs, ctl[k] \in Client \ cancelled
                   PROVE  \/ k \in scan \/ (\E i \in 1 .. Len(queue') : queue'[i].id = k)
                          \/ th[ctl[k]].pc \in {"respond", "add"}
        BY <1>2 DEF HeldInv
      <4>1. \/ k \in scan \/ job.id = k \/ (\E i \in 1 .. Len(queue) : queue[i].id = k)
            \/ th[ctl[k]].pc \in {"respond", "add"}
        BY <1>1, <1>3 DEF HeldInv
      <4>2. 1 \in 1 .. Len(queue')
        BY <1>7, <3>2
      <4> QED BY <3>2, <3>3, <4>1, <4>2
    <3> QED BY <3>7, <3>8
  <2> QED BY <2>1, <2>2
<1> QED BY <1>4, <1>5, <1>6, <1>8 DEF JobInv

\* The data file cannot be opened: the job is given up for this daemon.
LEMMA GiveUpKeeps == JobInv /\ DaemonInv' /\ OpenFails => JobInv'
<1> SUFFICES ASSUME JobInv, DaemonInv', OpenFails PROVE JobInv'
  OBVIOUS
<1>1. /\ OwnFiles /\ QueueInv /\ MainInv /\ HandInv /\ HeldInv /\ DaemonInv
      /\ \A d \in Client : ThreadInv(d) /\ AckInv(d)
      /\ \A k \in Jobs : SpoolInv(k)
  BY DEF JobInv
<1>2. /\ UNCHANGED <<data, ctl, main, scan, drop, queue, th, live, ans, Over, unread>>
      /\ ppc = "open" /\ ppc' = "pick" /\ job' = NoJob /\ cancelled' = cancelled \cup {job.by}
  BY DEF OpenFails, disk, mem, client, Over
<1>3. job # NoJob /\ ctl[job.id] = job.by
  BY <1>2, InHandFacts DEF AtJob
<1>4. OwnFiles' /\ MainInv' /\ HandInv'
  BY <1>1, <1>2 DEF OwnFiles, MainInv, HandInv
<1>5. \A d \in Client : ThreadInv(d)' /\ AckInv(d)'
  BY <1>1, <1>2, ThreadsSame
<1>6. \A k \in Jobs : SpoolInv(k)'
  BY <1>1, <1>2 DEF SpoolInv
<1>7. QueueInv'
  <2>1. (\A i \in 1 .. Len(queue) : queue[i].id # 0) /\ \A k \in scan : k # 0
    <3>1. (\A i \in 1 .. Len(queue) : queue[i].id \in Jobs) /\ \A k \in scan : k \in Jobs
      BY <1>1, FileTypes
    <3> QED BY <3>1, Bounds DEF Jobs
  <2>2. NoJob.id = 0
    BY DEF NoJob
  <2>3. NoDuplicateJob'
    <3>1. NoDuplicateJob /\ queue' = queue /\ job' = NoJob
      BY <1>1, <1>2 DEF QueueInv
    <3> QED BY <2>1, <2>2, <3>1 DEF NoDuplicateJob
  <2> QED BY <1>1, <1>2, <2>1, <2>2, <2>3 DEF QueueInv
<1>8. HeldInv'
  BY <1>1, <1>2, <1>3 DEF HeldInv
<1> QED BY <1>4, <1>5, <1>6, <1>7, <1>8 DEF JobInv

\* The files of a confirmed job are removed, the data file first.
LEMMA RemoveDataKeepsJobs == JobInv /\ DaemonInv' /\ RemoveData => JobInv'
<1> SUFFICES ASSUME JobInv, DaemonInv', RemoveData PROVE JobInv'
  OBVIOUS
<1>1. /\ OwnFiles /\ QueueInv /\ MainInv /\ HandInv /\ HeldInv /\ DaemonInv
      /\ \A d \in Client : ThreadInv(d) /\ AckInv(d)
      /\ \A k \in Jobs : SpoolInv(k)
  BY DEF JobInv
<1>2. /\ UNCHANGED <<ctl, main, scan, drop, queue, live, ans, job, Over, cancelled, unread>>
      /\ ppc = "unlinkdata" /\ ppc' = "unlinkctl" /\ data' = [data EXCEPT ![job.id] = None]
  BY DEF RemoveData, mem, history, Over
<1>3. /\ job # NoJob /\ job.id \in Jobs /\ job.by \in Client /\ ctl[job.id] = job.by
      /\ \A c \in Client : th[c].pc \in Numbered => th[c].id # job.id
      /\ data[job.id] # None /\ job.by \in Over
  BY <1>1, <1>2, InHandFacts DEF AtJob, HandInv
<1>4. \A c \in Client : th'[c] = th[c]
  BY <1>3 DEF RemoveData, Unlinked, Numbered
<1>5. data'[job.id] = None /\ \A k \in Jobs : k # job.id => data'[k] = data[k]
  BY <1>1, <1>2, <1>3, FileTypes
<1>6. data[job.id].by = job.by
  BY <1>1, <1>3 DEF SpoolInv
<1>7. OwnFiles' /\ HandInv'
  BY <1>1, <1>2, <1>5 DEF OwnFiles, HandInv
<1>8. MainInv' /\ QueueInv' /\ HeldInv'
  <2>1. NoDuplicateJob'
    BY <1>1, <1>2 DEF QueueInv, NoDuplicateJob
  <2>2. (\A i \in 1 .. Len(queue) : queue[i].by \in Client) /\ (job # NoJob => job.by \in Client)
    BY <1>1, FileTypes
  <2>3. MainInv' /\ HeldInv'
    BY <1>1, <1>2, <1>4 DEF MainInv, HeldInv
  <2> QED BY <1>1, <1>2, <1>4, <2>1, <2>2, <2>3 DEF QueueInv
<1>9. ASSUME NEW d \in Client PROVE ThreadInv(d)'
  <2>1. ThreadInv(d) /\ th'[d] = th[d] /\ (th[d].pc \in Numbered => th[d].id \in Jobs)
    BY <1>1, <1>4, FileTypes
  <2>2. th[d].pc \in Numbered => data'[th[d].id] = data[th[d].id]
    BY <1>3, <1>5, <2>1
  <2>3. th[d].pc \in Numbered =>
          \A e \in Client : th'[e].pc \in Numbered /\ th'[e].id = th[d].id => e = d
    BY <1>4, <2>1 DEF ThreadInv
  <2> QED BY <1>2, <2>1, <2>2, <2>3, ThreadKept
<1>10. ASSUME NEW d \in Client PROVE AckInv(d)'
  <2>1. CASE d = job.by
    <3>1. \A k \in Jobs : data'[k] # None => data'[k].by # d
      BY <1>1, <1>3, <1>5, <1>6, <2>1 DEF OwnFiles
    <3> QED BY <1>1, <1>2, <1>3, <1>4, <2>1, <3>1 DEF AckInv
  <2>2. CASE d # job.by
    <3>1. AckInv(d) /\ th'[d] = th[d] /\ UNCHANGED <<ctl, ans, Over, unread>>
      BY <1>1, <1>2, <1>4
    <3>2. \A k \in Jobs : ctl[k] = d => data'[k] = data[k]
      BY <1>3, <1>5, <2>2
    <3>3. \A k \in Jobs : data'[k] # None => data'[k] = data[k]
      BY <1>5
    <3> QED BY <3>1, <3>2, <3>3 DEF AckInv
  <2> QED BY <2>1, <2>2
<1>11. ASSUME NEW k \in Jobs PROVE SpoolInv(k)'
  <2>1. SpoolInv(k) /\ (data[k] # None => data[k].by \in Client)
    BY <1>1, FileTypes
  <2>2. CASE k = job.id
    <3>1. ctl'[k] = job.by /\ data'[k] = None /\ job.by \in Over'
      BY <1>2, <1>3, <1>5, <2>2
    <3>2. th'[job.by].pc \in {"respond", "add", "signal", "done"}
      BY <1>3, <1>4, <2>1, <2>2 DEF SpoolInv
    <3> QED BY <3>1, <3>2 DEF SpoolInv
  <2>3. CASE k # job.id
    <3>1. data'[k] = data[k] /\ ctl'[k] = ctl[k] /\ ans' = ans /\ Over' = Over
      BY <1>2, <1>5, <2>3
    <3>2. data[k] # None => th'[data[k].by].pc \notin Early
      BY <1>4, <2>1 DEF SpoolInv
    <3>3. ctl[k] \in Client => /\ th'[ctl[k]].pc \in {"respond", "add", "signal", "done"}
                               /\ data[k] # None => ctl[k] \notin Over
      BY <1>2, <1>4, <2>1, <2>3 DEF SpoolInv
    <3> QED BY <2>1, <3>1, <3>2, <3>3 DEF SpoolInv
  <2> QED BY <2>2, <2>3
<1> QED BY <1>7, <1>8, <1>9, <1>10, <1>11 DEF JobInv

LEMMA RemoveCtlKeepsJobs == JobInv /\ DaemonInv' /\ RemoveCtl => JobInv'
<1> SUFFICES ASSUME JobInv, DaemonInv', RemoveCtl PROVE JobInv'
  OBVIOUS
<1>1. /\ OwnFiles /\ QueueInv /\ MainInv /\ HandInv /\ HeldInv /\ DaemonInv
      /\ \A d \in Client : ThreadInv(d) /\ AckInv(d)
      /\ \A k \in Jobs : SpoolInv(k)
  BY DEF JobInv
<1>2. /\ UNCHANGED <<data, main, scan, drop, queue, live, ans, Over, cancelled, unread>>
      /\ ppc = "unlinkctl" /\ ppc' = "pick" /\ job' = NoJob /\ ctl' = [ctl EXCEPT ![job.id] = None]
  BY DEF RemoveCtl, mem, Over
<1>3. /\ job # NoJob /\ job.id \in Jobs /\ job.by \in Client /\ ctl[job.id] = job.by
      /\ \A c \in Client : th[c].pc \in Numbered => th[c].id # job.id
      /\ job.id \notin scan /\ \A i \in 1 .. Len(queue) : queue[i].id # job.id
      /\ data[job.id] = None
  BY <1>1, <1>2, InHandFacts DEF AtJob, HandInv
<1>4. \A c \in Client : th'[c] = th[c]
  BY <1>3 DEF RemoveCtl, Unlinked, Numbered
<1>5. ctl'[job.id] = None /\ \A k \in Jobs : k # job.id => ctl'[k] = ctl[k]
  BY <1>1, <1>2, <1>3, FileTypes
<1>6. OwnFiles' /\ HandInv'
  BY <1>1, <1>2, <1>5, Values DEF OwnFiles, HandInv
<1>7. MainInv'
  BY <1>1, <1>2, <1>4, <1>5 DEF MainInv
<1>8. HeldInv'
  <2> SUFFICES ASSUME main # "down", NEW k \in Jobs, ctl'[k] \in Client \ cancelled
               PROVE  \/ k \in scan \/ (\E i \in 1 .. Len(queue) : queue[i].id = k)
                      \/ th'[ctl'[k]].pc \in {"respond", "add"}
    BY <1>2 DEF HeldInv
  <2>1. k # job.id /\ ctl'[k] = ctl[k]
    BY <1>5, Values
  <2>2. \/ k \in scan \/ (\E i \in 1 .. Len(queue) : queue[i].id = k)
        \/ th[ctl[k]].pc \in {"respond", "add"}
    BY <1>1, <2>1 DEF HeldInv
  <2> QED BY <1>4, <2>1, <2>2
<1>9. QueueInv'
  <2>1. /\ \A i \in 1 .. Len(queue) : queue[i].id # 0 /\ queue[i].id \in Jobs /\ queue[i].by \in Client
        /\ \A k \in scan : k # 0 /\ k \in Jobs
    <3>1. /\ \A i \in 1 .. Len(queue) : queue[i].id \in Jobs /\ queue[i].by \in Client
          /\ \A k \in scan : k \in Jobs
      BY <1>1, FileTypes
    <3>2. 0 \notin Jobs
      BY Bounds DEF Jobs
    <3> QED BY <3>1, <3>2
  <2>2. NoJob.id = 0
    BY DEF NoJob
  <2>3. NoDuplicateJob'
    <3>1. NoDuplicateJob /\ queue' = queue /\ job' = NoJob
      BY <1>1, <1>2 DEF QueueInv
    <3> QED BY <2>1, <2>2, <3>1 DEF NoDuplicateJob
  <2>4. \A i \in 1 .. Len(queue) : ctl'[queue[i].id] = queue[i].by /\ th'[queue[i].by].pc \in {"signal", "done"}
    BY <1>1, <1>3, <1>4, <1>5, <2>1 DEF QueueInv
  <2>5. \A k \in scan : ctl'[k] # None /\ k # 0 /\ \A i \in 1 .. Len(queue) : queue[i].id # k
    BY <1>1, <1>3, <1>5, <2>1 DEF QueueInv
  <2> QED BY <1>2, <2>2, <2>3, <2>4, <2>5 DEF QueueInv
<1>10. ASSUME NEW d \in Client PROVE ThreadInv(d)'
  <2>1. ThreadInv(d) /\ th'[d] = th[d] /\ (th[d].pc \in Numbered => th[d].id \in Jobs)
    BY <1>1, <1>4, FileTypes
  <2>2. th[d].pc \in Numbered => ctl'[th[d].id] = ctl[th[d].id]
    BY <1>3, <1>5, <2>1
  <2>3. th[d].pc \in Numbered =>
          \A e \in Client : th'[e].pc \in Numbered /\ th'[e].id = th[d].id => e = d
    BY <1>4, <2>1 DEF ThreadInv
  <2> QED BY <1>2, <2>1, <2>2, <2>3, ThreadKept
<1>11. ASSUME NEW d \in Client PROVE AckInv(d)'
  <2>1. AckInv(d) /\ th'[d] = th[d] /\ UNCHANGED <<data, ans, Over, unread>> /\ data[job.id] = None
    BY <1>1, <1>2, <1>3, <1>4
  <2>2. \A j \in Jobs : ctl[j] = d /\ data[j] # None => ctl'[j] = d
    BY <1>5, <2>1
  <2> QED BY <2>1, <2>2 DEF AckInv
<1>12. ASSUME NEW k \in Jobs PROVE SpoolInv(k)'
  <2>1. SpoolInv(k) /\ (data[k] # None => data[k].by \in Client)
    BY <1>1, FileTypes
  <2>2. CASE k = job.id
    BY <1>2, <1>3, <1>5, <2>2, Values DEF SpoolInv
  <2>3. CASE k # job.id
    <3>1. ctl'[k] = ctl[k] /\ data' = data /\ ans' = ans /\ Over' = Over /\ ppc # "unlinkdata"
      BY <1>2, <1>5, <2>3
    <3>2. /\ data[k] # None => th'[data[k].by].pc \notin Early
          /\ ctl[k] \in Client => th'[ctl[k]].pc \in {"respond", "add", "signal", "done"}
      BY <1>4, <2>1 DEF SpoolInv
    <3>3. ctl[k] \in Client /\ data[k] # None => ctl[k] \notin Over
      BY <2>1, <3>1 DEF SpoolInv
    <3> QED BY <2>1, <3>1, <3>2, <3>3 DEF SpoolInv
  <2> QED BY <2>2, <2>3
<1> QED BY <1>6, <1>7, <1>8, <1>9, <1>10, <1>11, <1>12 DEF JobInv

\* build_qonstart and the start of the daemon.
LEMMA BuildKeepsJobs == JobInv /\ DaemonInv' /\ (Start \/ MainStep) => JobInv'
<1> SUFFICES ASSUME JobInv, DaemonInv', Start \/ MainStep PROVE JobInv'
  OBVIOUS
<1>1. /\ OwnFiles /\ QueueInv /\ MainInv /\ HandInv /\ HeldInv /\ DaemonInv
      /\ \A d \in Client : ThreadInv(d) /\ AckInv(d)
      /\ \A k \in Jobs : SpoolInv(k)
  BY DEF JobInv
<1>2. /\ queue \in Seq(JobType) /\ scan \in SUBSET Jobs /\ ctl \in [Jobs -> Client \cup {"empty", None}]
      /\ \A i \in 1 .. Len(queue) : queue[i].id \in Jobs /\ queue[i].by \in Client
      /\ job # NoJob => job.id \in Jobs /\ job.by \in Client
      /\ data \in [Jobs -> Docs \cup {None}]
  BY <1>1, FileTypes
<1>3. CASE BuildSignal \/ BuildDone
  BY <1>3, QuietSteps
<1>4. CASE Start
  <2>1. /\ UNCHANGED <<data, ctl, queue, th, live, ans, job, Over, cancelled, unread>>
        /\ main = "down" /\ main' = "build" /\ ppc' = "pick" /\ scan' = {j \in Jobs : ctl[j] # None}
    BY <1>4 DEF Start, disk, client, history, Over
  <2>2. queue = <<>> /\ job = NoJob /\ ppc = "down"
    BY <1>1, <2>1 DEF MainInv, DaemonInv, PlaceInv, AtJob
  <2>3. QueueInv'
    <3>1. \A j \in Jobs : j # NoJob.id
      BY Bounds DEF Jobs, NoJob
    <3>2. NoDuplicateJob'
      BY <2>1, <2>2 DEF NoDuplicateJob
    <3>3. queue' = queue /\ job' = NoJob /\ 1 .. Len(queue) = {}
      BY <2>1, <2>2
    <3>4. \A k \in scan' : ctl'[k] # None /\ k # NoJob.id
      BY <2>1, <3>1
    <3> QED BY <3>2, <3>3, <3>4 DEF QueueInv
  <2>4. MainInv' /\ HandInv' /\ OwnFiles'
    BY <1>1, <2>1 DEF MainInv, HandInv, OwnFiles
  <2>5. HeldInv'
    BY <2>1, Values DEF HeldInv
  <2>6. (\A d \in Client : ThreadInv(d)' /\ AckInv(d)')
    BY <1>1, <2>1, ThreadsSame
  <2>7. \A k \in Jobs : SpoolInv(k)'
    BY <1>1, <2>1, <2>2 DEF SpoolInv
  <2> QED BY <2>3, <2>4, <2>5, <2>6, <2>7 DEF JobInv
<1>5. ASSUME NEW j \in Jobs, BuildSkip(j) PROVE JobInv'
  <2>1. /\ UNCHANGED <<data, ctl, main, drop, queue, th, live, ans, ppc, job, Over, unread>>
        /\ main = "build" /\ scan' = scan \ {j} /\ cancelled' = cancelled \cup ({ctl[j]} \cap Client)
    BY <1>5 DEF BuildSkip, disk, client, prt, Over
  <2>2. NoDuplicateJob'
    BY <1>1, <2>1 DEF QueueInv, NoDuplicateJob
  <2>3. QueueInv' /\ MainInv' /\ HandInv' /\ OwnFiles'
    BY <1>1, <2>1, <2>2 DEF QueueInv, MainInv, HandInv, OwnFiles
  <2>4. HeldInv'
    BY <1>1, <2>1 DEF HeldInv
  <2>5. (\A d \in Client : ThreadInv(d)' /\ AckInv(d)')
    BY <1>1, <2>1, ThreadsSame
  <2>6. \A k \in Jobs : SpoolInv(k)'
    BY <1>1, <2>1 DEF SpoolInv
  <2> QED BY <2>3, <2>4, <2>5, <2>6 DEF JobInv
<1>6. ASSUME NEW j \in Jobs, BuildAdd(j) PROVE JobInv'
  <2>1. /\ UNCHANGED <<data, ctl, drop, th, live, ans, ppc, job, Over, cancelled, unread>>
        /\ main = "build" /\ main' = "signal" /\ j \in scan /\ scan' = scan \ {j} /\ ctl[j] \in Client
    BY <1>6 DEF BuildAdd, disk, client, prt, Over
  <2>2. PICK q \in JobType : q.id = j /\ q.by = ctl[j] /\ queue' = Append(queue, q)
    <3>1. [id |-> j, by |-> ctl[j]] \in JobType
      BY <2>1 DEF JobType
    <3> QED BY <1>6, <3>1 DEF BuildAdd, Append1
  <2>3. /\ Len(queue') = Len(queue) + 1 /\ queue'[Len(queue) + 1] = q /\ Len(queue) \in Nat
        /\ \A i \in 1 .. Len(queue) : queue'[i] = queue[i]
    BY <1>2, <2>2
  <2>4. \A i \in 1 .. Len(queue') : i \in 1 .. Len(queue) \/ i = Len(queue) + 1
    BY <2>3
  <2>5. j # job.id /\ \A i \in 1 .. Len(queue) : queue[i].id # j
    BY <1>1, <2>1 DEF QueueInv
  <2>6. NoDuplicateJob'
    <3>1. \A i, k \in 1 .. Len(queue) : queue[i].id = queue[k].id => i = k
      BY <1>1 DEF QueueInv, NoDuplicateJob
    <3>2. \A i \in 1 .. Len(queue) : queue[i].id # job.id
      BY <1>1 DEF QueueInv, NoDuplicateJob
    <3>3. \A i, k \in 1 .. Len(queue') : queue'[i].id = queue'[k].id => i = k
      BY <2>2, <2>3, <2>4, <2>5, <3>1
    <3>4. \A i \in 1 .. Len(queue') : queue'[i].id # job'.id
      BY <2>1, <2>2, <2>3, <2>4, <2>5, <3>2
    <3> QED BY <3>3, <3>4 DEF NoDuplicateJob
  <2>7. QueueInv'
    <3>1. th[ctl[j]].pc \in {"signal", "done"}
      BY <1>1, <2>1 DEF MainInv, SpoolInv
    <3>2. \A i \in 1 .. Len(queue') :
            ctl'[queue'[i].id] = queue'[i].by /\ th'[queue'[i].by].pc \in {"signal", "done"}
      <4>1. ASSUME NEW i \in 1 .. Len(queue)
            PROVE  ctl'[queue'[i].id] = queue'[i].by /\ th'[queue'[i].by].pc \in {"signal", "done"}
        BY <1>1, <2>1, <2>3 DEF QueueInv
      <4> QED BY <2>1, <2>2, <2>3, <2>4, <3>1, <4>1
    <3>3. \A k \in scan' : ctl'[k] # None /\ k # job'.id /\ \A i \in 1 .. Len(queue') : queue'[i].id # k
      BY <1>1, <2>1, <2>2, <2>3, <2>4 DEF QueueInv
    <3> QED BY <1>1, <2>1, <2>6, <3>2, <3>3 DEF QueueInv
  <2>8. MainInv' /\ HandInv' /\ OwnFiles'
    BY <1>1, <2>1 DEF MainInv, HandInv, OwnFiles
  <2>9. HeldInv'
    <3> SUFFICES ASSUME NEW k \in Jobs, ctl[k] \in Client \ cancelled
                 PROVE  \/ k \in scan' \/ job.id = k \/ (\E i \in 1 .. Len(queue') : queue'[i].id = k)
                        \/ th[ctl[k]].pc \in {"respond", "add"}
      BY <2>1 DEF HeldInv
    <3>1. Len(queue) + 1 \in 1 .. Len(queue') /\ 1 .. Len(queue) \subseteq 1 .. Len(queue')
      BY <2>3
    <3>2. \/ k \in scan \/ job.id = k \/ (\E i \in 1 .. Len(queue) : queue[i].id = k)
          \/ th[ctl[k]].pc \in {"respond", "add"}
      BY <1>1, <2>1 DEF HeldInv
    <3> QED BY <2>1, <2>2, <2>3, <3>1, <3>2
  <2>10. (\A d \in Client : ThreadInv(d)' /\ AckInv(d)')
    BY <1>1, <2>1, ThreadsSame
  <2>11. \A k \in Jobs : SpoolInv(k)'
    BY <1>1, <2>1 DEF SpoolInv
  <2> QED BY <2>7, <2>8, <2>9, <2>10, <2>11 DEF JobInv
<1>7. ASSUME NEW j \in Jobs, BuildDrop(j) PROVE JobInv'
  <2>1. /\ UNCHANGED <<data, queue, th, live, ans, ppc, job, Over, cancelled>>
        /\ main = "build" /\ main' = "unlink" /\ drop' = j /\ j \in scan /\ scan' = scan \ {j}
        /\ ctl'[j] = None /\ \A k \in Jobs : k # j => ctl'[k] = ctl[k]
        /\ unread' = unread \cup ({ctl[j]} \cap Client)
    BY <1>2, <1>7 DEF BuildDrop, client, prt, Over
  <2>2. NoDuplicateJob'
    BY <1>1, <2>1 DEF QueueInv, NoDuplicateJob
  <2>3. QueueInv'
    <3>1. \A i \in 1 .. Len(queue) : queue[i].id # j
      BY <1>1, <2>1 DEF QueueInv
    <3>2. job.id # j
      BY <1>1, <2>1 DEF QueueInv
    <3>3. \A i \in 1 .. Len(queue) : ctl'[queue[i].id] = queue[i].by /\ th'[queue[i].by].pc \in {"signal", "done"}
      BY <1>1, <1>2, <2>1, <3>1 DEF QueueInv
    <3>4. job # NoJob => ctl'[job.id] = job.by /\ th'[job.by].pc \in {"signal", "done"}
      BY <1>1, <1>2, <2>1, <3>2 DEF QueueInv
    <3>5. \A k \in scan' : ctl'[k] # None /\ k # job.id /\ \A i \in 1 .. Len(queue) : queue[i].id # k
      <4>1. ASSUME NEW k \in scan'
            PROVE  ctl'[k] # None /\ k # job.id /\ \A i \in 1 .. Len(queue) : queue[i].id # k
        <5>1. k \in scan /\ k # j /\ k \in Jobs
          BY <1>2, <2>1
        <5>2. ctl[k] # None /\ k # job.id /\ \A i \in 1 .. Len(queue) : queue[i].id # k
          BY <1>1, <5>1 DEF QueueInv
        <5> QED BY <2>1, <5>1, <5>2
      <4> QED BY <4>1
    <3> QED BY <2>1, <2>2, <3>3, <3>4, <3>5 DEF QueueInv
  <2>4. MainInv' /\ HandInv'
    BY <1>1, <2>1 DEF MainInv, HandInv
  <2>5. OwnFiles'
    <3>1. \A k \in Jobs : ctl'[k] \in Client => ctl'[k] = ctl[k]
      BY <2>1, Values
    <3> QED BY <1>1, <2>1, <3>1, FewerFiles
  <2>6. HeldInv'
    BY <1>1, <2>1, Values DEF HeldInv
  <2>7. ASSUME NEW d \in Client PROVE ThreadInv(d)' /\ AckInv(d)'
    <3>1. th[d].pc \in {"new", "done"}
      BY <1>1, <2>1 DEF MainInv
    <3>2. ThreadInv(d)'
      BY <1>1, <2>1, <3>1 DEF ThreadInv, Numbered, Early
    <3>3. AckInv(d)'
      <4>1. CASE ctl[j] = d
        BY <1>1, <2>1, <4>1 DEF AckInv
      <4>2. CASE ctl[j] # d
        BY <1>1, <2>1, <4>2 DEF AckInv
      <4> QED BY <4>1, <4>2
    <3> QED BY <3>2, <3>3
  <2>8. ASSUME NEW k \in Jobs PROVE SpoolInv(k)'
    <3>1. SpoolInv(k)
      BY <1>1
    <3> QED BY <2>1, <3>1, Values DEF SpoolInv
  <2> QED BY <2>3, <2>4, <2>5, <2>6, <2>7, <2>8 DEF JobInv
<1>8. CASE BuildUnlink
  <2>1. /\ UNCHANGED <<ctl, scan, queue, th, live, ans, ppc, job, Over, cancelled, unread>>
        /\ main = "unlink" /\ main' = "build" /\ drop \in Jobs /\ ctl[drop] = None
        /\ data'[drop] = None /\ \A k \in Jobs : k # drop => data'[k] = data[k]
    BY <1>1, <1>2, <1>8 DEF BuildUnlink, MainInv, client, prt, history, Over
  <2>2. NoDuplicateJob'
    BY <1>1, <2>1 DEF QueueInv, NoDuplicateJob
  <2>3. QueueInv' /\ MainInv' /\ HeldInv'
    <3>1. QueueInv'
      BY <1>1, <2>1, <2>2 DEF QueueInv
    <3>2. MainInv'
      BY <1>1, <2>1 DEF MainInv
    <3>3. HeldInv'
      BY <1>1, <2>1 DEF HeldInv
    <3> QED BY <3>1, <3>2, <3>3
  <2>4. HandInv'
    <3>1. ppc \in AtJob => job.id \in Jobs /\ job.id # drop
      BY <2>1, InHandFacts, Values
    <3> QED BY <1>1, <2>1, <3>1 DEF HandInv, AtJob
  <2>5. OwnFiles'
    BY <1>1, <2>1 DEF OwnFiles
  <2>6. ASSUME NEW d \in Client PROVE ThreadInv(d)' /\ AckInv(d)'
    <3>1. th[d].pc \in {"new", "done"}
      BY <1>1, <2>1 DEF MainInv
    <3>2. ThreadInv(d)'
      BY <1>1, <2>1, <3>1 DEF ThreadInv, Numbered, Early
    <3>3. AckInv(d)'
      BY <1>1, <2>1, Values DEF AckInv
    <3> QED BY <3>2, <3>3
  <2>7. ASSUME NEW k \in Jobs PROVE SpoolInv(k)'
    <3>1. SpoolInv(k)
      BY <1>1
    <3> QED BY <2>1, <3>1, Values DEF SpoolInv
  <2> QED BY <2>3, <2>4, <2>5, <2>6, <2>7 DEF JobInv
<1> QED BY <1>3, <1>4, <1>5, <1>6, <1>7, <1>8 DEF MainStep

\* The end of the daemon: what is on the disk is all there is.
LEMMA DownKeepsJobs == JobInv /\ DaemonInv' /\ (Stop \/ InitPrinterFails) => JobInv'
<1> SUFFICES ASSUME JobInv, DaemonInv', Stop \/ InitPrinterFails PROVE JobInv'
  OBVIOUS
<1>1. /\ OwnFiles /\ DaemonInv /\ HandInv
      /\ \A d \in Client : ThreadInv(d) /\ AckInv(d)
      /\ \A k \in Jobs : SpoolInv(k)
  BY DEF JobInv
<1>2. /\ UNCHANGED <<data, ctl, unread>> /\ main' = "down" /\ queue' = <<>> /\ scan' = {} /\ ppc' = "down"
      /\ job' = NoJob
      /\ Over' = IF ppc = "unlinkdata" THEN Over \ {job.by} ELSE Over
  BY DEF Stop, InitPrinterFails, Down, disk, Over
<1>3. ASSUME NEW d \in Client
      PROVE  /\ th'[d].pc \in {"new", "done"} /\ (th'[d].pc = "new" <=> th[d].pc = "new")
             /\ th'[d].n = th[d].n \/ th'[d].pc = "done"
             /\ ans'[d] = "ok" => ans[d] = "ok"
  <2>1. th'[d] = IF th[d].pc = "new" THEN th[d] ELSE [NewThread EXCEPT !.pc = "done"]
    BY DEF Stop, InitPrinterFails, Down
  <2>2. [NewThread EXCEPT !.pc = "done"].pc = "done"
    BY DEF NewThread
  <2>3. ans'[d] = IF th[d].pc # "new" /\ ans[d] = None THEN "lost" ELSE ans[d]
    BY DEF Stop, InitPrinterFails, Down
  <2> QED BY <2>1, <2>2, <2>3
<1>4. \A k \in Jobs : data[k] # None => data[k].by \in Client
  BY <1>1, FileTypes
<1>10. ppc = "unlinkdata" => /\ job.id \in Jobs /\ job.by \in Client /\ ctl[job.id] = job.by
                             /\ data[job.id] # None /\ data[job.id].by = job.by
  <2> SUFFICES ASSUME ppc = "unlinkdata"
               PROVE  /\ job.id \in Jobs /\ job.by \in Client /\ ctl[job.id] = job.by
                      /\ data[job.id] # None /\ data[job.id].by = job.by
    OBVIOUS
  <2>1. job.id \in Jobs /\ job.by \in Client /\ ctl[job.id] = job.by
    BY InHandFacts DEF AtJob
  <2>2. data[job.id] # None
    BY <1>1 DEF HandInv
  <2> QED BY <1>1, <2>1, <2>2 DEF SpoolInv
<1>5. OwnFiles' /\ HandInv' /\ MainInv' /\ HeldInv'
  BY <1>1, <1>2, <1>3 DEF OwnFiles, HandInv, MainInv, HeldInv
<1>6. QueueInv'
  <2>1. 1 .. Len(queue') = {}
    BY <1>2
  <2>2. NoDuplicateJob'
    BY <2>1 DEF NoDuplicateJob
  <2> QED BY <1>2, <2>1, <2>2 DEF QueueInv
<1>7. ASSUME NEW d \in Client PROVE ThreadInv(d)'
  <2>1. ThreadInv(d)
    BY <1>1
  <2> QED BY <1>3, <2>1 DEF ThreadInv, Numbered, Early
<1>8. ASSUME NEW d \in Client PROVE AckInv(d)'
  <2>1. AckInv(d)
    BY <1>1
  <2>2. d \in Over' => th'[d].pc \in {"signal", "done"}
    BY <1>2, <1>3, <2>1 DEF AckInv
  <2>3. ans'[d] = "ok" => th'[d].pc \in {"add", "signal", "done"}
    BY <1>3, <2>1 DEF AckInv
  <2>4. d \in Over /\ (\A j \in Jobs : data[j] # None => data[j].by # d) => d \in Over'
    BY <1>2, <1>10
  <2> QED BY <1>2, <1>3, <2>1, <2>2, <2>3, <2>4 DEF AckInv
<1>9. ASSUME NEW k \in Jobs PROVE SpoolInv(k)'
  <2>1. SpoolInv(k)
    BY <1>1
  <2>2. data[k] # None => th'[data[k].by].pc \notin Early
    BY <1>3, <1>4, <2>1 DEF SpoolInv, Early
  <2>3. ASSUME ctl[k] \in Client
        PROVE  /\ th'[ctl[k]].pc = "done"
               /\ data[k] = None => ctl[k] \in Over'
               /\ data[k] # None => ctl[k] \notin Over'
               /\ ans'[ctl[k]] = "ok" => ans[ctl[k]] = "ok"
    <3>1. th[ctl[k]].pc \in {"respond", "add", "signal", "done"}
      BY <2>1, <2>3 DEF SpoolInv
    <3>2. th'[ctl[k]].pc = "done" /\ (ans'[ctl[k]] = "ok" => ans[ctl[k]] = "ok")
      BY <1>3, <2>3, <3>1
    <3>3. data[k] = None => ctl[k] \in Over'
      <4>1. ppc = "unlinkdata" /\ ctl[k] = job.by => k = job.id
        BY <1>1, <1>10, <2>3 DEF OwnFiles
      <4> QED BY <1>2, <1>10, <2>1, <2>3, <4>1 DEF SpoolInv
    <3>4. data[k] # None => ctl[k] \notin Over'
      BY <1>2, <1>10, <2>1, <2>3 DEF SpoolInv
    <3> QED BY <3>2, <3>3, <3>4
  <2> QED BY <1>2, <2>1, <2>2, <2>3 DEF SpoolInv
<1> QED BY <1>5, <1>6, <1>7, <1>8, <1>9 DEF JobInv

\* JobInv is kept by every step that gives out free numbers, with and without stops.
LEMMA NextJobInv == JobInv /\ GivesFree /\ [KillNext]_vars => JobInv'
<1> SUFFICES ASSUME JobInv, GivesFree, [KillNext]_vars PROVE JobInv'
  OBVIOUS
<1>1. DaemonInv'
  BY NextDaemonInv DEF JobInv
<1>2. CASE \E c \in Client : Accept(c) \/ ClientStep(c) \/ ClientFails(c) \/ ClientDies(c)
  BY <1>1, <1>2, EntryKeeps, FilingKeeps, RespondKeeps, ListKeeps, DeathKeeps DEF ClientStep, ClientFails
<1>3. CASE PrinterStep \/ SpuriousWakeup \/ ContactFails \/ SendFails
  BY <1>1, <1>3, QuietSteps, ConfirmKeeps, MoveKeepsJobs, GiveUpKeeps, RemoveDataKeepsJobs,
     RemoveCtlKeepsJobs DEF PrinterStep
<1>4. CASE Start \/ MainStep \/ Sighup \/ EditConfig \/ UNCHANGED vars
  BY <1>1, <1>4, QuietSteps, BuildKeepsJobs
<1>5. CASE Stop \/ InitPrinterFails
  BY <1>1, <1>5, DownKeepsJobs
<1> QED BY <1>2, <1>3, <1>4, <1>5 DEF KillNext, Next

-----------------------------------------------------------------------------
(* What JobInv means for the clients.                                       *)

LEMMA JobInvKeeps == JobInv /\ "stall" \notin Faults => AckedKept
<1> SUFFICES ASSUME JobInv, "stall" \notin Faults, NEW c \in Client, ans[c] = "ok",
                    c \notin confirmed \cup unread
             PROVE  \E j \in Jobs : ctl[j] = c /\ data[j] = Whole(c)
  BY DEF AckedKept
<1>1. AckInv(c) /\ \A j \in Jobs : SpoolInv(j)
  BY DEF JobInv
<1>2. PICK j \in Jobs : ctl[j] = c /\ data[j] # None
  BY <1>1 DEF AckInv, Over
<1>3. data[j] = Whole(c)
  BY <1>1, <1>2 DEF SpoolInv
<1> QED BY <1>2, <1>3

LEMMA JobInvQueued == JobInv => AckedQueued
<1> SUFFICES ASSUME JobInv, main = "accept", NEW c \in Client, ans[c] = "ok",
                    c \notin confirmed \cup cancelled \cup unread
             PROVE  InHand(c)
  BY DEF AckedQueued
<1>1. AckInv(c) /\ QueueInv /\ MainInv /\ HeldInv
  BY DEF JobInv
<1>2. PICK j \in Jobs : ctl[j] = c
  BY <1>1 DEF AckInv, Over
<1>3. \/ job.id = j \/ (\E i \in 1 .. Len(queue) : queue[i].id = j)
      \/ th[c].pc \in {"respond", "add"}
  BY <1>1, <1>2 DEF HeldInv, MainInv
<1>4. th[c].pc # "respond"
  BY <1>1 DEF AckInv
<1>5. CASE job.id = j
  <2>1. job # NoJob
    BY <1>5, Bounds DEF NoJob, Jobs
  <2> QED BY <1>1, <1>2, <1>5, <2>1 DEF QueueInv, InHand
<1>6. CASE \E i \in 1 .. Len(queue) : queue[i].id = j
  BY <1>1, <1>2, <1>6 DEF QueueInv, InHand
<1> QED BY <1>3, <1>4, <1>5, <1>6 DEF InHand

LEMMA JobInvReprint ==
  JobInv /\ [KillNext]_vars => [\A c \in Client : printed'[c] # printed[c] => c \notin Over]_vars
<1> SUFFICES ASSUME JobInv, KillNext, NEW c \in Client, printed'[c] # printed[c]
             PROVE  c \notin Over
  OBVIOUS
<1>1. PICK o \in {"ok", "lost", "error"} : Send(o)
  <2>1. ~(Start \/ MainStep \/ Sighup \/ EditConfig)
    BY DEF Start, MainStep, BuildSignal, BuildUnlink, BuildDone, BuildAdd, BuildSkip, BuildDrop, Sighup,
       EditConfig, history
  <2>2. \A d \in Client : ~(Accept(d) \/ ClientStep(d) \/ ClientFails(d) \/ ClientDies(d))
    BY DEF Accept, ClientStep, ReadHeader, GetNewjobno, WrapJobno, CreatData, ReadData, EndOfData, CreatCtl,
       WriteCtl, UnlinkCtl, UnlinkData, Respond, AddJob, SignalJob, ClientFails, HeaderFails,
       CreatDataFails, WriteDataFails, CreatCtlFails, WriteCtlFails, ClientDies, history
  <2>3. ~(SpuriousWakeup \/ ContactFails \/ SendFails \/ Stop \/ InitPrinterFails)
    BY DEF SpuriousWakeup, ContactFails, SendFails, Stop, InitPrinterFails, Down, history
  <2>4. PrinterStep
    BY <2>1, <2>2, <2>3 DEF KillNext, Next
  <2> QED BY <2>4 DEF PrinterStep, Wait, Pick, UpdateJobno, CheckReread, InitPrinter, OpenData, OpenFails,
            Contact, StatusOk, StatusBad, RemoveData, RemoveCtl, ReplaceJob, Slept, history
<1>2. /\ ppc = "send" /\ DaemonInv /\ HandInv /\ SpoolInv(job.id)
      /\ job.id \in Jobs /\ job.by \in Client /\ ctl[job.id] = job.by
  BY <1>1, InHandFacts DEF Send, AtJob, JobInv
<1>3. data[job.id] # None /\ job.by \notin Over /\ Doc.by = job.by
  BY <1>2 DEF HandInv, SpoolInv, Doc
<1>4. printed \in [Client -> 0 .. MaxPrint]
  BY <1>2, TypeParts DEF DaemonInv, HistoryType
<1>5. c = job.by
  BY <1>1, <1>2, <1>3, <1>4 DEF Send
<1> QED BY <1>3, <1>5

-----------------------------------------------------------------------------
(* The numbers given out by the client threads, and the promises.           *)

-----------------------------------------------------------------------------
(* What the steps of Next do to numbers and control files.                  *)

\* The places of a print command that has no number yet.
Entry == {"new", "header", "jobno"}

\* Steps that neither start the daemon nor touch nextjob or the job file.
Other ==
  /\ Next \/ UNCHANGED vars
  /\ ~Start /\ ~UpdateJobno /\ \A c \in Client : ~GetNewjobno(c) /\ ~WrapJobno(c)

LEMMA OtherThread ==
  ASSUME DaemonInv, NEW c \in Client, Accept(c) \/ ClientStep(c) \/ ClientFails(c) \/ ClientDies(c),
         ~GetNewjobno(c), ~WrapJobno(c)
  PROVE  /\ UNCHANGED <<nextjob, jobfile, main>>
         /\ \A d \in Client : /\ th'[d].id = th[d].id
                              /\ th'[d].pc \in Entry => th[d].pc \in Entry
                              /\ th'[d].pc \in Numbered => th[d].pc \in Numbered
                              /\ th'[d].pc = "wrap" => th[d].pc = "wrap"
         /\ \A j \in Jobs : ctl'[j] # None =>
              ctl[j] # None \/ \E d \in Client : th[d].pc \in Numbered /\ th[d].id = j
<1>1. /\ th \in ThType /\ ctl \in [Jobs -> Client \cup {"empty", None}]
      /\ \A d \in Client : th[d].pc \in Numbered => th[d].id \in Jobs
  BY FileTypes
<1>2. UNCHANGED <<nextjob, jobfile, main>>
  BY DEF Accept, ClientStep, ReadHeader, CreatData, ReadData, EndOfData, CreatCtl, WriteCtl, UnlinkCtl,
     UnlinkData, Respond, AddJob, SignalJob, ClientFails, HeaderFails, CreatDataFails, WriteDataFails,
     CreatCtlFails, WriteCtlFails, ClientDies, disk, mem
<1>3. CASE ctl' = ctl /\ (th' = th \/ \E pc \in Labels :
             /\ Go(c, pc) /\ pc # "wrap"
             /\ pc \in Entry => th[c].pc \in Entry
             /\ pc \in Numbered => th[c].pc \in Numbered)
  BY <1>1, <1>2, <1>3, GoTyped
<1>4. CASE Accept(c) \/ ReadHeader(c) \/ EndOfData(c) \/ UnlinkData(c) \/ Respond(c) \/ AddJob(c)
           \/ SignalJob(c) \/ ClientFails(c) \/ ClientDies(c)
  <2>1. ctl' = ctl
    BY <1>4 DEF Accept, ReadHeader, EndOfData, UnlinkData, Respond, AddJob, SignalJob, ClientFails,
       HeaderFails, CreatDataFails, WriteDataFails, CreatCtlFails, WriteCtlFails, ClientDies, disk
  <2>2. CASE ClientDies(c)
    BY <1>3, <2>1, <2>2 DEF ClientDies
  <2>3. CASE ~ClientDies(c)
    BY <1>3, <1>4, <2>1, <2>3 DEF Accept, ReadHeader, EndOfData, UnlinkData, Respond, AddJob, SignalJob,
       ClientFails, HeaderFails, CreatDataFails, WriteDataFails, CreatCtlFails, WriteCtlFails, Go, Labels,
       Entry, Numbered
  <2> QED BY <2>2, <2>3
<1>5. CASE CreatData(c) \/ ReadData(c)
  BY <1>1, <1>2, <1>5 DEF CreatData, ReadData, ThType, Entry, Numbered
<1>6. CASE CreatCtl(c) \/ WriteCtl(c) \/ UnlinkCtl(c)
  <2>1. \A d \in Client : /\ th'[d].id = th[d].id
                          /\ th'[d].pc \in Entry => th[d].pc \in Entry
                          /\ th'[d].pc \in Numbered => th[d].pc \in Numbered
                          /\ th'[d].pc = "wrap" => th[d].pc = "wrap"
    BY <1>1, <1>6 DEF CreatCtl, WriteCtl, UnlinkCtl, Go, ThType, Entry, Numbered
  <2>2. th[c].pc \in Numbered
    BY <1>6 DEF CreatCtl, WriteCtl, UnlinkCtl, Numbered
  <2>3. \A j \in Jobs : j # th[c].id => ctl'[j] = ctl[j]
    BY <1>1, <1>6 DEF CreatCtl, WriteCtl, UnlinkCtl
  <2> QED BY <1>2, <2>1, <2>2, <2>3
<1> QED BY <1>4, <1>5, <1>6 DEF ClientStep

LEMMA OtherSteps ==
  ASSUME DaemonInv, Other
  PROVE  /\ UNCHANGED <<nextjob, jobfile>> /\ (main' = "down" <=> main = "down")
         /\ \A d \in Client : /\ th'[d].id = th[d].id
                              /\ th'[d].pc \in Entry => th[d].pc \in Entry
                              /\ th'[d].pc \in Numbered => th[d].pc \in Numbered
                              /\ th'[d].pc = "wrap" => th[d].pc = "wrap"
         /\ \A j \in Jobs : ctl'[j] # None =>
              ctl[j] # None \/ \E d \in Client : th[d].pc \in Numbered /\ th[d].id = j
<1>1. CASE \E c \in Client : Accept(c) \/ ClientStep(c) \/ ClientFails(c) \/ ClientDies(c)
  BY <1>1, OtherThread DEF Other
<1>2. th \in ThType /\ ctl \in [Jobs -> Client \cup {"empty", None}]
  BY FileTypes
<1>3. CASE MainStep
  <2>1. UNCHANGED <<nextjob, jobfile, th>> /\ main # "down" /\ main' # "down"
    BY <1>3 DEF MainStep, BuildSignal, BuildUnlink, BuildDone, BuildAdd, BuildSkip, BuildDrop, disk, client
  <2>2. \A j \in Jobs : ctl'[j] # None => ctl[j] # None
    BY <1>2, <1>3 DEF MainStep, BuildSignal, BuildUnlink, BuildDone, BuildAdd, BuildSkip, BuildDrop, disk
  <2> QED BY <2>1, <2>2
<1>4. CASE RemoveData \/ RemoveCtl
  <2>1. UNCHANGED <<nextjob, jobfile, main>>
    BY <1>4 DEF RemoveData, RemoveCtl, mem
  <2>2. \A d \in Client : th'[d].id = th[d].id /\ th'[d].pc = th[d].pc
    <3>1. PICK pc \in {"data", "writectl"} : Unlinked(job.id, pc)
      BY <1>4 DEF RemoveData, RemoveCtl
    <3> SUFFICES ASSUME NEW d \in Client PROVE th'[d].id = th[d].id /\ th'[d].pc = th[d].pc
      OBVIOUS
    <3>2. th'[d] = IF th[d].id = job.id /\ th[d].pc = pc THEN [th[d] EXCEPT !.linked = FALSE] ELSE th[d]
      BY <3>1 DEF Unlinked
    <3>3. th[d] \in [pc : Labels, id : 0 .. MaxJob, n : Nat, linked : BOOLEAN]
      BY <1>2 DEF ThType
    <3> QED BY <3>2, <3>3
  <2>3. \A j \in Jobs : ctl'[j] # None => ctl[j] # None
    BY <1>2, <1>4 DEF RemoveData, RemoveCtl
  <2> QED BY <2>1, <2>2, <2>3
<1>5. CASE \/ Sighup \/ EditConfig \/ UNCHANGED vars
           \/ Wait \/ Pick \/ SpuriousWakeup \/ CheckReread \/ InitPrinter \/ OpenData \/ OpenFails
           \/ Contact \/ ContactFails \/ SendFails \/ StatusOk \/ StatusBad \/ ReplaceJob \/ Slept
           \/ \E o \in {"ok", "lost", "error"} : Send(o)
  <2>1. UNCHANGED <<nextjob, jobfile, main, th, ctl>>
    BY <1>5 DEF Sighup, EditConfig, vars, Wait, Pick, SpuriousWakeup, CheckReread, InitPrinter, OpenData,
       OpenFails, Contact, ContactFails, SendFails, StatusOk, StatusBad, ReplaceJob, Slept, Send,
       disk, mem, client
  <2> QED BY <2>1
<1> QED BY <1>1, <1>3, <1>4, <1>5 DEF Other, Next, PrinterStep

-----------------------------------------------------------------------------
(* Without restarts.                                                        *)

Given == {c \in Client : th[c].id # 0}

\* How many numbers have been given out since i was, if i is in use.
Age(i) == IF i < nextjob THEN nextjob - i ELSE nextjob + MaxJob - i

\* The numbers in use are the last ones given out, each to a client of its own.
AgeInv ==
  /\ \A c \in Client : th[c].pc \in Entry => th[c].id = 0
  /\ main = "down" => Given = {}
  /\ \A c \in Given : Age(th[c].id) \in 1 .. Cardinality(Given)
  /\ \A j \in Jobs : ctl[j] # None => \E c \in Given : th[c].id = j
  /\ \A c \in Client : th[c].pc = "wrap" =>
       nextjob = MaxJob + 1 /\ \A d \in Client : th[d].pc = "wrap" => d = c

LEMMA GivenFinite ==
  /\ IsFiniteSet(Client) /\ Cardinality(Client) \in Nat /\ Cardinality(Client) <= MaxJob
  /\ IsFiniteSet(Given) /\ Cardinality(Given) \in Nat
  /\ \A c \in Client \ Given : Cardinality(Given) < Cardinality(Client)
<1>1. IsFiniteSet(Client) /\ Cardinality(Client) <= MaxJob
  BY PrintdConstants
<1>2. Given \in SUBSET Client
  BY DEF Given
<1>3. /\ IsFiniteSet(Given) /\ Cardinality(Given) <= Cardinality(Client)
      /\ Cardinality(Client) = Cardinality(Given) => Client = Given
  BY <1>1, <1>2, FS_Subset
<1>4. Cardinality(Given) \in Nat /\ Cardinality(Client) \in Nat
  BY <1>1, <1>3, FS_CardinalityType
<1> QED BY <1>1, <1>3, <1>4

LEMMA NumberRange ==
  ASSUME DaemonInv
  PROVE  /\ th \in ThType /\ nextjob \in 1 .. MaxJob + 1 /\ jobfile \in Nat
         /\ \A c \in Client : th[c].id \in 0 .. MaxJob
         /\ main # "down" /\ JobsUnlocked => nextjob \in 1 .. MaxJob
         /\ \A c \in Client : th[c].pc \notin {"new", "done"} => main # "down"
<1>1. th \in ThType /\ nextjob \in 1 .. MaxJob + 1 /\ jobfile \in Nat
  BY TypeParts DEF DaemonInv, DiskType, MainType, ClientType
<1>2. main # "down" /\ JobsUnlocked => nextjob \in 1 .. MaxJob
  BY <1>1, Bounds DEF DaemonInv, PlaceInv
<1> QED BY <1>1, <1>2 DEF ThType, DaemonInv, PlaceInv

LEMMA InitAge == Init => AgeInv
<1> SUFFICES ASSUME Init PROVE AgeInv
  OBVIOUS
<1>1. Given = {}
  BY DEF Init, Given, NewThread
<1> QED BY <1>1 DEF Init, AgeInv, NewThread

LEMMA AgeFree == DaemonInv /\ AgeInv => GivesFree
<1> SUFFICES ASSUME DaemonInv, AgeInv, NEW c \in Client, GetNewjobno(c) PROVE Free(nextjob)
  BY DEF GivesFree
<1>1. c \in Client \ Given /\ th[c].pc = "jobno" /\ JobsUnlocked
  BY DEF AgeInv, GetNewjobno, Given, Entry
<1>2. nextjob \in 1 .. MaxJob /\ MaxJob \in Nat
  BY <1>1, NumberRange, Bounds
<1>3. Cardinality(Given) < MaxJob /\ Cardinality(Given) \in Nat
  BY <1>1, <1>2, GivenFinite
<1>4. \A d \in Given : th[d].id # nextjob
  <2> SUFFICES ASSUME NEW d \in Given, th[d].id = nextjob PROVE FALSE
    OBVIOUS
  <2>1. Age(nextjob) = MaxJob
    BY <1>2 DEF Age
  <2>2. Age(nextjob) \in 1 .. Cardinality(Given)
    BY DEF AgeInv
  <2> QED BY <1>2, <1>3, <2>1, <2>2
<1>5. \A d \in Client : th[d].pc \in Numbered => d \in Given
  BY FileTypes DEF Given, Jobs
<1>6. ctl[nextjob] = None
  BY <1>2, <1>4 DEF AgeInv, Jobs
<1> QED BY <1>4, <1>5, <1>6 DEF Free

LEMMA AgeOther == DaemonInv /\ AgeInv /\ Other => AgeInv'
<1> SUFFICES ASSUME DaemonInv, AgeInv, Other PROVE AgeInv'
  OBVIOUS
<1>1. /\ UNCHANGED nextjob /\ (main' = "down" <=> main = "down")
      /\ \A d \in Client : /\ th'[d].id = th[d].id
                           /\ th'[d].pc \in Entry => th[d].pc \in Entry
                           /\ th'[d].pc = "wrap" => th[d].pc = "wrap"
      /\ \A j \in Jobs : ctl'[j] # None =>
           ctl[j] # None \/ \E d \in Client : th[d].pc \in Numbered /\ th[d].id = j
  BY OtherSteps
<1>2. Given' = Given
  BY <1>1 DEF Given
<1>3. \A d \in Client : th[d].pc \in Numbered => d \in Given
  BY FileTypes DEF Given, Jobs
<1>4. \A d \in Given : d \in Client
  BY DEF Given
<1>5. \A j \in Jobs : ctl'[j] # None => \E d \in Given : th'[d].id = j
  BY <1>1, <1>3, <1>4 DEF AgeInv
<1>6. \A d \in Given : Age(th[d].id)' \in 1 .. Cardinality(Given)
  BY <1>1, <1>4 DEF AgeInv, Age
<1>7. \A d \in Client : th'[d].pc = "wrap" =>
        nextjob' = MaxJob + 1 /\ \A e \in Client : th'[e].pc = "wrap" => e = d
  BY <1>1 DEF AgeInv
<1> QED BY <1>1, <1>2, <1>5, <1>6, <1>7 DEF AgeInv

LEMMA AgeStart == DaemonInv /\ AgeInv /\ (Start \/ UpdateJobno) => AgeInv'
<1> SUFFICES ASSUME DaemonInv, AgeInv, Start \/ UpdateJobno PROVE AgeInv'
  OBVIOUS
<1>1. th' = th /\ ctl' = ctl
  BY DEF Start, UpdateJobno, client, disk
<1>2. Given' = Given
  BY <1>1 DEF Given
<1>3. CASE UpdateJobno
  BY <1>1, <1>2, <1>3 DEF AgeInv, Age, UpdateJobno, mem
<1>4. CASE Start
  <2>1. Given = {} /\ \A c \in Client : th[c].pc # "wrap"
    BY <1>4, NumberRange DEF AgeInv, Start
  <2> QED BY <1>1, <1>2, <1>4, <2>1 DEF AgeInv, Start
<1> QED BY <1>3, <1>4

LEMMA AgeGet == ASSUME DaemonInv, AgeInv, NEW c \in Client, GetNewjobno(c) PROVE AgeInv'
<1>1. /\ c \in Client \ Given /\ th[c].pc = "jobno" /\ JobsUnlocked
      /\ nextjob' = nextjob + 1 /\ ctl' = ctl /\ main' = main
  BY DEF AgeInv, GetNewjobno, Given, Entry, disk
<1>2. /\ nextjob \in 1 .. MaxJob /\ MaxJob \in Nat /\ main # "down"
      /\ th \in ThType /\ \A d \in Client : th[d].id \in 0 .. MaxJob
  BY <1>1, NumberRange, Bounds
<1>3. /\ th'[c].id = nextjob /\ th'[c].pc = IF nextjob = MaxJob THEN "wrap" ELSE "creat"
      /\ \A d \in Client : d # c => th'[d] = th[d]
  BY <1>2 DEF GetNewjobno, ThType
<1>4. Given' = Given \cup {c}
  BY <1>2, <1>3 DEF Given
<1>5. Cardinality(Given') = Cardinality(Given) + 1 /\ Cardinality(Given) < MaxJob /\ Cardinality(Given) \in Nat
  <2>1. IsFiniteSet(Given) /\ Cardinality(Given) < MaxJob /\ Cardinality(Given) \in Nat
    BY <1>1, <1>2, GivenFinite
  <2>2. Cardinality(Given \cup {c}) = Cardinality(Given) + 1
    BY <1>1, <2>1, FS_AddElement
  <2> QED BY <1>4, <2>1, <2>2
<1>6. \A d \in Given' : Age(th[d].id)' \in 1 .. Cardinality(Given')
  <2> SUFFICES ASSUME NEW d \in Given' PROVE Age(th[d].id)' \in 1 .. Cardinality(Given')
    OBVIOUS
  <2>1. CASE d = c
    BY <1>1, <1>2, <1>3, <1>5, <2>1 DEF Age
  <2>2. CASE d # c
    <3>1. d \in Given /\ d \in Client /\ th'[d] = th[d]
      BY <1>3, <1>4, <2>2 DEF Given
    <3>2. th[d].id \in 1 .. MaxJob /\ Age(th[d].id) \in 1 .. Cardinality(Given)
      BY <1>2, <3>1 DEF AgeInv, Given
    <3>3. th[d].id # nextjob
      BY <1>2, <1>5, <3>2 DEF Age
    <3> QED BY <1>1, <1>2, <1>5, <3>1, <3>2, <3>3 DEF Age
  <2> QED BY <2>1, <2>2
<1>7. \A j \in Jobs : ctl'[j] # None => \E d \in Given' : th'[d].id = j
  BY <1>1, <1>3, <1>4 DEF AgeInv, Given
<1>8. \A d \in Client : th'[d].pc = "wrap" =>
        nextjob' = MaxJob + 1 /\ \A e \in Client : th'[e].pc = "wrap" => e = d
  BY <1>1, <1>2, <1>3 DEF JobsUnlocked
<1>9. \A d \in Client : th'[d].pc \in Entry => th'[d].id = 0
  BY <1>3 DEF AgeInv, Entry
<1> QED BY <1>1, <1>2, <1>6, <1>7, <1>8, <1>9 DEF AgeInv

LEMMA AgeWrap == ASSUME DaemonInv, AgeInv, NEW c \in Client, WrapJobno(c) PROVE AgeInv'
<1>1. /\ nextjob = MaxJob + 1 /\ nextjob' = 1 /\ ctl' = ctl /\ main' = main
      /\ \A d \in Client : th[d].pc = "wrap" => d = c
  BY DEF AgeInv, WrapJobno, disk
<1>2. /\ MaxJob \in Nat /\ MaxJob >= 1 /\ th \in ThType /\ \A d \in Client : th[d].id \in 0 .. MaxJob
  BY NumberRange, Bounds
<1>3. /\ \A d \in Client : th'[d].id = th[d].id
      /\ th'[c].pc = "creat" /\ \A d \in Client : d # c => th'[d].pc = th[d].pc
  BY <1>2 DEF WrapJobno, Go, ThType
<1>4. Given' = Given /\ \A d \in Given : d \in Client /\ th[d].id # 0
  BY <1>3 DEF Given
<1>5. \A d \in Given : Age(th[d].id)' = Age(th[d].id)
  BY <1>1, <1>2, <1>3, <1>4 DEF Age
<1>6. \A d \in Client : th'[d].pc # "wrap"
  BY <1>1, <1>3
<1>7. \A d \in Client : th'[d].pc \in Entry => th'[d].id = 0
  BY <1>3 DEF AgeInv, Entry
<1>8. \A j \in Jobs : ctl'[j] # None => \E d \in Given : th'[d].id = j
  BY <1>1, <1>3, <1>4 DEF AgeInv
<1> QED BY <1>1, <1>4, <1>5, <1>6, <1>7, <1>8 DEF AgeInv

LEMMA NextAge == DaemonInv /\ AgeInv /\ [Next]_vars => AgeInv'
BY AgeOther, AgeStart, AgeGet, AgeWrap DEF Other

LEMMA UpInvariant == Spec => []JobInv /\ []AgeInv
<1>1. JobInv => DaemonInv
  BY DEF JobInv
<1>2. [Next]_vars => [KillNext]_vars
  BY DEF KillNext
<1>3. JobInv /\ AgeInv /\ [Next]_vars => JobInv' /\ AgeInv'
  BY <1>1, <1>2, AgeFree, NextAge, NextJobInv
<1> QED BY <1>3, InitJobInv, InitAge, PTL DEF Spec

-----------------------------------------------------------------------------
(* With restarts, as long as the numbers do not wrap around.                *)

First(f) == IF f = 0 THEN 1 ELSE f

\* The print commands cannot use up the numbers.
NoWrap == \A f \in JobFiles : First(f) + Cardinality(Client) <= MaxJob

Coming == {c \in Client : th[c].pc \in Entry}

\* A daemon that is up gives out larger numbers than any in use, and one that is
\* started will.
RisingInv ==
  /\ First(jobfile) + Cardinality(Coming) <= MaxJob
  /\ \A c \in Client : th[c].pc # "wrap"
  /\ main # "down" =>
       /\ nextjob + Cardinality(Coming) <= MaxJob
       /\ First(jobfile) <= nextjob
       /\ \A j \in Jobs : ctl[j] # None => j < nextjob
       /\ \A c \in Client : th[c].pc \in Numbered => th[c].id < nextjob
  /\ main = "down" => \A j \in Jobs : ctl[j] # None => j < jobfile

LEMMA ComingFinite ==
  /\ IsFiniteSet(Coming) /\ Cardinality(Coming) \in Nat
  /\ \A c \in Coming : Cardinality(Coming) >= 1 /\ Cardinality(Coming \ {c}) = Cardinality(Coming) - 1
<1>1. IsFiniteSet(Client) /\ Coming \in SUBSET Client
  BY PrintdConstants DEF Coming
<1>2. IsFiniteSet(Coming)
  BY <1>1, FS_Subset
<1>3. Cardinality(Coming) \in Nat
  BY <1>2, FS_CardinalityType
<1>4. ASSUME NEW c \in Coming
      PROVE  Cardinality(Coming) >= 1 /\ Cardinality(Coming \ {c}) = Cardinality(Coming) - 1
  <2>1. IsFiniteSet(Coming \ {c}) /\ Cardinality(Coming \ {c}) = Cardinality(Coming) - 1
    BY <1>2, FS_RemoveElement
  <2>2. Cardinality(Coming \ {c}) \in Nat
    BY <2>1, FS_CardinalityType
  <2> QED BY <1>3, <2>1, <2>2
<1> QED BY <1>2, <1>3, <1>4

\* Fewer print commands are to come after a step.
LEMMA ComingShrinks ==
  ASSUME \A c \in Client : th'[c].pc \in Entry => th[c].pc \in Entry
  PROVE  Cardinality(Coming') \in Nat /\ Cardinality(Coming') <= Cardinality(Coming)
<1>1. Coming' \in SUBSET Coming
  BY DEF Coming
<1>2. IsFiniteSet(Coming') /\ Cardinality(Coming') <= Cardinality(Coming)
  BY <1>1, ComingFinite, FS_Subset
<1> QED BY <1>2, FS_CardinalityType

LEMMA OverwrittenLarger ==
  ASSUME NEW old \in Nat, NEW n \in Nat, old <= n
  PROVE  Overwritten(old, n) = n
<1>1. Digits(old) - Digits(n) <= 0
  BY DEF Digits
<1> QED BY <1>1 DEF Overwritten

LEMMA InitRising == NoWrap /\ Init => RisingInv
<1> SUFFICES ASSUME NoWrap, Init PROVE RisingInv
  OBVIOUS
<1>1. Coming = Client
  BY DEF Init, Coming, Entry, NewThread
<1>2. First(jobfile) + Cardinality(Client) <= MaxJob
  BY DEF NoWrap, Init
<1> QED BY <1>1, <1>2 DEF Init, RisingInv, NewThread

LEMMA RisingFree == DaemonInv /\ RisingInv => GivesFree
<1> SUFFICES ASSUME DaemonInv, RisingInv, NEW c \in Client, GetNewjobno(c) PROVE Free(nextjob)
  BY DEF GivesFree
<1>1. main # "down" /\ JobsUnlocked
  BY NumberRange DEF GetNewjobno
<1>2. nextjob \in Jobs
  BY <1>1, NumberRange DEF Jobs
<1> QED BY <1>1, <1>2 DEF RisingInv, Free, Jobs

LEMMA RisingOther == DaemonInv /\ RisingInv /\ Other => RisingInv'
<1> SUFFICES ASSUME DaemonInv, RisingInv, Other PROVE RisingInv'
  OBVIOUS
<1>1. /\ UNCHANGED <<nextjob, jobfile>> /\ (main' = "down" <=> main = "down")
      /\ \A d \in Client : /\ th'[d].id = th[d].id
                           /\ th'[d].pc \in Entry => th[d].pc \in Entry
                           /\ th'[d].pc \in Numbered => th[d].pc \in Numbered
                           /\ th'[d].pc = "wrap" => th[d].pc = "wrap"
      /\ \A j \in Jobs : ctl'[j] # None =>
           ctl[j] # None \/ \E d \in Client : th[d].pc \in Numbered /\ th[d].id = j
  BY OtherSteps
<1>2. /\ Cardinality(Coming') \in Nat /\ Cardinality(Coming') <= Cardinality(Coming)
      /\ Cardinality(Coming) \in Nat
  BY <1>1, ComingShrinks, ComingFinite
<1>3. nextjob \in Nat /\ First(jobfile) \in Nat /\ MaxJob \in Nat
  BY NumberRange, Bounds DEF First
<1>4. \A d \in Client : th[d].pc \in Numbered => main # "down"
  BY NumberRange DEF Numbered
<1>5. First(jobfile)' = First(jobfile)
  BY <1>1 DEF First
<1>6. First(jobfile)' + Cardinality(Coming') <= MaxJob
  BY <1>2, <1>3, <1>5 DEF RisingInv
<1>7. main' # "down" => nextjob' + Cardinality(Coming') <= MaxJob /\ First(jobfile)' <= nextjob'
  BY <1>1, <1>2, <1>3, <1>5 DEF RisingInv
<1>8. main' # "down" =>
        /\ \A j \in Jobs : ctl'[j] # None => j < nextjob'
        /\ \A c \in Client : th'[c].pc \in Numbered => th'[c].id < nextjob'
  BY <1>1 DEF RisingInv
<1>9. main' = "down" => \A j \in Jobs : ctl'[j] # None => j < jobfile'
  BY <1>1, <1>4 DEF RisingInv
<1> QED BY <1>1, <1>6, <1>7, <1>8, <1>9 DEF RisingInv

LEMMA RisingStart == DaemonInv /\ RisingInv /\ Start => RisingInv'
<1> SUFFICES ASSUME DaemonInv, RisingInv, Start PROVE RisingInv'
  OBVIOUS
<1>1. /\ th' = th /\ ctl' = ctl /\ jobfile' = jobfile /\ nextjob' = First(jobfile)
      /\ main = "down" /\ main' # "down"
  BY DEF Start, client, disk, First
<1>2. Coming' = Coming /\ First(jobfile)' = First(jobfile)
  BY <1>1 DEF Coming, First
<1>3. \A c \in Client : th[c].pc \notin Numbered
  BY <1>1, NumberRange DEF Numbered
<1>4. \A j \in Jobs : ctl[j] # None => j < First(jobfile)
  BY <1>1, Bounds DEF RisingInv, First, Jobs
<1>5. First(jobfile) \in Nat
  BY NumberRange DEF First
<1> QED BY <1>1, <1>2, <1>3, <1>4, <1>5 DEF RisingInv

LEMMA RisingUpdate == DaemonInv /\ RisingInv /\ UpdateJobno => RisingInv'
<1> SUFFICES ASSUME DaemonInv, RisingInv, UpdateJobno PROVE RisingInv'
  OBVIOUS
<1>1. /\ th' = th /\ ctl' = ctl /\ nextjob' = nextjob /\ main' = main
      /\ jobfile' = Overwritten(jobfile, nextjob) /\ main # "down"
  BY DEF UpdateJobno, client, mem, DaemonInv, PlaceInv
<1>2. Coming' = Coming
  BY <1>1 DEF Coming
<1>3. jobfile \in Nat /\ nextjob \in Nat /\ nextjob >= 1 /\ jobfile <= nextjob
  BY <1>1, NumberRange DEF RisingInv, First
<1>4. jobfile' = nextjob /\ First(jobfile)' = nextjob
  BY <1>1, <1>3, OverwrittenLarger DEF First
<1> QED BY <1>1, <1>2, <1>3, <1>4 DEF RisingInv

LEMMA RisingGet == ASSUME DaemonInv, RisingInv, NEW c \in Client, GetNewjobno(c) PROVE RisingInv'
<1>1. /\ th[c].pc = "jobno" /\ JobsUnlocked /\ main # "down" /\ main' = main
      /\ nextjob' = nextjob + 1 /\ ctl' = ctl /\ jobfile' = jobfile
  BY NumberRange DEF GetNewjobno, disk
<1>2. nextjob \in 1 .. MaxJob /\ MaxJob \in Nat /\ th \in ThType /\ First(jobfile) \in Nat
  BY <1>1, NumberRange, Bounds DEF First
<1>3. c \in Coming
  BY <1>1 DEF Coming, Entry
<1>4. /\ Cardinality(Coming) \in Nat /\ Cardinality(Coming) >= 1
      /\ Cardinality(Coming \ {c}) = Cardinality(Coming) - 1
  BY <1>3, ComingFinite
<1>5. nextjob < MaxJob
  BY <1>1, <1>2, <1>4 DEF RisingInv
<1>6. /\ th'[c].id = nextjob /\ th'[c].pc = "creat"
      /\ \A d \in Client : d # c => th'[d] = th[d]
  BY <1>2, <1>5 DEF GetNewjobno, ThType
<1>7. Coming' = Coming \ {c}
  BY <1>6 DEF Coming, Entry
<1>8. /\ First(jobfile)' + Cardinality(Coming') <= MaxJob
      /\ nextjob' + Cardinality(Coming') <= MaxJob /\ First(jobfile)' <= nextjob'
  <2>1. /\ First(jobfile) + Cardinality(Coming) <= MaxJob /\ nextjob + Cardinality(Coming) <= MaxJob
        /\ First(jobfile) <= nextjob
    BY <1>1 DEF RisingInv
  <2>2. First(jobfile)' = First(jobfile) /\ Cardinality(Coming') = Cardinality(Coming) - 1
    BY <1>1, <1>4, <1>7 DEF First
  <2> QED BY <1>1, <1>2, <1>4, <2>1, <2>2
<1>9. \A j \in Jobs : ctl'[j] # None => j < nextjob'
  BY <1>1, <1>2 DEF RisingInv, Jobs
<1>10. \A d \in Client : th'[d].pc \in Numbered => th'[d].id < nextjob'
  <2> SUFFICES ASSUME NEW d \in Client, th'[d].pc \in Numbered PROVE th'[d].id < nextjob'
    OBVIOUS
  <2>1. CASE d = c
    BY <1>1, <1>2, <1>6, <2>1
  <2>2. CASE d # c
    <3>1. th'[d] = th[d] /\ th[d].id < nextjob /\ th[d].id \in 0 .. MaxJob
      BY <1>1, <1>2, <1>6, <2>2 DEF RisingInv, ThType
    <3> QED BY <1>1, <1>2, <3>1
  <2> QED BY <2>1, <2>2
<1>11. \A d \in Client : th'[d].pc # "wrap"
  BY <1>6 DEF RisingInv
<1> QED BY <1>1, <1>8, <1>9, <1>10, <1>11 DEF RisingInv

LEMMA RisingStop == DaemonInv /\ RisingInv /\ Recorded /\ Down => RisingInv'
<1> SUFFICES ASSUME DaemonInv, RisingInv, Recorded, Down PROVE RisingInv'
  OBVIOUS
<1>1. ctl' = ctl /\ jobfile' = jobfile /\ main' = "down"
  BY DEF Down, disk
<1>2. \A c \in Client : /\ th'[c].pc \in Entry => th[c].pc \in Entry
                        /\ th'[c].pc # "wrap"
  BY DEF Down, Entry, NewThread
<1>3. /\ Cardinality(Coming') \in Nat /\ Cardinality(Coming') <= Cardinality(Coming)
      /\ Cardinality(Coming) \in Nat
  BY <1>2, ComingShrinks, ComingFinite
<1>4. First(jobfile)' = First(jobfile) /\ First(jobfile) \in Nat /\ MaxJob \in Nat
  BY <1>1, NumberRange, Bounds DEF First
<1>5. First(jobfile)' + Cardinality(Coming') <= MaxJob
  BY <1>3, <1>4 DEF RisingInv
<1> QED BY <1>1, <1>2, <1>5 DEF RisingInv, Recorded

LEMMA NextRising == DaemonInv /\ RisingInv /\ [StopNext]_vars => RisingInv'
<1> SUFFICES ASSUME DaemonInv, RisingInv, [StopNext]_vars PROVE RisingInv'
  OBVIOUS
<1>1. \A c \in Client : ~WrapJobno(c)
  BY DEF WrapJobno, RisingInv
<1>2. CASE Other
  BY <1>2, RisingOther
<1>3. CASE Recorded /\ (Stop \/ InitPrinterFails)
  BY <1>3, RisingStop DEF Stop, InitPrinterFails
<1> QED BY <1>1, <1>2, <1>3, RisingStart, RisingUpdate, RisingGet DEF StopNext, Other

LEMMA StopInvariant == NoWrap /\ StopSpec => []JobInv /\ []RisingInv
<1>1. JobInv => DaemonInv
  BY DEF JobInv
<1>2. [StopNext]_vars => [KillNext]_vars
  BY DEF StopNext, KillNext
<1>3. JobInv /\ RisingInv /\ [StopNext]_vars => JobInv' /\ RisingInv'
  BY <1>1, <1>2, RisingFree, NextRising, NextJobInv
<1>4. NoWrap /\ Init => JobInv /\ RisingInv
  BY InitJobInv, InitRising
<1> QED BY <1>3, <1>4, PTL DEF StopSpec

-----------------------------------------------------------------------------
(* The promises.                                                            *)

\* The daemon is not stopped, or its numbers do not wrap around.
Promising == Spec \/ (NoWrap /\ StopSpec)

LEMMA JobInvariant == Promising => []JobInv
<1>1. Spec => []JobInv
  BY UpInvariant, PTL
<1>2. NoWrap /\ StopSpec => []JobInv
  BY StopInvariant, PTL
<1> QED BY <1>1, <1>2 DEF Promising

LEMMA PromisingSteps == Promising => [][KillNext]_vars
<1>1. [Next]_vars => [KillNext]_vars
  BY DEF KillNext
<1>2. [StopNext]_vars => [KillNext]_vars
  BY DEF StopNext, KillNext
<1>3. Spec => [][KillNext]_vars
  BY <1>1, PTL DEF Spec
<1>4. NoWrap /\ StopSpec => [][KillNext]_vars
  BY <1>2, PTL DEF StopSpec
<1> QED BY <1>3, <1>4 DEF Promising

\* No job is in the list twice, or in the list and at the printer thread, whatever
\* the order in which client threads, build_qonstart and the printer thread run.
THEOREM NoJobTwice == Promising => []NoDuplicateJob
<1>1. JobInv => NoDuplicateJob
  BY DEF JobInv, QueueInv
<1> QED BY <1>1, JobInvariant, PTL

\* If no read of the socket times out, the spool directory holds the whole file and
\* the request of every client that has its job number until the printer confirms,
\* unless build_qonstart could not read the request and removed it.
THEOREM FilesKept == Promising /\ "stall" \notin Faults => []AckedKept
<1> SUFFICES ASSUME "stall" \notin Faults PROVE Promising => []AckedKept
  OBVIOUS
<1>1. JobInv => AckedKept
  BY JobInvKeeps
<1> QED BY <1>1, JobInvariant, PTL

\* A daemon that takes requests has every acknowledged, unconfirmed job in the list
\* or in a thread's hands, but for those it gave up on a file it could not open.
THEOREM JobsQueued == Promising => []AckedQueued
BY JobInvQueued, JobInvariant, PTL

\* Across restarts a file the printer has confirmed is sent again only if the daemon
\* was stopped between printer_status and the unlink of the data file: after it
\* printer_thread has nothing left to send, and no client is given the number.
THEOREM ReprintedWhenTorn == Promising => ReprintOnlyTorn
<1>1. JobInv /\ [KillNext]_vars => [\A c \in Client : printed'[c] # printed[c] => c \notin confirmed \ torn]_vars
  BY JobInvReprint DEF Over
<1> QED BY <1>1, JobInvariant, PromisingSteps, PTL DEF ReprintOnlyTorn

\* No stop has left a confirmed file to be printed again.
Untorn == torn = {}

\* A daemon that is not stopped never sends a file again that the printer has confirmed.
THEOREM PrintedOnce == Spec => NoReprint
<1>1. Init => Untorn
  BY DEF Init, Untorn
<1>2. Untorn /\ [Next]_vars => Untorn'
  <2> SUFFICES ASSUME Untorn, [Next]_vars PROVE Untorn'
    OBVIOUS
  <2>1. CASE Start \/ MainStep \/ Sighup \/ EditConfig \/ UNCHANGED vars
    BY <2>1 DEF Start, MainStep, BuildSignal, BuildUnlink, BuildDone, BuildAdd, BuildSkip, BuildDrop, Sighup,
       EditConfig, vars, history, Untorn
  <2>2. ASSUME NEW d \in Client, Accept(d) \/ ClientStep(d) \/ ClientFails(d) \/ ClientDies(d)
        PROVE  Untorn'
    BY <2>2 DEF Accept, ClientStep, ReadHeader, GetNewjobno, WrapJobno, CreatData, ReadData, EndOfData, CreatCtl,
       WriteCtl, UnlinkCtl, UnlinkData, Respond, AddJob, SignalJob, ClientFails, HeaderFails,
       CreatDataFails, WriteDataFails, CreatCtlFails, WriteCtlFails, ClientDies, history, Untorn
  <2>3. CASE PrinterStep \/ SpuriousWakeup \/ ContactFails \/ SendFails
    BY <2>3 DEF SpuriousWakeup, ContactFails, SendFails, PrinterStep, Wait, Pick, UpdateJobno, CheckReread,
       InitPrinter, OpenData, OpenFails, Contact, Send, StatusOk, StatusBad, RemoveData, RemoveCtl,
       ReplaceJob, Slept, history, Untorn
  <2> QED BY <2>1, <2>2, <2>3 DEF Next
<1>3. Spec => []Untorn
  BY <1>1, <1>2, PTL DEF Spec
<1>4. Untorn /\ [\A c \in Client : printed'[c] # printed[c] => c \notin confirmed \ torn]_vars
      => [\A c \in Client : printed'[c] # printed[c] => c \notin confirmed]_vars
  BY DEF Untorn
<1>5. Spec => ReprintOnlyTorn
  BY ReprintedWhenTorn DEF Promising
<1> QED BY <1>3, <1>4, <1>5, PTL DEF NoReprint, ReprintOnlyTorn

-----------------------------------------------------------------------------
(* A spool directory without leftovers, as long as the daemon is not stopped and  *)
(* every file that is there can be opened.                                       *)

\* The places of a thread that has a data file.
Busy == {"data", "creatctl", "writectl", "unlinkctl", "unlinkdata", "respond", "add"}

\* The file of every number belongs to a thread at work or to a job; nothing is found
\* at the start, and a confirmed job is still in hand until its files are gone.
CleanInv ==
  /\ scan = {} /\ main \in {"down", "build", "accept"} /\ cancelled = {}
  /\ \A j \in Jobs : data[j] # None =>
       ctl[j] \in Client \/ \E c \in Client : th[c].pc \in Busy /\ th[c].id = j
  /\ \A j \in Jobs : ctl[j] = "empty" =>
       \E c \in Client : th[c].pc \in {"writectl", "unlinkctl"} /\ th[c].id = j
  /\ \A j \in Jobs : ctl[j] \in Over => ppc \in {"unlinkdata", "unlinkctl"} /\ job.id = j

LEMMA InitClean == Init => CleanInv
BY Values DEF Init, CleanInv, Over

\* Steps that change no file keep every thread with a file, or its complete request.
LEMMA CleanFrame ==
  ASSUME CleanInv, UNCHANGED <<data, ctl, Over, cancelled>>,
         scan' = {}, main' \in {"down", "build", "accept"},
         ppc \in {"unlinkdata", "unlinkctl"} => ppc' = ppc /\ job' = job,
         \A c \in Client :
           /\ th[c].pc \in Busy =>
                th'[c].id = th[c].id /\ (th'[c].pc \in Busy \/ ctl[th[c].id] \in Client)
           /\ th[c].pc \in {"writectl", "unlinkctl"} => th'[c].pc \in {"writectl", "unlinkctl"}
  PROVE  CleanInv'
<1>1. \A j \in Jobs : data'[j] # None =>
        ctl'[j] \in Client \/ \E c \in Client : th'[c].pc \in Busy /\ th'[c].id = j
  BY DEF CleanInv
<1>2. \A j \in Jobs : ctl'[j] = "empty" =>
        \E c \in Client : th'[c].pc \in {"writectl", "unlinkctl"} /\ th'[c].id = j
  <2>1. ASSUME NEW j \in Jobs, ctl[j] = "empty"
        PROVE  \E c \in Client : th'[c].pc \in {"writectl", "unlinkctl"} /\ th'[c].id = j
    <3>1. PICK c \in Client : th[c].pc \in {"writectl", "unlinkctl"} /\ th[c].id = j
      BY <2>1 DEF CleanInv
    <3>2. th[c].pc \in Busy
      BY <3>1 DEF Busy
    <3> QED BY <3>1, <3>2
  <2> QED BY <2>1
<1>3. \A j \in Jobs : ctl'[j] \in Over' => ppc' \in {"unlinkdata", "unlinkctl"} /\ job'.id = j
  BY DEF CleanInv
<1> QED BY <1>1, <1>2, <1>3 DEF CleanInv

LEMMA CleanMain == JobInv /\ AgeInv /\ CleanInv /\ (Start \/ MainStep \/ Sighup \/ EditConfig) => CleanInv'
<1> SUFFICES ASSUME JobInv, AgeInv, CleanInv, Start \/ MainStep \/ Sighup \/ EditConfig PROVE CleanInv'
  OBVIOUS
<1>1. CASE Start
  <2>1. Given = {} /\ \A j \in Jobs : ctl[j] = None
    BY <1>1 DEF AgeInv, Start
  <2>2. scan' = {} /\ ppc = "down"
    BY <1>1, <2>1 DEF Start, JobInv, DaemonInv, PlaceInv
  <2> QED BY <1>1, <2>2, CleanFrame DEF Start, disk, client, history, Over
<1>2. CASE MainStep
  <2>1. BuildDone
    BY <1>2 DEF MainStep, CleanInv, BuildSignal, BuildUnlink, BuildAdd, BuildSkip, BuildDrop
  <2> QED BY <2>1, CleanFrame DEF BuildDone, CleanInv, disk, client, prt, history, Over
<1>3. CASE Sighup \/ EditConfig
  BY <1>3, CleanFrame DEF Sighup, EditConfig, CleanInv, disk, mem, client, prt, history, Over
<1> QED BY <1>1, <1>2, <1>3

LEMMA CleanThread ==
  ASSUME JobInv, CleanInv, NEW c \in Client,
         Accept(c) \/ ClientStep(c) \/ ClientFails(c) \/ ClientDies(c)
  PROVE  CleanInv'
<1>1. /\ th \in ThType /\ ctl \in [Jobs -> Client \cup {"empty", None}]
      /\ data \in [Jobs -> Docs \cup {None}]
      /\ \A d \in Client : th[d].pc \in Numbered => th[d].id \in Jobs
      /\ \A d \in Client : ThreadInv(d) /\ AckInv(d)
  BY FileTypes DEF JobInv
<1>2. CASE /\ UNCHANGED <<data, ctl, Over, cancelled, scan, main>>
           /\ ppc' = ppc /\ job' = job
           /\ \/ th' = th
              \/ \E pc \in Labels : Go(c, pc) /\ th[c].pc \notin Busy
              \/ \E pc \in Labels : Go(c, pc) /\ pc \in Busy /\ th[c].pc # "writectl"
                                    /\ th[c].pc # "unlinkctl"
              \/ Go(c, "unlinkctl")
  <2>1. "unlinkctl" \in Labels /\ "unlinkctl" \in Busy
    BY DEF Labels, Busy
  <2>2. \A d \in Client :
          /\ th[d].pc \in Busy => th'[d].id = th[d].id /\ th'[d].pc \in Busy
          /\ th[d].pc \in {"writectl", "unlinkctl"} => th'[d].pc \in {"writectl", "unlinkctl"}
    <3>1. CASE th' = th
      BY <3>1
    <3>2. ASSUME NEW pc \in Labels, Go(c, pc),
                 \/ th[c].pc \notin Busy
                 \/ pc \in Busy /\ th[c].pc # "writectl" /\ th[c].pc # "unlinkctl"
                 \/ pc = "unlinkctl"
          PROVE  \A d \in Client :
                   /\ th[d].pc \in Busy => th'[d].id = th[d].id /\ th'[d].pc \in Busy
                   /\ th[d].pc \in {"writectl", "unlinkctl"} => th'[d].pc \in {"writectl", "unlinkctl"}
      <4>1. /\ th'[c].pc = pc /\ th'[c].id = th[c].id
            /\ \A d \in Client : d # c => th'[d] = th[d]
        BY <1>1, <3>2, GoTyped
      <4>2. th[c].pc \in {"writectl", "unlinkctl"} => th[c].pc \in Busy
        BY DEF Busy
      <4> QED BY <2>1, <3>2, <4>1, <4>2
    <3> QED BY <1>2, <2>1, <3>1, <3>2
  <2> QED BY <1>2, <2>2, CleanFrame DEF CleanInv
<1>3. CASE Accept(c) \/ ReadHeader(c) \/ WrapJobno(c) \/ EndOfData(c) \/ Respond(c)
           \/ HeaderFails(c) \/ CreatDataFails(c) \/ WriteDataFails(c) \/ CreatCtlFails(c)
           \/ WriteCtlFails(c) \/ ClientDies(c)
  <2>1. UNCHANGED <<data, ctl, Over, cancelled, scan, main, ppc, job>>
    BY <1>3 DEF Accept, ReadHeader, WrapJobno, EndOfData, Respond, HeaderFails, CreatDataFails,
       WriteDataFails, CreatCtlFails, WriteCtlFails, ClientDies, disk, mem, prt, history, Over
  <2>2. CASE ClientDies(c)
    BY <1>2, <2>1, <2>2 DEF ClientDies
  <2>3. CASE ~ClientDies(c)
    BY <1>2, <1>3, <2>1, <2>3 DEF Accept, ReadHeader, WrapJobno, EndOfData, Respond, HeaderFails,
       CreatDataFails, WriteDataFails, CreatCtlFails, WriteCtlFails, Go, Labels, Busy
  <2> QED BY <2>2, <2>3
<1>4. CASE GetNewjobno(c)
  <2>1. th[c].pc = "jobno" /\ \A d \in Client : d # c => th'[d] = th[d]
    BY <1>1, <1>4 DEF GetNewjobno, ThType
  <2> QED BY <1>4, <2>1, CleanFrame DEF GetNewjobno, CleanInv, Busy, disk, prt, history, Over
<1>5. CASE AddJob(c) \/ SignalJob(c)
  <2>1. /\ \A d \in Client : d # c => th'[d] = th[d]
        /\ th'[c].id = th[c].id /\ th[c].pc \in {"add", "signal"}
    BY <1>1, <1>5 DEF AddJob, SignalJob, Go, ThType
  <2>2. th[c].pc = "add" => ctl[th[c].id] \in Client
    BY <1>1 DEF ThreadInv
  <2>3. UNCHANGED <<data, ctl, Over, cancelled, scan, main, job>>
    BY <1>5 DEF AddJob, SignalJob, disk, mem, prt, history, Over
  <2>4. ppc \in {"unlinkdata", "unlinkctl"} => ppc' = ppc
    BY <1>5 DEF AddJob, SignalJob, Signal, prt
  <2> QED BY <2>1, <2>2, <2>3, <2>4, CleanFrame DEF CleanInv, Busy
<1>6. CASE CreatData(c) \/ ReadData(c)
  <2>1. /\ UNCHANGED <<ctl, Over, cancelled, scan, main, ppc, job>>
        /\ \A d \in Client : d # c => th'[d] = th[d]
        /\ th'[c].id = th[c].id /\ th'[c].pc = "data" /\ th[c].pc \in {"creat", "data"}
        /\ \A j \in Jobs : j # th[c].id => data'[j] = data[j]
    BY <1>1, <1>6 DEF CreatData, ReadData, ThType, mem, prt, history, Over
  <2>2. \A j \in Jobs : data'[j] # None =>
          ctl'[j] \in Client \/ \E d \in Client : th'[d].pc \in Busy /\ th'[d].id = j
    <3>1. th'[c].pc \in Busy
      BY <2>1 DEF Busy
    <3>2. ASSUME NEW j \in Jobs, data'[j] # None
          PROVE  ctl'[j] \in Client \/ \E d \in Client : th'[d].pc \in Busy /\ th'[d].id = j
      <4>1. CASE j = th[c].id
        BY <2>1, <3>1, <4>1
      <4>2. CASE j # th[c].id
        <5>1. data[j] # None
          BY <2>1, <3>2, <4>2
        <5>2. ctl[j] \in Client \/ \E d \in Client : th[d].pc \in Busy /\ th[d].id = j
          BY <5>1 DEF CleanInv
        <5> QED BY <2>1, <3>1, <5>2
      <4> QED BY <4>1, <4>2
    <3> QED BY <3>2
  <2>3. \A j \in Jobs : ctl'[j] = "empty" =>
          \E d \in Client : th'[d].pc \in {"writectl", "unlinkctl"} /\ th'[d].id = j
    <3>1. ASSUME NEW j \in Jobs, ctl[j] = "empty"
          PROVE  \E d \in Client : th'[d].pc \in {"writectl", "unlinkctl"} /\ th'[d].id = j
      <4>1. PICK d \in Client : th[d].pc \in {"writectl", "unlinkctl"} /\ th[d].id = j
        BY <3>1 DEF CleanInv
      <4>2. d # c
        BY <2>1, <4>1
      <4> QED BY <2>1, <4>1, <4>2
    <3> QED BY <2>1, <3>1
  <2> QED BY <2>1, <2>2, <2>3 DEF CleanInv
<1>7. CASE CreatCtl(c) \/ WriteCtl(c) \/ UnlinkCtl(c)
  <2> PICK i \in Jobs : i = th[c].id
    BY <1>1, <1>7 DEF CreatCtl, WriteCtl, UnlinkCtl, Numbered
  <2>1. /\ UNCHANGED <<data, Over, cancelled, scan, main, ppc, job>>
        /\ \A d \in Client : d # c => th'[d] = th[d]
        /\ th'[c].id = i /\ th'[c].pc \in Busy
        /\ \A j \in Jobs : j # i => ctl'[j] = ctl[j]
    BY <1>1, <1>7 DEF CreatCtl, WriteCtl, UnlinkCtl, Go, ThType, mem, prt, history, Over, Busy
  <2>2. \/ ctl'[i] = "empty" /\ th'[c].pc = "writectl"
        \/ ctl'[i] = c /\ c \notin Over
        \/ ctl'[i] = None
    <3>1. CASE CreatCtl(c)
      BY <1>1, <3>1 DEF CreatCtl, ThType
    <3>2. CASE WriteCtl(c)
      <4>1. th[c].linked /\ c \notin Over
        BY <1>1, <3>2 DEF WriteCtl, ThreadInv, AckInv
      <4> QED BY <1>1, <3>2, <4>1 DEF WriteCtl
    <3>3. CASE UnlinkCtl(c)
      BY <1>1, <3>3 DEF UnlinkCtl
    <3> QED BY <1>7, <3>1, <3>2, <3>3
  <2>3. \A j \in Jobs : data'[j] # None =>
          ctl'[j] \in Client \/ \E d \in Client : th'[d].pc \in Busy /\ th'[d].id = j
    <3>1. ASSUME NEW j \in Jobs, data[j] # None
          PROVE  ctl'[j] \in Client \/ \E d \in Client : th'[d].pc \in Busy /\ th'[d].id = j
      <4>1. CASE j = i
        BY <2>1, <4>1
      <4>2. CASE j # i
        <5>1. ctl[j] \in Client \/ \E d \in Client : th[d].pc \in Busy /\ th[d].id = j
          BY <3>1 DEF CleanInv
        <5>2. \A d \in Client : th[d].id = j => d # c
          BY <4>2
        <5> QED BY <2>1, <4>2, <5>1, <5>2
      <4> QED BY <4>1, <4>2
    <3> QED BY <2>1, <3>1
  <2>4. \A j \in Jobs : ctl'[j] = "empty" =>
          \E d \in Client : th'[d].pc \in {"writectl", "unlinkctl"} /\ th'[d].id = j
    <3> SUFFICES ASSUME NEW j \in Jobs, ctl'[j] = "empty"
                 PROVE  \E d \in Client : th'[d].pc \in {"writectl", "unlinkctl"} /\ th'[d].id = j
      OBVIOUS
    <3>1. CASE j = i
      BY <2>1, <2>2, <3>1, Values
    <3>2. CASE j # i
      <4>1. ctl[j] = "empty"
        BY <2>1, <3>2
      <4>2. PICK d \in Client : th[d].pc \in {"writectl", "unlinkctl"} /\ th[d].id = j
        BY <4>1 DEF CleanInv
      <4>3. d # c
        BY <3>2, <4>2
      <4> QED BY <2>1, <4>2, <4>3
    <3> QED BY <3>1, <3>2
  <2>5. Over \in SUBSET Client
    BY TypeParts DEF JobInv, DaemonInv, HistoryType, Over
  <2>6. \A j \in Jobs : ctl'[j] \in Over' => ppc' \in {"unlinkdata", "unlinkctl"} /\ job'.id = j
    <3>1. "empty" \notin Over /\ None \notin Over
      BY <2>5, Values
    <3>2. ASSUME NEW j \in Jobs, ctl'[j] \in Over
          PROVE  ppc \in {"unlinkdata", "unlinkctl"} /\ job.id = j
      <4>1. j # i
        BY <2>2, <3>1, <3>2
      <4>2. ctl[j] \in Over
        BY <2>1, <3>2, <4>1
      <4> QED BY <4>2 DEF CleanInv
    <3> QED BY <2>1, <3>2
  <2> QED BY <2>1, <2>3, <2>4, <2>6 DEF CleanInv
<1>8. CASE UnlinkData(c)
  <2>1. /\ UNCHANGED <<ctl, Over, cancelled, scan, main, ppc, job>>
        /\ \A d \in Client : d # c => th'[d] = th[d]
        /\ th[c].pc = "unlinkdata" /\ th[c].id \in Jobs
        /\ data' = [data EXCEPT ![th[c].id] = None]
    BY <1>1, <1>8 DEF UnlinkData, Go, ThType, mem, prt, history, Over, Numbered
  <2>2. \A j \in Jobs : data'[j] # None =>
          ctl'[j] \in Client \/ \E d \in Client : th'[d].pc \in Busy /\ th'[d].id = j
    <3>1. DOMAIN data = Jobs
      BY <1>1
    <3>2. ASSUME NEW j \in Jobs, data'[j] # None
          PROVE  ctl'[j] \in Client \/ \E d \in Client : th'[d].pc \in Busy /\ th'[d].id = j
      <4>1. j # th[c].id /\ data[j] # None
        BY <2>1, <3>1, <3>2
      <4>2. ctl[j] \in Client \/ \E d \in Client : th[d].pc \in Busy /\ th[d].id = j
        BY <4>1 DEF CleanInv
      <4> QED BY <2>1, <4>1, <4>2
    <3> QED BY <3>2
  <2>3. \A j \in Jobs : ctl'[j] = "empty" =>
          \E d \in Client : th'[d].pc \in {"writectl", "unlinkctl"} /\ th'[d].id = j
    <3>1. ASSUME NEW j \in Jobs, ctl[j] = "empty"
          PROVE  \E d \in Client : th'[d].pc \in {"writectl", "unlinkctl"} /\ th'[d].id = j
      <4>1. PICK d \in Client : th[d].pc \in {"writectl", "unlinkctl"} /\ th[d].id = j
        BY <3>1 DEF CleanInv
      <4>2. d # c
        BY <2>1, <4>1
      <4> QED BY <2>1, <4>1, <4>2
    <3> QED BY <2>1, <3>1
  <2> QED BY <2>1, <2>2, <2>3 DEF CleanInv
<1> QED BY <1>3, <1>4, <1>5, <1>6, <1>7, <1>8 DEF ClientStep, ClientFails

LEMMA CleanPrinter ==
  ASSUME JobInv, CleanInv, "open" \notin Faults,
         PrinterStep \/ SpuriousWakeup \/ ContactFails \/ SendFails
  PROVE  CleanInv'
<1>1. CASE \/ Wait \/ Pick \/ UpdateJobno \/ CheckReread \/ InitPrinter \/ OpenData \/ Contact
           \/ StatusBad \/ ReplaceJob \/ Slept \/ SpuriousWakeup \/ ContactFails \/ SendFails
           \/ \E o \in {"ok", "lost", "error"} : Send(o)
  <2>1. /\ UNCHANGED <<data, ctl, Over, cancelled, scan, main, th>>
        /\ ppc \notin {"unlinkdata", "unlinkctl"}
    BY <1>1 DEF Wait, Pick, UpdateJobno, CheckReread, InitPrinter, OpenData, Contact, StatusBad,
       ReplaceJob, Slept, SpuriousWakeup, ContactFails, SendFails, Send, disk, mem, client, history, Over
  <2> QED BY <2>1, CleanFrame DEF CleanInv
<1>2. /\ ppc \in AtJob => job.id \in Jobs /\ ctl[job.id] = job.by /\ job.by \in Client
      /\ \A j \in Jobs : SpoolInv(j)
      /\ HandInv /\ OwnFiles /\ data \in [Jobs -> Docs \cup {None}]
      /\ ctl \in [Jobs -> Client \cup {"empty", None}] /\ th \in ThType
      /\ Over \in SUBSET Client
  BY InHandFacts, FileTypes, TypeParts DEF JobInv, DaemonInv, HistoryType, Over
<1>3. ~OpenFails
  <2> SUFFICES ASSUME OpenFails PROVE FALSE
    OBVIOUS
  <2>1. job.id \in Jobs /\ ctl[job.id] = job.by /\ job.by \in Client /\ data[job.id] = None
    BY <1>2 DEF OpenFails, AtJob
  <2>2. ctl[job.id] \in Over
    BY <1>2, <2>1 DEF SpoolInv
  <2> QED BY <2>1, <2>2 DEF OpenFails, CleanInv
<1>4. CASE StatusOk
  <2>1. job.id \in Jobs /\ ctl[job.id] = job.by /\ job.by \in Client
    BY <1>2, <1>4 DEF StatusOk, AtJob
  <2>2. /\ UNCHANGED <<data, ctl, cancelled, scan, main, th, job>>
        /\ Over' = Over \cup {job.by} /\ ppc' = "unlinkdata" /\ ppc = "status"
    BY <1>4 DEF StatusOk, disk, mem, client, Over
  <2>3. \A j \in Jobs : ctl'[j] \in Over' => job'.id = j
    <3>1. ASSUME NEW j \in Jobs, ctl[j] \in Over \cup {job.by} PROVE job.id = j
      <4>1. CASE ctl[j] \in Over
        BY <4>1 DEF CleanInv
      <4>2. CASE ctl[j] = job.by
        BY <1>2, <2>1, <4>2 DEF OwnFiles
      <4> QED BY <3>1, <4>1, <4>2
    <3> QED BY <2>2, <3>1
  <2>4. ppc' \in {"unlinkdata", "unlinkctl"}
    BY <2>2
  <2>5. /\ scan = {} /\ main \in {"down", "build", "accept"} /\ cancelled = {}
        /\ \A j \in Jobs : data[j] # None =>
             ctl[j] \in Client \/ \E d \in Client : th[d].pc \in Busy /\ th[d].id = j
        /\ \A j \in Jobs : ctl[j] = "empty" =>
             \E d \in Client : th[d].pc \in {"writectl", "unlinkctl"} /\ th[d].id = j
    BY DEF CleanInv
  <2> QED BY <2>2, <2>3, <2>4, <2>5 DEF CleanInv
<1>5. CASE RemoveData \/ RemoveCtl
  <2>1. job.id \in Jobs /\ ctl[job.id] = job.by /\ job.by \in Client
    BY <1>2, <1>5 DEF RemoveData, RemoveCtl, AtJob
  <2>2. \A d \in Client : th'[d].id = th[d].id /\ th'[d].pc = th[d].pc
    <3>1. PICK pc \in {"data", "writectl"} : Unlinked(job.id, pc)
      BY <1>5 DEF RemoveData, RemoveCtl
    <3> SUFFICES ASSUME NEW d \in Client PROVE th'[d].id = th[d].id /\ th'[d].pc = th[d].pc
      OBVIOUS
    <3>2. th'[d] = IF th[d].id = job.id /\ th[d].pc = pc THEN [th[d] EXCEPT !.linked = FALSE] ELSE th[d]
      BY <3>1 DEF Unlinked
    <3>3. th[d] \in [pc : Labels, id : 0 .. MaxJob, n : Nat, linked : BOOLEAN]
      BY <1>2 DEF ThType
    <3> QED BY <3>2, <3>3
  <2>3. /\ UNCHANGED <<Over, cancelled, scan, main>>
        /\ \A j \in Jobs : j # job.id => data'[j] = data[j] /\ ctl'[j] = ctl[j]
        /\ data'[job.id] = None
        /\ ctl'[job.id] # None => ctl'[job.id] = ctl[job.id] /\ ppc' = "unlinkctl" /\ job' = job
    BY <1>2, <1>5, <2>1 DEF RemoveData, RemoveCtl, mem, history, Over, HandInv
  <2>4. \A j \in Jobs : data'[j] # None =>
          ctl'[j] \in Client \/ \E d \in Client : th'[d].pc \in Busy /\ th'[d].id = j
    <3>1. ASSUME NEW j \in Jobs, data'[j] # None
          PROVE  ctl'[j] \in Client \/ \E d \in Client : th'[d].pc \in Busy /\ th'[d].id = j
      <4>1. j # job.id
        BY <2>3, <3>1
      <4>2. data[j] # None /\ ctl'[j] = ctl[j]
        BY <2>3, <3>1, <4>1
      <4>3. ctl[j] \in Client \/ \E d \in Client : th[d].pc \in Busy /\ th[d].id = j
        BY <4>2 DEF CleanInv
      <4> QED BY <2>2, <4>2, <4>3
    <3> QED BY <3>1
  <2>5. \A j \in Jobs : ctl'[j] = "empty" =>
          \E d \in Client : th'[d].pc \in {"writectl", "unlinkctl"} /\ th'[d].id = j
    <3>1. ASSUME NEW j \in Jobs, ctl'[j] = "empty"
          PROVE  \E d \in Client : th'[d].pc \in {"writectl", "unlinkctl"} /\ th'[d].id = j
      <4>1. ctl[j] = "empty"
        BY <2>3, <3>1, Values
      <4>2. PICK d \in Client : th[d].pc \in {"writectl", "unlinkctl"} /\ th[d].id = j
        BY <4>1 DEF CleanInv
      <4> QED BY <2>2, <4>2
    <3> QED BY <3>1
  <2>6. \A j \in Jobs : ctl'[j] \in Over' => ppc' \in {"unlinkdata", "unlinkctl"} /\ job'.id = j
    BY <1>2, <2>3, Values DEF CleanInv
  <2> QED BY <2>3, <2>4, <2>5, <2>6 DEF CleanInv
<1> QED BY <1>1, <1>3, <1>4, <1>5 DEF PrinterStep

LEMMA CleanMeans == JobInv /\ CleanInv => SpoolClean
<1> SUFFICES ASSUME JobInv, CleanInv, main = "accept", queue = <<>>, job = NoJob,
                    \A c \in Client : th[c].pc \in {"new", "header", "jobno", "wrap", "done"},
                    NEW j \in Jobs
             PROVE  data[j] = None /\ ctl[j] = None
  BY DEF SpoolClean
<1>1. ctl \in [Jobs -> Client \cup {"empty", None}]
  BY FileTypes DEF JobInv
<1>2. ctl[j] # "empty"
  BY DEF CleanInv
<1>3. ctl[j] \notin Client
  <2> SUFFICES ASSUME ctl[j] \in Client PROVE FALSE
    OBVIOUS
  <2>1. th[ctl[j]].pc \notin {"respond", "add"} /\ j \notin scan
    BY DEF CleanInv
  <2>2. job.id # j /\ 1 .. Len(queue) = {}
    BY Bounds DEF NoJob, Jobs
  <2> QED BY <2>1, <2>2 DEF JobInv, HeldInv, CleanInv
<1> QED BY <1>1, <1>2, <1>3 DEF CleanInv, Busy

\* With no thread at work and no job pending, a daemon that can open its files and is
\* not stopped has left no file behind: client_thread unlinks what it rejects, the
\* printer thread what is printed, and nothing else is ever created.
THEOREM SpoolLeftClean == Spec /\ "open" \notin Faults => []SpoolClean
<1> SUFFICES ASSUME "open" \notin Faults PROVE Spec => []SpoolClean
  OBVIOUS
<1>1. JobInv /\ AgeInv /\ CleanInv /\ [Next]_vars => CleanInv'
  <2>1. CleanInv /\ UNCHANGED vars => CleanInv'
    BY DEF vars, CleanInv, disk, mem, client, prt, config, history, Over
  <2> QED BY <2>1, CleanMain, CleanThread, CleanPrinter DEF Next
<1>2. Spec => []CleanInv
  BY <1>1, UpInvariant, InitClean, PTL DEF Spec
<1> QED BY <1>2, UpInvariant, CleanMeans, PTL

=============================================================================
