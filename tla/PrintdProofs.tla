---------------------------- MODULE PrintdProofs ----------------------------
(***************************************************************************)
(* What printd keeps however its threads interleave and wherever it is      *)
(* stopped (KillSpec), for every number of print commands, every range of   *)
(* job numbers and every set of faults: the types of its variables, the     *)
(* order in which jobs are served, and the configuration a job is sent with. *)
(*                                                                          *)
(* Then JobInv, the invariant behind what printd promises to a client that  *)
(* has been given a job number: its files stay in the spool directory and   *)
(* its job in the list until the printer has confirmed it, no job is in the *)
(* list twice, and no confirmed one is printed again unless a stop came     *)
(* before its data was removed.  The argument is the same for a daemon that *)
(* is never stopped, where job numbers may wrap around, and for one that is *)
(* stopped and started again: JobInv is kept by every step that gives out   *)
(* free numbers only (here: the steps of the client threads), and that a    *)
(* number given out is free is shown separately for each.                   *)
(***************************************************************************)
EXTENDS Printd, TLAPS

\* Most leaves are first-order: Zenon first, the others go to the SMT solver.
USE ZenonT(3), SMT

\* The places where the printer thread has a job in hand.
AtJob == {"jobno", "conf", "init", "open", "connect", "send", "status", "unlinkdata", "unlinkctl",
          "replace"}

\* The places where it has the data file of that job open.
AtDoc == {"connect", "send", "status", "unlinkdata", "unlinkctl"}

\* The places where a client thread has a job number of its own.
Numbered == {"wrap", "creat", "data", "creatctl", "writectl", "unlinkctl", "unlinkdata", "respond", "add"}

ThType == [Client -> [pc : Labels, id : 0 .. MaxJob, n : Nat, linked : BOOLEAN]]

\* What is known of job, doc, nextjob and the client threads from where the threads
\* of the daemon are: a number beyond the largest is only seen with joblock held.
PlaceInv ==
  /\ main = "down" <=> ppc = "down"
  /\ main = "down" => \A c \in Client : th[c].pc \in {"new", "done"}
  /\ \A c \in Client : th[c].pc \in Numbered => th[c].id \in Jobs
  /\ main # "down" /\ nextjob = MaxJob + 1 => ~JobsUnlocked
  /\ ppc \in AtJob => job \in JobType
  /\ ppc \notin AtJob => job = NoJob
  /\ ppc \in AtDoc => doc \in Docs

\* line is the client of the job in hand, followed by those of the queue.
LineInv ==
  /\ job = NoJob => /\ Len(line) = Len(queue)
                    /\ \A i \in 1 .. Len(queue) : line[i] = queue[i].by
  /\ job # NoJob => /\ Len(line) = Len(queue) + 1
                    /\ line[1] = job.by
                    /\ \A i \in 1 .. Len(queue) : line[i + 1] = queue[i].by

DaemonInv == TypeOK /\ PlaceInv /\ LineInv

-----------------------------------------------------------------------------
(* Helpers.                                                                 *)

LEMMA Bounds ==
  /\ MaxJob \in Nat /\ MaxJob >= 1 /\ MaxConf \in Nat /\ MaxPrint \in Nat /\ MaxPrint >= 1
  /\ \A f \in JobFiles : f \in Nat /\ f <= MaxJob
<1>1. MaxJob \in 1 .. 998 /\ MaxConf \in Nat /\ MaxPrint \in Nat \ {0} /\ JobFiles \subseteq 0 .. MaxJob
  BY PrintdConstants
<1> QED BY <1>1

\* What Go and the other updates of one thread leave: the type, and the rest.
LEMMA GoTyped ==
  ASSUME th \in ThType, NEW c \in Client, NEW pc \in Labels, Go(c, pc)
  PROVE  /\ th' \in ThType
         /\ th'[c].pc = pc /\ th'[c].id = th[c].id /\ th'[c].n = th[c].n /\ th'[c].linked = th[c].linked
         /\ \A d \in Client : d # c => th'[d] = th[d]
BY DEF Go, ThType

LEMMA OverwrittenNat ==
  ASSUME NEW old \in Nat, NEW n \in Nat
  PROVE  Overwritten(old, n) \in Nat
<1> DEFINE d == Digits(old) - Digits(n)
<1>1. Power10(d) \in Nat \ {0}
  BY DEF Power10
<1>2. old % Power10(d) \in Nat
  BY <1>1
<1>3. n * Power10(d) \in Nat
  BY <1>1
<1>4. Overwritten(old, n) = IF old = 0 \/ d <= 0 THEN n ELSE (n * Power10(d)) + (old % Power10(d))
  BY DEF Overwritten
<1> HIDE DEF d
<1> QED BY <1>2, <1>3, <1>4

\* TypeOK in parts, one per group of variables.
MainType ==
  /\ main \in {"down", "build", "signal", "unlink", "accept"}
  /\ scan \in SUBSET Jobs /\ drop \in 0 .. MaxJob /\ nextjob \in 1 .. MaxJob + 1
  /\ queue \in Seq(JobType)

ClientType ==
  th \in ThType /\ live \in SUBSET Client /\ ans \in [Client -> {None, "ok", "rejected", "lost"}]

PrinterType ==
  /\ ppc \in PrinterLabels /\ job \in JobType \cup {NoJob} /\ doc \in Docs \cup {NoDoc}
  /\ outcome \in {"none", "ok", "lost", "error"}

ConfigType ==
  printer \in 0 .. MaxConf /\ reread \in BOOLEAN /\ hup \in 0 .. MaxConf /\ want \in 0 .. MaxConf

HistoryType ==
  /\ line \in Seq(Client) /\ printed \in [Client -> 0 .. MaxPrint]
  /\ partial \in SUBSET Client /\ confirmed \in SUBSET Client
  /\ torn \in SUBSET Client /\ cancelled \in SUBSET Client /\ unread \in SUBSET Client

LEMMA TypeParts ==
  /\ TypeOK <=> DiskType /\ MainType /\ ClientType /\ PrinterType /\ ConfigType /\ HistoryType
  /\ TypeOK' <=> DiskType' /\ MainType' /\ ClientType' /\ PrinterType' /\ ConfigType' /\ HistoryType'
BY DEF TypeOK, MemType, MainType, ClientType, PrinterType, ConfigType, HistoryType, ThType

\* A part whose variables a step leaves alone is kept.
LEMMA Frames ==
  ASSUME DaemonInv
  PROVE  /\ UNCHANGED disk => DiskType'
         /\ UNCHANGED mem => MainType'
         /\ UNCHANGED client => ClientType'
         /\ UNCHANGED prt => PrinterType'
         /\ UNCHANGED config => ConfigType'
         /\ UNCHANGED history => HistoryType'
         /\ UNCHANGED <<main, nextjob, th, ppc, job, doc>> => PlaceInv'
         /\ UNCHANGED <<job, queue, line>> => LineInv'
<1> DiskType /\ MainType /\ ClientType /\ PrinterType /\ ConfigType /\ HistoryType /\ PlaceInv /\ LineInv
  BY TypeParts DEF DaemonInv
<1>1. UNCHANGED disk => DiskType'
  BY DEF disk, DiskType
<1>2. UNCHANGED mem => MainType'
  BY DEF mem, MainType
<1>3. UNCHANGED client => ClientType'
  BY DEF client, ClientType
<1>4. UNCHANGED prt => PrinterType'
  BY DEF prt, PrinterType
<1>5. UNCHANGED config => ConfigType'
  BY DEF config, ConfigType
<1>6. UNCHANGED history => HistoryType'
  BY DEF history, HistoryType
<1>7. UNCHANGED <<main, nextjob, th, ppc, job, doc>> => PlaceInv'
  BY DEF PlaceInv, JobsUnlocked
<1>8. UNCHANGED <<job, queue, line>> => LineInv'
  BY DEF LineInv
<1> QED BY <1>1, <1>2, <1>3, <1>4, <1>5, <1>6, <1>7, <1>8

LEMMA InitDaemonInv == Init => DaemonInv
<1> SUFFICES ASSUME Init PROVE DaemonInv
  OBVIOUS
<1> USE Bounds
<1>1. DiskType
  BY DEF Init, DiskType, Jobs
<1>2. MainType
  BY DEF Init, MainType
<1>3. ClientType
  BY DEF Init, ClientType, ThType, NewThread, Labels
<1>4. PrinterType
  BY DEF Init, PrinterType, PrinterLabels
<1>5. ConfigType
  <2>1. reread \in BOOLEAN
    BY DEF Init
  <2>2. printer \in 0 .. MaxConf /\ hup \in 0 .. MaxConf /\ want \in 0 .. MaxConf
    BY DEF Init
  <2> QED BY <2>1, <2>2 DEF ConfigType
<1>6. HistoryType
  BY DEF Init, HistoryType
<1>7. PlaceInv
  BY DEF Init, PlaceInv, NewThread, AtJob, AtDoc, Numbered
<1>8. LineInv
  BY DEF Init, LineInv
<1> QED BY <1>1, <1>2, <1>3, <1>4, <1>5, <1>6, <1>7, <1>8, TypeParts DEF DaemonInv

-----------------------------------------------------------------------------
(* Every step keeps DaemonInv.                                              *)

\* The main thread, the signal thread and the administrator.
LEMMA StartKeeps == DaemonInv /\ Start => DaemonInv'
<1> SUFFICES ASSUME DaemonInv, Start PROVE DaemonInv'
  OBVIOUS
<1> USE Bounds
<1>1. /\ DiskType /\ MainType /\ ClientType /\ PrinterType /\ ConfigType /\ PlaceInv
      /\ UNCHANGED <<disk, client, history, job, queue, line>>
  BY TypeParts DEF DaemonInv, Start, history
<1>2. DiskType' /\ ClientType' /\ HistoryType' /\ LineInv'
  BY <1>1, Frames
<1>3. nextjob' \in 1 .. MaxJob
  BY <1>1 DEF Start, DiskType
<1>4. MainType'
  <2>1. scan' \in SUBSET Jobs /\ UNCHANGED <<drop, queue>> /\ main' = "build"
    BY DEF Start
  <2> QED BY <1>1, <1>3, <2>1 DEF MainType
<1>5. PrinterType' /\ ConfigType'
  BY <1>1 DEF Start, PrinterType, ConfigType, PrinterLabels, DiskType
<1>6. job' = NoJob /\ ppc' = "pick" /\ main' = "build"
  BY <1>1 DEF Start, PlaceInv, AtJob
<1>7. PlaceInv'
  BY <1>1, <1>3, <1>6 DEF PlaceInv, AtJob, AtDoc, client
<1> QED BY <1>2, <1>4, <1>5, <1>7, TypeParts DEF DaemonInv

LEMMA BuildKeeps == DaemonInv /\ MainStep => DaemonInv'
<1> SUFFICES ASSUME DaemonInv, MainStep PROVE DaemonInv'
  OBVIOUS
<1> USE Bounds
<1>1. DiskType /\ MainType /\ ClientType /\ PrinterType /\ ConfigType /\ HistoryType /\ PlaceInv /\ LineInv
  BY TypeParts DEF DaemonInv
<1>2. CASE BuildSignal
  <2>1. DiskType' /\ ClientType' /\ ConfigType' /\ HistoryType' /\ LineInv'
    BY <1>2, Frames DEF BuildSignal, history
  <2>2. MainType' /\ PrinterType'
    BY <1>1, <1>2 DEF BuildSignal, Signal, MainType, PrinterType, PrinterLabels
  <2>3. PlaceInv'
    BY <1>1, <1>2 DEF BuildSignal, Signal, PlaceInv, JobsUnlocked, client, AtJob, AtDoc
  <2> QED BY <2>1, <2>2, <2>3, TypeParts DEF DaemonInv
<1>3. CASE BuildUnlink
  <2>1. ClientType' /\ PrinterType' /\ ConfigType' /\ HistoryType' /\ LineInv'
    BY <1>3, Frames DEF BuildUnlink, prt, history
  <2>2. DiskType'
    BY <1>1, <1>3 DEF BuildUnlink, DiskType
  <2>4. MainType'
    BY <1>1, <1>3 DEF BuildUnlink, MainType
  <2>3. PlaceInv'
    BY <1>1, <1>3 DEF BuildUnlink, PlaceInv, JobsUnlocked, client, prt
  <2> QED BY <2>1, <2>2, <2>3, <2>4, TypeParts DEF DaemonInv
<1>4. CASE BuildDone
  <2>1. DiskType' /\ ClientType' /\ PrinterType' /\ ConfigType' /\ HistoryType' /\ LineInv'
    BY <1>4, Frames DEF BuildDone, prt, history
  <2>2. MainType'
    BY <1>1, <1>4 DEF BuildDone, MainType
  <2>3. PlaceInv'
    BY <1>1, <1>4 DEF BuildDone, PlaceInv, JobsUnlocked, client, prt
  <2> QED BY <2>1, <2>2, <2>3, TypeParts DEF DaemonInv
<1>5. ASSUME NEW j \in Jobs, BuildAdd(j) PROVE DaemonInv'
  <2>1. DiskType' /\ ClientType' /\ PrinterType' /\ ConfigType'
    BY <1>5, Frames DEF BuildAdd, prt
  <2> DEFINE q == [id |-> j, by |-> ctl[j]]
  <2>2. q \in JobType /\ q.by \in Client /\ queue' = Append(queue, q) /\ line' = Append(line, q.by)
    BY <1>5 DEF BuildAdd, Append1, JobType
  <2> HIDE DEF q
  <2>3. MainType' /\ HistoryType'
    BY <1>1, <1>5, <2>2 DEF BuildAdd, MainType, HistoryType
  <2>4. PlaceInv'
    BY <1>1, <1>5 DEF BuildAdd, PlaceInv, JobsUnlocked, client, prt
  <2>5. LineInv'
    BY <1>1, <1>5, <2>2 DEF BuildAdd, LineInv, prt, MainType, HistoryType
  <2> QED BY <2>1, <2>3, <2>4, <2>5, TypeParts DEF DaemonInv
<1>6. ASSUME NEW j \in Jobs, BuildSkip(j) PROVE DaemonInv'
  <2>1. DiskType' /\ ClientType' /\ PrinterType' /\ ConfigType' /\ PlaceInv' /\ LineInv'
    BY <1>6, Frames DEF BuildSkip, prt, client
  <2>2. MainType' /\ HistoryType'
    BY <1>1, <1>6 DEF BuildSkip, MainType, HistoryType
  <2> QED BY <2>1, <2>2, TypeParts DEF DaemonInv
<1>7. ASSUME NEW j \in Jobs, BuildDrop(j) PROVE DaemonInv'
  <2>1. ClientType' /\ PrinterType' /\ ConfigType' /\ LineInv'
    BY <1>7, Frames DEF BuildDrop, prt
  <2>2. DiskType' /\ MainType'
    BY <1>1, <1>7 DEF BuildDrop, DiskType, MainType, Jobs
  <2>3. PlaceInv'
    BY <1>1, <1>7 DEF BuildDrop, PlaceInv, JobsUnlocked, client, prt
  <2>4. HistoryType'
    BY <1>1, <1>7 DEF BuildDrop, HistoryType
  <2> QED BY <2>1, <2>2, <2>3, <2>4, TypeParts DEF DaemonInv
<1> QED BY <1>2, <1>3, <1>4, <1>5, <1>6, <1>7 DEF MainStep

LEMMA AdminKeeps == DaemonInv /\ (Sighup \/ EditConfig) => DaemonInv'
<1> USE Bounds
<1>1. ASSUME DaemonInv, Sighup PROVE DaemonInv'
  <2>1. DiskType' /\ MainType' /\ ClientType' /\ PrinterType' /\ HistoryType' /\ PlaceInv' /\ LineInv'
    BY <1>1, Frames DEF Sighup, mem, client, prt, history
  <2>2. ConfigType'
    BY <1>1, TypeParts DEF DaemonInv, Sighup, DiskType, ConfigType
  <2> QED BY <2>1, <2>2, TypeParts DEF DaemonInv
<1>2. ASSUME DaemonInv, EditConfig PROVE DaemonInv'
  <2>1. /\ MainType' /\ ClientType' /\ PrinterType' /\ ConfigType' /\ HistoryType'
        /\ PlaceInv' /\ LineInv'
    BY <1>2, Frames DEF EditConfig, mem, client, prt, history
  <2>2. DiskType'
    BY <1>2, TypeParts DEF DaemonInv, EditConfig, DiskType
  <2> QED BY <2>1, <2>2, TypeParts DEF DaemonInv
<1> QED BY <1>1, <1>2

-----------------------------------------------------------------------------
\* A step of client thread c that changes nothing but this thread, its answer and
\* the spool directory, and neither takes nor gives back joblock.
LEMMA ThreadKeeps ==
  ASSUME DaemonInv, NEW c \in Client,
         DiskType', ClientType',
         UNCHANGED <<mem, prt, config, history>>,
         main # "down",
         \A d \in Client : /\ th[d].pc = "wrap" => th'[d].pc = "wrap"
                           /\ th'[d].pc \in Numbered => th'[d].id \in Jobs
  PROVE  DaemonInv'
<1>1. MainType' /\ PrinterType' /\ ConfigType' /\ HistoryType' /\ LineInv'
  BY Frames DEF mem, prt, history
<1>2. PlaceInv'
  BY DEF DaemonInv, PlaceInv, JobsUnlocked, mem, prt
<1> QED BY <1>1, <1>2, TypeParts DEF DaemonInv

\* A thread that is neither new nor done has a daemon.
LEMMA ThreadUp ==
  ASSUME DaemonInv, NEW c \in Client, th[c].pc \notin {"new", "done"}
  PROVE  main # "down"
BY DEF DaemonInv, PlaceInv

LEMMA ReplyTyped ==
  ASSUME ClientType, NEW c \in Client, NEW a \in {"ok", "rejected"}, Reply(c, a)
  PROVE  ans' \in [Client -> {None, "ok", "rejected", "lost"}]
BY DEF ClientType, Reply

LEMMA AcceptKeeps == ASSUME DaemonInv, NEW c \in Client, Accept(c) PROVE DaemonInv'
<1>1. ClientType /\ DiskType' /\ main # "down" /\ UNCHANGED <<mem, prt, config, history, live, ans>>
  BY TypeParts, Frames DEF DaemonInv, Accept
<1>2. /\ ClientType'
      /\ \A d \in Client : /\ th[d].pc = "wrap" => th'[d].pc = "wrap"
                           /\ th'[d].pc \in Numbered => th'[d].id \in Jobs
  BY <1>1 DEF Accept, ClientType, ThType, Labels, Numbered, DaemonInv, PlaceInv
<1> QED BY <1>1, <1>2, ThreadKeeps

\* The steps that only move thread c on, or also answer the client.
LEMMA MoveKeeps ==
  ASSUME DaemonInv, NEW c \in Client, NEW pc \in Labels, Go(c, pc),
         DiskType', ans' \in [Client -> {None, "ok", "rejected", "lost"}],
         UNCHANGED <<mem, live, prt, config, history>>,
         th[c].pc \notin {"new", "done", "wrap"},
         pc \in Numbered => th[c].pc \in Numbered
  PROVE  DaemonInv'
<1>1. ClientType /\ main # "down"
  BY ThreadUp, TypeParts DEF DaemonInv
<1>2. /\ th' \in ThType /\ th'[c].pc = pc /\ th'[c].id = th[c].id
      /\ \A d \in Client : d # c => th'[d] = th[d]
  BY <1>1, GoTyped DEF ClientType
<1>3. /\ ClientType'
      /\ \A d \in Client : /\ th[d].pc = "wrap" => th'[d].pc = "wrap"
                           /\ th'[d].pc \in Numbered => th'[d].id \in Jobs
  BY <1>1, <1>2 DEF ClientType, DaemonInv, PlaceInv
<1> QED BY <1>1, <1>3, ThreadKeeps

LEMMA FailKeeps == ASSUME DaemonInv, NEW c \in Client, ClientFails(c) PROVE DaemonInv'
<1>1. ClientType /\ DiskType'
  BY TypeParts, Frames DEF DaemonInv, ClientFails, HeaderFails, CreatDataFails, WriteDataFails,
     CreatCtlFails, WriteCtlFails
<1>2. Reply(c, "rejected")
  BY DEF ClientFails, HeaderFails, CreatDataFails, WriteDataFails, CreatCtlFails, WriteCtlFails
<1>3. ans' \in [Client -> {None, "ok", "rejected", "lost"}]
  BY <1>1, <1>2, ReplyTyped
<1>4. UNCHANGED <<mem, live, prt, config, history>>
  BY DEF ClientFails, HeaderFails, CreatDataFails, WriteDataFails, CreatCtlFails, WriteCtlFails
<1>5. /\ th[c].pc \notin {"new", "done", "wrap"}
      /\ Go(c, "done") \/ (th[c].pc \in Numbered /\ (Go(c, "unlinkdata") \/ Go(c, "unlinkctl")))
  BY DEF ClientFails, HeaderFails, CreatDataFails, WriteDataFails, CreatCtlFails, WriteCtlFails, Numbered
<1>6. {"done", "unlinkdata", "unlinkctl"} \subseteq Labels /\ "done" \notin Numbered
  BY DEF Labels, Numbered
<1> QED BY <1>1, <1>3, <1>4, <1>5, <1>6, MoveKeeps

LEMMA ClientKeeps == ASSUME DaemonInv, NEW c \in Client, ClientStep(c) PROVE DaemonInv'
<1> USE Bounds
<1>1. /\ DiskType /\ MainType /\ ClientType /\ PrinterType /\ HistoryType /\ PlaceInv /\ LineInv
      /\ ans \in [Client -> {None, "ok", "rejected", "lost"}] /\ th \in ThType
  BY TypeParts DEF DaemonInv, ClientType
<1>2. CASE ReadHeader(c) \/ EndOfData(c)
  <2>1. DiskType' /\ ans' = ans /\ th[c].pc \notin {"new", "done", "wrap"}
    BY <1>2, Frames DEF ReadHeader, EndOfData
  <2>2. Go(c, "jobno") \/ (th[c].pc \in Numbered /\ Go(c, "creatctl"))
    BY <1>2 DEF ReadHeader, EndOfData, Numbered
  <2>3. /\ {"jobno", "creatctl"} \subseteq Labels /\ "jobno" \notin Numbered
        /\ UNCHANGED <<mem, live, prt, config, history>>
    BY <1>2 DEF ReadHeader, EndOfData, Labels, Numbered
  <2> QED BY <1>1, <2>1, <2>2, <2>3, MoveKeeps
<1>3. CASE GetNewjobno(c)
  <2>1. main # "down" /\ nextjob \in 1 .. MaxJob
    <3>1. main # "down" /\ JobsUnlocked
      BY <1>3, ThreadUp DEF GetNewjobno
    <3>2. nextjob # MaxJob + 1
      BY <1>1, <3>1 DEF PlaceInv
    <3> QED BY <1>1, <3>1, <3>2 DEF MainType
  <2>2. DiskType' /\ PrinterType' /\ ConfigType' /\ HistoryType' /\ LineInv'
    BY <1>3, Frames DEF GetNewjobno, prt, history
  <2>3. MainType' /\ nextjob' = nextjob + 1
    BY <1>1, <1>3, <2>1 DEF GetNewjobno, MainType
  <2>4. /\ ClientType'
        /\ nextjob = MaxJob => th'[c].pc = "wrap"
        /\ \A d \in Client : th'[d].pc \in Numbered => th'[d].id \in Jobs
    BY <1>1, <1>3, <2>1 DEF GetNewjobno, ClientType, ThType, Labels, PlaceInv, Jobs
  <2>5. nextjob' = MaxJob + 1 => ~JobsUnlocked'
    BY <1>1, <1>3, <2>1, <2>3, <2>4 DEF JobsUnlocked
  <2>6. PlaceInv'
    BY <1>1, <1>3, <2>1, <2>4, <2>5 DEF GetNewjobno, PlaceInv, prt
  <2> QED BY <2>2, <2>3, <2>4, <2>6, TypeParts DEF DaemonInv
<1>4. CASE WrapJobno(c)
  <2>1. main # "down"
    BY <1>4, ThreadUp DEF WrapJobno
  <2>2. DiskType' /\ PrinterType' /\ ConfigType' /\ HistoryType' /\ LineInv'
    BY <1>4, Frames DEF WrapJobno, prt, history
  <2>3. MainType' /\ nextjob' = 1
    BY <1>1, <1>4 DEF WrapJobno, MainType
  <2>4. ClientType' /\ \A d \in Client : th'[d].pc \in Numbered => th'[d].id \in Jobs
    <3>1. th[c].pc = "wrap" /\ Go(c, "creat") /\ UNCHANGED <<live, ans>>
      BY <1>4 DEF WrapJobno
    <3>2. /\ th' \in ThType /\ th'[c].pc = "creat" /\ th'[c].id = th[c].id
          /\ \A d \in Client : d # c => th'[d] = th[d]
      BY <1>1, <3>1, GoTyped DEF ClientType, Labels
    <3>3. \A d \in Client : th[d].pc \in Numbered => th[d].id \in Jobs
      BY <1>1 DEF PlaceInv
    <3> QED BY <1>1, <3>1, <3>2, <3>3 DEF ClientType, Numbered
  <2>5. PlaceInv'
    BY <1>1, <1>4, <2>1, <2>3, <2>4 DEF WrapJobno, PlaceInv, prt
  <2> QED BY <2>2, <2>3, <2>4, <2>5, TypeParts DEF DaemonInv
<1>5. CASE CreatData(c) \/ ReadData(c) \/ CreatCtl(c)
  <2>1. main # "down" /\ UNCHANGED <<mem, prt, config, history>>
    BY <1>5, ThreadUp DEF CreatData, ReadData, CreatCtl
  <2>2. DiskType'
    <3>1. [by |-> c, n |-> 0] \in Docs /\ [by |-> c, n |-> th[c].n + 1] \in Docs
      BY <1>1 DEF Docs, ThType
    <3> QED BY <1>1, <1>5, <3>1 DEF CreatData, ReadData, CreatCtl, DiskType
  <2>3. ClientType'
    BY <1>1, <1>5 DEF CreatData, ReadData, CreatCtl, ClientType, ThType, Labels
  <2>4. ASSUME NEW d \in Client
        PROVE  /\ th[d].pc = "wrap" => th'[d].pc = "wrap"
               /\ th'[d].pc \in Numbered => th'[d].id \in Jobs
    BY <1>1, <1>5 DEF CreatData, ReadData, CreatCtl, ThType, Numbered, PlaceInv
  <2> QED BY <2>1, <2>2, <2>3, <2>4, ThreadKeeps
<1>6. CASE WriteCtl(c) \/ UnlinkCtl(c) \/ UnlinkData(c)
  <2>1. DiskType'
    BY <1>1, <1>6 DEF WriteCtl, UnlinkCtl, UnlinkData, DiskType
  <2>2. ans' = ans /\ th[c].pc \in Numbered \ {"wrap"} /\ UNCHANGED <<mem, live, prt, config, history>>
    BY <1>6 DEF WriteCtl, UnlinkCtl, UnlinkData, Numbered
  <2>3. (Go(c, "respond") \/ Go(c, "unlinkdata") \/ Go(c, "done"))
    BY <1>6 DEF WriteCtl, UnlinkCtl, UnlinkData
  <2>4. {"respond", "unlinkdata", "done"} \subseteq Labels /\ "new" \notin Numbered /\ "done" \notin Numbered
    BY DEF Labels, Numbered
  <2> QED BY <1>1, <2>1, <2>2, <2>3, <2>4, MoveKeeps
<1>7. CASE Respond(c)
  <2>1. DiskType' /\ ans' \in [Client -> {None, "ok", "rejected", "lost"}]
    BY <1>1, <1>7, Frames, ReplyTyped DEF Respond
  <2>2. "add" \in Labels /\ Go(c, "add") /\ th[c].pc = "respond" /\ "respond" \in Numbered
    BY <1>7 DEF Respond, Labels, Numbered
  <2>3. UNCHANGED <<mem, live, prt, config, history>>
    BY <1>7 DEF Respond
  <2> QED BY <2>1, <2>2, <2>3, MoveKeeps
<1>8. CASE AddJob(c)
  <2>1. main # "down" /\ DiskType' /\ PrinterType' /\ ConfigType'
    BY <1>8, ThreadUp, Frames DEF AddJob
  <2> DEFINE q == [id |-> th[c].id, by |-> c]
  <2>2. queue' = Append(queue, q) /\ line' = Append(line, q.by) /\ q.by = c
    BY <1>8 DEF AddJob, Append1
  <2>3. q \in JobType
    BY <1>1, <1>8 DEF AddJob, JobType, PlaceInv, Numbered
  <2> HIDE DEF q
  <2>4. MainType' /\ HistoryType'
    BY <1>1, <1>8, <2>2, <2>3 DEF AddJob, MainType, HistoryType
  <2>5. /\ ClientType'
        /\ \A d \in Client : /\ th[d].pc = "wrap" => th'[d].pc = "wrap"
                             /\ th'[d].pc \in Numbered => th'[d].id \in Jobs
    <3>1. th[c].pc = "add" /\ Go(c, "signal") /\ UNCHANGED <<live, ans>>
      BY <1>8 DEF AddJob
    <3>2. /\ th' \in ThType /\ th'[c].pc = "signal" /\ th'[c].id = th[c].id
          /\ \A d \in Client : d # c => th'[d] = th[d]
      BY <1>1, <3>1, GoTyped DEF ClientType, Labels
    <3>3. \A d \in Client : th[d].pc \in Numbered => th[d].id \in Jobs
      BY <1>1 DEF PlaceInv
    <3> QED BY <1>1, <3>1, <3>2, <3>3 DEF ClientType, Numbered
  <2>6. PlaceInv'
    BY <1>1, <1>8, <2>1, <2>5 DEF AddJob, PlaceInv, JobsUnlocked, prt
  <2>7. LineInv'
    <3>1. queue \in Seq(JobType) /\ line \in Seq(Client) /\ LineInv /\ job' = job
      BY <1>1, <1>8 DEF AddJob, prt, MainType, HistoryType
    <3>2. /\ Len(queue') = Len(queue) + 1 /\ queue'[Len(queue) + 1] = q
          /\ \A i \in 1 .. Len(queue) : queue'[i] = queue[i]
      BY <2>2, <2>3, <3>1
    <3>3. /\ Len(line') = Len(line) + 1 /\ line'[Len(line) + 1] = q.by
          /\ \A i \in 1 .. Len(line) : line'[i] = line[i]
      BY <2>2, <3>1
    <3>4. Len(queue) \in Nat /\ Len(line) \in Nat
      BY <3>1
    <3>5. ASSUME NEW i \in 1 .. Len(queue') PROVE i \in 1 .. Len(queue) \/ i = Len(queue) + 1
      BY <3>2, <3>4
    <3>6. CASE job = NoJob
      <4>1. Len(line) = Len(queue) /\ \A i \in 1 .. Len(queue) : line[i] = queue[i].by
        BY <3>1, <3>6 DEF LineInv
      <4>2. \A i \in 1 .. Len(queue') : line'[i] = queue'[i].by
        BY <3>2, <3>3, <3>5, <4>1
      <4> QED BY <3>1, <3>2, <3>3, <3>6, <4>1, <4>2 DEF LineInv
    <3>7. CASE job # NoJob
      <4>1. /\ Len(line) = Len(queue) + 1 /\ line[1] = job.by
            /\ \A i \in 1 .. Len(queue) : line[i + 1] = queue[i].by
        BY <3>1, <3>7 DEF LineInv
      <4>2. 1 \in 1 .. Len(line) /\ \A i \in 1 .. Len(queue) : i + 1 \in 1 .. Len(line)
        BY <3>4, <4>1
      <4>3. \A i \in 1 .. Len(queue') : line'[i + 1] = queue'[i].by
        BY <3>2, <3>3, <3>5, <4>1, <4>2
      <4> QED BY <3>1, <3>2, <3>3, <3>7, <4>1, <4>2, <4>3 DEF LineInv
    <3> QED BY <3>6, <3>7
  <2> QED BY <2>1, <2>4, <2>5, <2>6, <2>7, TypeParts DEF DaemonInv
<1>9. CASE SignalJob(c)
  <2>1. main # "down" /\ DiskType' /\ MainType' /\ ConfigType' /\ HistoryType' /\ LineInv'
    BY <1>9, ThreadUp, Frames DEF SignalJob, mem, history
  <2>2. /\ ClientType'
        /\ \A d \in Client : /\ th[d].pc = "wrap" => th'[d].pc = "wrap"
                             /\ th'[d].pc \in Numbered => th'[d].id \in Jobs
    <3>1. th[c].pc = "signal" /\ Go(c, "done") /\ UNCHANGED <<live, ans>>
      BY <1>9 DEF SignalJob
    <3>2. /\ th' \in ThType /\ th'[c].pc = "done" /\ th'[c].id = th[c].id
          /\ \A d \in Client : d # c => th'[d] = th[d]
      BY <1>1, <3>1, GoTyped DEF ClientType, Labels
    <3>3. \A d \in Client : th[d].pc \in Numbered => th[d].id \in Jobs
      BY <1>1 DEF PlaceInv
    <3> QED BY <1>1, <3>1, <3>2, <3>3 DEF ClientType, Numbered
  <2>3. PrinterType'
    BY <1>1, <1>9 DEF SignalJob, Signal, PrinterType, PrinterLabels
  <2>4. PlaceInv'
    BY <1>1, <1>9, <2>1, <2>2 DEF SignalJob, Signal, PlaceInv, JobsUnlocked, mem, AtJob, AtDoc
  <2> QED BY <2>1, <2>2, <2>3, <2>4, TypeParts DEF DaemonInv
<1> QED BY <1>2, <1>3, <1>4, <1>5, <1>6, <1>7, <1>8, <1>9 DEF ClientStep

\* A step of the printer thread that keeps the queue, the job and the history.
LEMMA PrinterMoves ==
  ASSUME DaemonInv, UNCHANGED <<mem, client, job, line>>,
         DiskType', PrinterType', ConfigType', HistoryType',
         ppc # "down" /\ ppc' # "down",
         ppc \in AtJob <=> ppc' \in AtJob,
         ppc' \in AtDoc => doc' \in Docs
  PROVE  DaemonInv'
<1>1. MainType' /\ ClientType' /\ LineInv'
  BY Frames DEF mem
<1>2. PlaceInv'
  BY DEF DaemonInv, PlaceInv, JobsUnlocked, mem, client
<1> QED BY <1>1, <1>2, TypeParts DEF DaemonInv

\* The places of the printer thread that only move it on.
LEMMA PrinterWaits ==
  ASSUME DaemonInv,
         Wait \/ SpuriousWakeup \/ Contact \/ ContactFails \/ SendFails \/ Slept
  PROVE  DaemonInv'
<1>1. UNCHANGED <<disk, mem, client, job, doc, outcome, config, history>>
  BY DEF Wait, SpuriousWakeup, Contact, ContactFails, SendFails, Slept
<1>2. /\ ppc # "down" /\ ppc' # "down" /\ ppc' \in PrinterLabels /\ (ppc \in AtJob <=> ppc' \in AtJob)
      /\ ppc' \in AtDoc => ppc \in AtDoc
  BY DEF Wait, SpuriousWakeup, Contact, ContactFails, SendFails, Slept, AtJob, AtDoc, PrinterLabels
<1>3. DiskType' /\ ConfigType' /\ HistoryType' /\ PrinterType'
  BY <1>1, <1>2, Frames, TypeParts DEF PrinterType, DaemonInv
<1>4. ppc' \in AtDoc => doc' \in Docs
  BY <1>1, <1>2 DEF DaemonInv, PlaceInv
<1> QED BY <1>1, <1>2, <1>3, <1>4, PrinterMoves DEF history

LEMMA RealJob == \A q \in JobType : q # NoJob
BY Bounds DEF JobType, NoJob, Jobs

LEMMA PickKeeps == DaemonInv /\ Pick => DaemonInv'
<1> SUFFICES ASSUME DaemonInv, Pick PROVE DaemonInv'
  OBVIOUS
<1>1. MainType /\ PrinterType /\ ConfigType /\ PlaceInv /\ LineInv /\ HistoryType
  BY TypeParts DEF DaemonInv
<1>2. DiskType' /\ ClientType' /\ HistoryType'
  BY Frames DEF Pick
<1>3. job = NoJob /\ job' = queue[1] /\ job' \in JobType /\ job' # NoJob
  <2>1. job = NoJob
    BY <1>1 DEF Pick, PlaceInv, AtJob
  <2>2. job' = queue[1] /\ job' \in JobType
    BY <1>1 DEF Pick, MainType
  <2> QED BY <2>1, <2>2, RealJob
<1>4. /\ queue' \in Seq(JobType) /\ Len(queue') = Len(queue) - 1 /\ Len(queue) >= 1
      /\ \A i \in 1 .. Len(queue') : queue'[i] = queue[i + 1]
  BY <1>1 DEF Pick, MainType
<1>5. MainType'
  BY <1>1, <1>4 DEF Pick, MainType
<1>6. PrinterType' /\ ConfigType'
  BY <1>1, <1>3 DEF Pick, PrinterType, PrinterLabels, ConfigType
<1>7. PlaceInv'
  BY <1>1, <1>3 DEF Pick, PlaceInv, JobsUnlocked, client, AtJob, AtDoc
<1>8. LineInv'
  <2>1. Len(line) = Len(queue) /\ \A i \in 1 .. Len(queue) : line[i] = queue[i].by
    BY <1>1, <1>3 DEF LineInv
  <2>2. line' = line /\ Len(queue) \in Nat /\ Len(queue') \in Nat
    BY <1>1, <1>4 DEF Pick, history, MainType
  <2>3. Len(line') = Len(queue') + 1 /\ line'[1] = job'.by
    BY <1>3, <1>4, <2>1, <2>2
  <2>4. \A i \in 1 .. Len(queue') : line'[i + 1] = queue'[i].by
    BY <1>4, <2>1, <2>2
  <2> QED BY <1>3, <2>3, <2>4 DEF LineInv
<1> QED BY <1>2, <1>5, <1>6, <1>7, <1>8, TypeParts DEF DaemonInv

LEMMA PrepareKeeps ==
  ASSUME DaemonInv, UpdateJobno \/ CheckReread \/ InitPrinter \/ OpenData
  PROVE  DaemonInv'
<1> USE Bounds
<1>1. DiskType /\ MainType /\ PrinterType /\ ConfigType /\ PlaceInv
  BY TypeParts DEF DaemonInv
<1>2. CASE UpdateJobno
  <2>1. ConfigType' /\ HistoryType' /\ PrinterType'
    BY <1>1, <1>2, Frames DEF UpdateJobno, PrinterType, PrinterLabels
  <2>2. Overwritten(jobfile, nextjob) \in Nat
    <3>1. jobfile \in Nat /\ nextjob \in Nat
      BY <1>1 DEF DiskType, MainType
    <3> QED BY <3>1, OverwrittenNat
  <2>3. DiskType'
    BY <1>1, <1>2, <2>2 DEF UpdateJobno, DiskType
  <2> QED BY <1>2, <2>1, <2>3, PrinterMoves DEF UpdateJobno, AtJob, AtDoc, history
<1>3. CASE CheckReread
  <2>1. DiskType' /\ HistoryType' /\ PrinterType'
    BY <1>1, <1>3, Frames DEF CheckReread, PrinterType, PrinterLabels
  <2>2. ConfigType'
    BY <1>1, <1>3 DEF CheckReread, ConfigType
  <2> QED BY <1>3, <2>1, <2>2, PrinterMoves DEF CheckReread, AtJob, AtDoc, history
<1>4. CASE InitPrinter
  <2>1. DiskType' /\ HistoryType' /\ PrinterType'
    BY <1>1, <1>4, Frames DEF InitPrinter, PrinterType, PrinterLabels
  <2>2. ConfigType'
    BY <1>1, <1>4 DEF InitPrinter, ConfigType, DiskType
  <2> QED BY <1>4, <2>1, <2>2, PrinterMoves DEF InitPrinter, AtJob, AtDoc, history
<1>5. CASE OpenData
  <2>1. DiskType' /\ ConfigType' /\ HistoryType'
    BY <1>5, Frames DEF OpenData
  <2>2. doc' \in Docs
    BY <1>1, <1>5 DEF OpenData, PlaceInv, AtJob, JobType, DiskType
  <2>3. PrinterType'
    BY <1>1, <1>5, <2>2 DEF OpenData, PrinterType, PrinterLabels
  <2> QED BY <1>5, <2>1, <2>2, <2>3, PrinterMoves DEF OpenData, AtJob, history
<1> QED BY <1>2, <1>3, <1>4, <1>5

LEMMA SendKeeps ==
  ASSUME DaemonInv, StatusOk \/ StatusBad \/ \E o \in {"ok", "lost", "error"} : Send(o)
  PROVE  DaemonInv'
<1> USE Bounds
<1>1. DiskType /\ PrinterType /\ HistoryType /\ PlaceInv
  BY TypeParts DEF DaemonInv
<1>2. CASE StatusOk
  <2>1. DiskType' /\ ConfigType' /\ PrinterType'
    BY <1>1, <1>2, Frames DEF StatusOk, PrinterType, PrinterLabels
  <2>2. HistoryType'
    BY <1>1, <1>2 DEF StatusOk, HistoryType, PlaceInv, AtJob, JobType
  <2> QED BY <1>1, <1>2, <2>1, <2>2, PrinterMoves DEF StatusOk, AtJob, AtDoc, PlaceInv
<1>3. CASE StatusBad
  <2>1. DiskType' /\ ConfigType' /\ HistoryType' /\ PrinterType'
    BY <1>1, <1>3, Frames DEF StatusBad, PrinterType, PrinterLabels
  <2> QED BY <1>1, <1>3, <2>1, PrinterMoves DEF StatusBad, AtJob, AtDoc, PlaceInv, history
<1>4. ASSUME NEW o \in {"ok", "lost", "error"}, Send(o) PROVE DaemonInv'
  <2>1. DiskType' /\ ConfigType' /\ PrinterType'
    BY <1>1, <1>4, Frames DEF Send, PrinterType, PrinterLabels
  <2>2. Doc.by \in Client
    BY <1>1, <1>4 DEF Send, Doc, PlaceInv, AtJob, AtDoc, JobType, Docs, DiskType
  <2>3. printed' \in [Client -> 0 .. MaxPrint] /\ partial' \in SUBSET Client
    BY <1>1, <1>4, <2>2 DEF Send, HistoryType
  <2>4. HistoryType'
    BY <1>1, <1>4, <2>3 DEF Send, HistoryType
  <2> QED BY <1>1, <1>4, <2>1, <2>4, PrinterMoves DEF Send, AtJob, AtDoc, PlaceInv
<1> QED BY <1>2, <1>3, <1>4

LEMMA RemoveDataKeeps == DaemonInv /\ RemoveData => DaemonInv'
<1> SUFFICES ASSUME DaemonInv, RemoveData PROVE DaemonInv'
  OBVIOUS
<1>1. DiskType /\ ClientType /\ PrinterType /\ PlaceInv
  BY TypeParts DEF DaemonInv
<1>2. MainType' /\ ConfigType' /\ HistoryType' /\ LineInv'
  BY Frames DEF RemoveData, mem, history
<1>3. DiskType' /\ PrinterType'
  BY <1>1 DEF RemoveData, DiskType, PrinterType, PrinterLabels
<1>4. /\ ClientType'
      /\ \A c \in Client : th'[c].pc = th[c].pc /\ th'[c].id = th[c].id
  BY <1>1 DEF RemoveData, Unlinked, ClientType, ThType
<1>5. PlaceInv'
  BY <1>1, <1>4 DEF RemoveData, PlaceInv, JobsUnlocked, mem, AtJob, AtDoc
<1> QED BY <1>2, <1>3, <1>4, <1>5, TypeParts DEF DaemonInv

\* The job in hand is over: line loses its first client.
LEMMA LineOver ==
  ASSUME DaemonInv, job \in JobType, job' = NoJob, line' = Tail(line), queue' = queue
  PROVE  LineInv' /\ line' \in Seq(Client)
<1>1. MainType /\ HistoryType /\ LineInv /\ job # NoJob
  BY TypeParts, RealJob DEF DaemonInv
<1>2. line \in Seq(Client) /\ Len(line) = Len(queue) + 1 /\ Len(queue) \in Nat
  BY <1>1 DEF LineInv, HistoryType, MainType
<1>3. /\ line' \in Seq(Client) /\ Len(line') = Len(queue)
      /\ \A i \in 1 .. Len(queue) : line'[i] = line[i + 1]
  BY <1>2
<1> QED BY <1>1, <1>3 DEF LineInv

LEMMA OverKeeps == ASSUME DaemonInv, OpenFails \/ RemoveCtl PROVE DaemonInv'
<1>1. DiskType /\ ClientType /\ PrinterType /\ HistoryType /\ PlaceInv
  BY TypeParts DEF DaemonInv
<1>2. /\ job \in JobType /\ job' = NoJob /\ ppc' = "pick" /\ ppc # "down" /\ line' = Tail(line)
      /\ UNCHANGED <<mem, config>>
  BY <1>1 DEF OpenFails, RemoveCtl, PlaceInv, AtJob
<1>3. MainType' /\ ConfigType' /\ LineInv' /\ line' \in Seq(Client)
  BY <1>2, Frames, LineOver DEF mem
<1>4. DiskType'
  BY <1>1 DEF OpenFails, RemoveCtl, DiskType, disk
<1>5. PrinterType'
  BY <1>1, <1>2 DEF OpenFails, RemoveCtl, PrinterType, PrinterLabels
<1>6. HistoryType'
  BY <1>1, <1>2, <1>3 DEF OpenFails, RemoveCtl, HistoryType, JobType
<1>7. /\ ClientType'
      /\ \A c \in Client : th'[c].pc = th[c].pc /\ th'[c].id = th[c].id
  <2>1. CASE OpenFails
    BY <1>1, <2>1 DEF OpenFails, client, ClientType
  <2>2. CASE RemoveCtl
    <3>1. ASSUME NEW c \in Client
          PROVE  /\ th'[c] \in [pc : Labels, id : 0 .. MaxJob, n : Nat, linked : BOOLEAN]
                 /\ th'[c].pc = th[c].pc /\ th'[c].id = th[c].id
      <4>1. th[c] \in [pc : Labels, id : 0 .. MaxJob, n : Nat, linked : BOOLEAN]
        BY <1>1 DEF ClientType, ThType
      <4>2. th'[c] \in {th[c], [th[c] EXCEPT !.linked = FALSE]}
        BY <2>2 DEF RemoveCtl, Unlinked
      <4> QED BY <4>1, <4>2
    <3>2. th' \in ThType
      BY <2>2, <3>1 DEF RemoveCtl, Unlinked, ThType
    <3> QED BY <1>1, <2>2, <3>1, <3>2 DEF RemoveCtl, ClientType
  <2> QED BY <2>1, <2>2
<1>8. PlaceInv'
  BY <1>1, <1>2, <1>7 DEF PlaceInv, JobsUnlocked, mem, AtJob, AtDoc
<1> QED BY <1>3, <1>4, <1>5, <1>6, <1>7, <1>8, TypeParts DEF DaemonInv

LEMMA ReplaceKeeps == DaemonInv /\ ReplaceJob => DaemonInv'
<1> SUFFICES ASSUME DaemonInv, ReplaceJob PROVE DaemonInv'
  OBVIOUS
<1>1. MainType /\ PrinterType /\ HistoryType /\ PlaceInv /\ LineInv
  BY TypeParts DEF DaemonInv
<1>2. DiskType' /\ ClientType' /\ ConfigType' /\ HistoryType'
  BY Frames DEF ReplaceJob
<1>3. job \in JobType /\ job # NoJob /\ job' = NoJob
  BY <1>1, RealJob DEF ReplaceJob, PlaceInv, AtJob
<1>4. /\ queue' \in Seq(JobType) /\ Len(queue') = Len(queue) + 1 /\ queue'[1] = job
      /\ \A i \in 1 .. Len(queue) : queue'[i + 1] = queue[i]
  <2>1. queue \in Seq(JobType) /\ queue' = <<job>> \o queue
    BY <1>1 DEF ReplaceJob, MainType
  <2> QED BY <1>3, <2>1
<1>5. MainType' /\ PrinterType'
  BY <1>1, <1>4 DEF ReplaceJob, MainType, PrinterType, PrinterLabels
<1>6. PlaceInv'
  BY <1>1, <1>3 DEF ReplaceJob, PlaceInv, JobsUnlocked, client, AtJob, AtDoc
<1>7. LineInv'
  <2>1. /\ line' = line /\ Len(line) = Len(queue) + 1 /\ line[1] = job.by /\ Len(queue) \in Nat
        /\ \A i \in 1 .. Len(queue) : line[i + 1] = queue[i].by
    BY <1>1, <1>3 DEF ReplaceJob, history, LineInv, MainType
  <2>2. ASSUME NEW i \in 1 .. Len(queue') PROVE line'[i] = queue'[i].by
    <3>1. CASE i = 1
      BY <3>1, <2>1, <1>4
    <3>2. CASE i # 1
      <4>1. i - 1 \in 1 .. Len(queue) /\ i = (i - 1) + 1
        BY <3>2, <2>1, <1>4
      <4>2. PICK k \in 1 .. Len(queue) : i = k + 1
        BY <4>1
      <4> QED BY <4>2, <2>1, <1>4
    <3> QED BY <3>1, <3>2
  <2> QED BY <1>3, <1>4, <2>1, <2>2 DEF LineInv
<1> QED BY <1>2, <1>5, <1>6, <1>7, TypeParts DEF DaemonInv

\* The end of the daemon, and of a print command.
LEMMA EndKeeps ==
  ASSUME DaemonInv, Stop \/ InitPrinterFails \/ \E c \in Client : ClientDies(c)
  PROVE  DaemonInv'
<1>1. DiskType /\ MainType /\ ClientType /\ ConfigType /\ HistoryType
  BY TypeParts DEF DaemonInv
<1>2. ASSUME NEW c \in Client, ClientDies(c) PROVE DaemonInv'
  <2>1. DiskType' /\ MainType' /\ PrinterType' /\ ConfigType' /\ HistoryType' /\ PlaceInv' /\ LineInv'
    BY <1>2, Frames DEF ClientDies, mem, prt, history
  <2>2. ClientType'
    BY <1>1, <1>2 DEF ClientDies, ClientType
  <2> QED BY <2>1, <2>2, TypeParts DEF DaemonInv
<1>3. ASSUME Down PROVE DaemonInv'
  <2>1. DiskType' /\ MainType' /\ PrinterType'
    BY <1>1, <1>3, Frames, Bounds DEF Down, MainType, PrinterType, PrinterLabels
  <2>2. ConfigType'
    BY <1>1, <1>3 DEF Down, ConfigType
  <2>3. HistoryType'
    <3>1. ppc = "unlinkdata" => job.by \in Client
      BY DEF DaemonInv, PlaceInv, AtJob, JobType
    <3> QED BY <1>1, <1>3, <3>1 DEF Down, HistoryType
  <2>4. ClientType'
    <3>1. th' \in ThType
      <4>1. [NewThread EXCEPT !.pc = "done"] \in [pc : Labels, id : 0 .. MaxJob, n : Nat, linked : BOOLEAN]
        <5>1. NewThread \in [pc : Labels, id : 0 .. MaxJob, n : Nat, linked : BOOLEAN]
          BY Bounds DEF NewThread, Labels
        <5>2. "done" \in Labels
          BY DEF Labels
        <5> QED BY <5>1, <5>2
      <4> QED BY <1>1, <1>3, <4>1 DEF Down, ClientType, ThType
    <3>2. ans' \in [Client -> {None, "ok", "rejected", "lost"}] /\ live' \in SUBSET Client
      BY <1>1, <1>3 DEF Down, ClientType
    <3> QED BY <3>1, <3>2 DEF ClientType
  <2>5. \A c \in Client : th'[c].pc \in {"new", "done"}
    BY <1>1, <1>3 DEF Down, NewThread, ClientType, ThType
  <2>6. PlaceInv'
    BY <1>3, <2>5 DEF Down, PlaceInv, AtJob, AtDoc, Numbered
  <2>7. LineInv'
    BY <1>3 DEF Down, LineInv
  <2> QED BY <2>1, <2>2, <2>3, <2>4, <2>6, <2>7, TypeParts DEF DaemonInv
<1> QED BY <1>2, <1>3 DEF Stop, InitPrinterFails

LEMMA NextDaemonInv == DaemonInv /\ [KillNext]_vars => DaemonInv'
<1>1. ASSUME DaemonInv, Next PROVE DaemonInv'
  <2>1. CASE PrinterStep \/ SpuriousWakeup \/ ContactFails \/ SendFails
    BY <1>1, <2>1, PrinterWaits, PickKeeps, PrepareKeeps, SendKeeps, RemoveDataKeeps, OverKeeps,
       ReplaceKeeps DEF PrinterStep
  <2>2. CASE \E c \in Client : Accept(c) \/ ClientStep(c) \/ ClientFails(c) \/ ClientDies(c)
    BY <1>1, <2>2, AcceptKeeps, ClientKeeps, FailKeeps, EndKeeps
  <2> QED BY <1>1, <2>1, <2>2, StartKeeps, BuildKeeps, AdminKeeps DEF Next
<1>2. ASSUME DaemonInv, UNCHANGED vars PROVE DaemonInv'
  BY <1>2, Frames, TypeParts DEF vars, DaemonInv, mem, client, prt, history
<1> QED BY <1>1, <1>2, EndKeeps DEF KillNext

\* The invariant that the theorems on printd rest on.
LEMMA DaemonInvariant == KillSpec => []DaemonInv
BY InitDaemonInv, NextDaemonInv, PTL DEF KillSpec

\* Every variable of the daemon, and every file it writes, keeps its type, whenever
\* the daemon is stopped: in particular no thread is ever given a job number beyond the
\* largest, although get_newjobno steps over it (nextjob++).
THEOREM PrintdTyped == KillSpec => []TypeOK
BY DaemonInvariant, PTL DEF DaemonInv

\* The job at the printer is the oldest one of add_job that is not over, however often
\* it has been put back by replace_job, for any number of print commands.
THEOREM OldestFirst == KillSpec => []ServedInOrder
<1>1. DaemonInv => ServedInOrder
  <2> SUFFICES ASSUME DaemonInv, job # NoJob PROVE line # <<>> /\ job.by = Head(line)
    BY DEF ServedInOrder
  <2>1. line \in Seq(Client) /\ Len(line) = Len(queue) + 1 /\ line[1] = job.by /\ Len(queue) \in Nat
    BY TypeParts DEF DaemonInv, LineInv, HistoryType, MainType
  <2> QED BY <2>1
<1> QED BY <1>1, DaemonInvariant, PTL

-----------------------------------------------------------------------------
(* The configuration a job is sent with.                                    *)

\* A SIGHUP is pending in reread, in init_printer, or has been honoured.
RereadInv ==
  /\ hup <= conf /\ want <= hup
  /\ ppc \notin {"down", "init"} /\ ~reread => printer >= hup

ConfigInv == DaemonInv /\ RereadInv /\ ConfigHonoured

\* The places between reading the flag and the answer of the printer.
Sending == {"open", "connect", "send", "status"}

\* A step that leaves the configuration alone and does not start to send a job.
LEMMA ConfigFrame ==
  ASSUME RereadInv, ConfigHonoured, UNCHANGED <<conf, config>>,
         \/ ppc' = ppc
         \/ ppc' = "down"
         \/ ppc \notin {"down", "init"} /\ (ppc' \in Sending => ppc \in Sending)
  PROVE  RereadInv' /\ ConfigHonoured'
BY DEF RereadInv, ConfigHonoured, config, Sending

LEMMA NextConfigInv == ConfigInv /\ [KillNext]_vars => ConfigInv'
<1> SUFFICES ASSUME ConfigInv, [KillNext]_vars PROVE RereadInv' /\ ConfigHonoured'
  BY NextDaemonInv DEF ConfigInv
<1>1. /\ conf \in Nat /\ printer \in Nat /\ hup \in Nat /\ want \in Nat
      /\ PlaceInv /\ RereadInv /\ ConfigHonoured
  BY TypeParts, Bounds DEF ConfigInv, DaemonInv, DiskType, ConfigType
<1>2. CASE Start
  BY <1>1, <1>2 DEF Start, disk, RereadInv, ConfigHonoured
<1>3. CASE Sighup
  BY <1>1, <1>3 DEF Sighup, disk, prt, RereadInv, ConfigHonoured
<1>4. CASE EditConfig
  BY <1>1, <1>4 DEF EditConfig, config, prt, RereadInv, ConfigHonoured
<1>5. CASE Pick
  BY <1>1, <1>5 DEF Pick, disk, RereadInv, ConfigHonoured
<1>6. CASE CheckReread
  BY <1>1, <1>6 DEF CheckReread, disk, RereadInv, ConfigHonoured
<1>7. CASE InitPrinter
  BY <1>1, <1>7 DEF InitPrinter, disk, RereadInv, ConfigHonoured
<1>8. CASE Stop \/ InitPrinterFails
  BY <1>1, <1>8 DEF Stop, InitPrinterFails, Down, disk, RereadInv, ConfigHonoured
<1>9. CASE MainStep
  BY <1>1, <1>9, ConfigFrame DEF MainStep, BuildSignal, Signal, BuildUnlink, BuildDone, BuildAdd,
     BuildSkip, BuildDrop, disk, prt, Sending
<1>10. CASE \E c \in Client : Accept(c) \/ ClientStep(c) \/ ClientFails(c) \/ ClientDies(c)
  <2>1. PICK c \in Client : Accept(c) \/ ClientStep(c) \/ ClientFails(c) \/ ClientDies(c)
    BY <1>10
  <2>2. CASE SignalJob(c)
    BY <1>1, <2>2, ConfigFrame DEF SignalJob, Signal, disk, Sending
  <2>3. CASE ~SignalJob(c)
    <3>1. UNCHANGED <<conf, config, prt>>
      BY <2>1, <2>3 DEF Accept, ClientDies, ClientStep, ReadHeader, GetNewjobno, WrapJobno, CreatData,
         ReadData, EndOfData, CreatCtl, WriteCtl, UnlinkCtl, UnlinkData, Respond, AddJob, ClientFails,
         HeaderFails, CreatDataFails, WriteDataFails, CreatCtlFails, WriteCtlFails, disk
    <3> QED BY <1>1, <3>1, ConfigFrame DEF prt
  <2> QED BY <2>2, <2>3
<1>11. CASE \/ Wait \/ SpuriousWakeup \/ UpdateJobno \/ OpenData \/ OpenFails \/ Contact \/ ContactFails
            \/ SendFails \/ StatusOk \/ StatusBad \/ RemoveData \/ RemoveCtl \/ ReplaceJob \/ Slept
            \/ \E o \in {"ok", "lost", "error"} : Send(o)
  <2>1. UNCHANGED <<conf, config>>
    BY <1>11 DEF Wait, SpuriousWakeup, UpdateJobno, OpenData, OpenFails, Contact, ContactFails, SendFails,
       StatusOk, StatusBad, RemoveData, RemoveCtl, ReplaceJob, Slept, Send, disk
  <2>2. ppc \notin {"down", "init"} /\ (ppc' \in Sending => ppc \in Sending)
    BY <1>11 DEF Wait, SpuriousWakeup, UpdateJobno, OpenData, OpenFails, Contact, ContactFails, SendFails,
       StatusOk, StatusBad, RemoveData, RemoveCtl, ReplaceJob, Slept, Send, Sending
  <2> QED BY <1>1, <2>1, <2>2, ConfigFrame
<1>12. CASE UNCHANGED vars
  BY <1>1, <1>12, ConfigFrame DEF vars, disk, prt
<1> QED BY <1>2, <1>3, <1>4, <1>5, <1>6, <1>7, <1>8, <1>9, <1>10, <1>11, <1>12
        DEF KillNext, Next, PrinterStep

\* A SIGHUP that precedes the picking up of a job holds for this job, wherever the
\* signal meets the printer thread and however often the configuration is edited: the
\* flag is cleared before init_printer reads the file, so no SIGHUP is lost.
THEOREM SighupHonoured == KillSpec => []ConfigHonoured
<1>1. Init => ConfigInv
  BY InitDaemonInv DEF Init, ConfigInv, RereadInv, ConfigHonoured
<1> QED BY <1>1, NextConfigInv, PTL DEF KillSpec, ConfigInv

-----------------------------------------------------------------------------
(* The jobs of the clients.                                                 *)

\* The places before a print command has a data file.
Early == {"new", "header", "jobno", "wrap", "creat"}

\* A thread has its number to itself, and its files are as far as it has got.
ThreadInv(c) ==
  /\ th[c].pc \in Numbered =>
       \A d \in Client : th[d].pc \in Numbered /\ th[d].id = th[c].id => d = c
  /\ th[c].pc \in {"wrap", "creat", "data", "creatctl", "unlinkdata"} => ctl[th[c].id] = None
  /\ th[c].pc \in {"writectl", "unlinkctl"} => ctl[th[c].id] = "empty"
  /\ th[c].pc \in {"respond", "add"} => ctl[th[c].id] = c
  /\ th[c].pc \in {"data", "creatctl", "writectl", "respond", "add"} =>
       data[th[c].id] = [by |-> c, n |-> th[c].n]
  /\ th[c].pc \in Early => th[c].n = 0
  /\ th[c].pc \in {"data", "writectl"} => th[c].linked
  /\ th[c].pc \in {"creatctl", "writectl", "respond", "add"} =>
       th[c].n = Size[c] \/ c \notin live \/ "stall" \in Faults

\* A client has at most one data file and one control file, of the same number.
OwnFiles ==
  /\ \A j, k \in Jobs : data[j] # None /\ data[k] # None /\ data[j].by = data[k].by => j = k
  /\ \A j, k \in Jobs : ctl[j] \in Client /\ ctl[k] = ctl[j] => j = k
  /\ \A j, k \in Jobs : ctl[j] \in Client /\ data[k] # None /\ data[k].by = ctl[j] => j = k

\* The clients whose file is not to be printed again.
Over == confirmed \ torn

\* A complete control file has its data file beside it until the job is over.
SpoolInv(j) ==
  /\ data[j] # None => th[data[j].by].pc \notin Early
  /\ ctl[j] \in Client =>
       /\ th[ctl[j]].pc \in {"respond", "add", "signal", "done"}
       /\ data[j] = None => ctl[j] \in Over
       /\ data[j] # None =>
            /\ data[j].by = ctl[j]
            /\ ctl[j] \in Over => ppc = "unlinkdata" /\ job.id = j
            /\ ans[ctl[j]] = "ok" /\ "stall" \notin Faults => data[j] = Whole(ctl[j])

\* The list, the job in hand and the files still to be scanned are different jobs,
\* each with its control file; a daemon that is not accepting has no client threads.
QueueInv ==
  /\ NoDuplicateJob
  /\ \A i \in 1 .. Len(queue) : ctl[queue[i].id] = queue[i].by /\ th[queue[i].by].pc \in {"signal", "done"}
  /\ job # NoJob => ctl[job.id] = job.by /\ th[job.by].pc \in {"signal", "done"}
  /\ \A j \in scan : ctl[j] # None /\ j # job.id /\ \A i \in 1 .. Len(queue) : queue[i].id # j

MainInv ==
  /\ main = "down" => queue = <<>>
  /\ main \in {"down", "accept"} => scan = {}
  /\ main = "unlink" => drop \in Jobs /\ ctl[drop] = None
  /\ main # "accept" => \A c \in Client : th[c].pc \in {"new", "done"}

\* The files of the job in hand.
HandInv ==
  /\ ppc \in {"connect", "send", "status"} => data[job.id] # None /\ job.by \notin Over
  /\ ppc = "unlinkdata" => data[job.id] # None /\ job.by \in Over
  /\ ppc = "unlinkctl" => data[job.id] = None

\* An answer of "ok" is kept: both files are there, the job is over, or its request
\* could not be read at a start.
AckInv(c) ==
  /\ c \in Over => th[c].pc \in {"signal", "done"}
  /\ ans[c] = "ok" =>
       /\ th[c].pc \in {"add", "signal", "done"}
       /\ \/ \E j \in Jobs : ctl[j] = c /\ data[j] # None
          \/ c \in Over /\ \A j \in Jobs : data[j] # None => data[j].by # c
          \/ c \in unread

\* A complete control file is still to be scanned, in the list, in hand or about to
\* be added, unless this daemon could not open a file of the job.
HeldInv ==
  main # "down" =>
    \A j \in Jobs : ctl[j] \in Client \ cancelled =>
      \/ j \in scan \/ job.id = j \/ (\E i \in 1 .. Len(queue) : queue[i].id = j)
      \/ th[ctl[j]].pc \in {"respond", "add"}

JobInv ==
  /\ DaemonInv /\ OwnFiles /\ QueueInv /\ MainInv /\ HandInv /\ HeldInv
  /\ \A c \in Client : ThreadInv(c) /\ AckInv(c)
  /\ \A j \in Jobs : SpoolInv(j)

\* The number a client thread is given is not in use.
Free(j) == ctl[j] = None /\ \A d \in Client : th[d].pc \in Numbered => th[d].id # j

GivesFree == \A c \in Client : GetNewjobno(c) => Free(nextjob)

-----------------------------------------------------------------------------
(* Facts used all over.                                                     *)

LEMMA Values ==
  /\ None \notin Client /\ "empty" \notin Client /\ None # "empty" /\ None # "ok"
  /\ \A d \in Docs : d # None
  /\ Size \in [Client -> Nat]
BY PrintdConstants DEF Docs

LEMMA FileTypes ==
  ASSUME DaemonInv
  PROVE  /\ th \in ThType /\ data \in [Jobs -> Docs \cup {None}]
         /\ ctl \in [Jobs -> Client \cup {"empty", None}]
         /\ queue \in Seq(JobType) /\ scan \in SUBSET Jobs
         /\ live \in SUBSET Client /\ ans \in [Client -> {None, "ok", "rejected", "lost"}]
         /\ \A i \in 1 .. Len(queue) : queue[i].id \in Jobs /\ queue[i].by \in Client
         /\ \A c \in Client : th[c].pc \in Numbered => th[c].id \in Jobs
         /\ \A j \in Jobs : data[j] # None => data[j].by \in Client
         /\ job # NoJob => job.id \in Jobs /\ job.by \in Client
<1>1. /\ th \in ThType /\ data \in [Jobs -> Docs \cup {None}]
      /\ ctl \in [Jobs -> Client \cup {"empty", None}]
      /\ queue \in Seq(JobType) /\ scan \in SUBSET Jobs /\ job \in JobType \cup {NoJob}
      /\ live \in SUBSET Client /\ ans \in [Client -> {None, "ok", "rejected", "lost"}]
  BY TypeParts DEF DaemonInv, DiskType, MainType, ClientType, PrinterType
<1>2. \A i \in 1 .. Len(queue) : queue[i].id \in Jobs /\ queue[i].by \in Client
  <2> SUFFICES ASSUME NEW i \in 1 .. Len(queue) PROVE queue[i].id \in Jobs /\ queue[i].by \in Client
    OBVIOUS
  <2>1. queue[i] \in JobType
    BY <1>1
  <2> QED BY <2>1 DEF JobType
<1>3. \A c \in Client : th[c].pc \in Numbered => th[c].id \in Jobs
  BY DEF DaemonInv, PlaceInv
<1>4. \A j \in Jobs : data[j] # None => data[j].by \in Client
  BY <1>1 DEF Docs
<1>5. job # NoJob => job.id \in Jobs /\ job.by \in Client
  BY <1>1 DEF JobType
<1> QED BY <1>1, <1>2, <1>3, <1>4, <1>5

LEMMA JobInvParts ==
  ASSUME JobInv
  PROVE  /\ DaemonInv /\ OwnFiles /\ QueueInv /\ MainInv /\ HandInv /\ HeldInv
         /\ \A c \in Client : ThreadInv(c) /\ AckInv(c)
         /\ \A j \in Jobs : SpoolInv(j)
BY DEF JobInv

LEMMA InitJobInv == Init => JobInv
<1> SUFFICES ASSUME Init PROVE JobInv
  OBVIOUS
<1>1. DaemonInv
  BY InitDaemonInv
<1>2. /\ \A c \in Client : th[c].pc = "new" /\ th[c].n = 0 /\ ans[c] = None
      /\ \A j \in Jobs : data[j] = None /\ ctl[j] = None
      /\ queue = <<>> /\ job = NoJob /\ scan = {} /\ main = "down" /\ ppc = "down" /\ Over = {}
  BY DEF Init, NewThread, Over
<1>3. OwnFiles /\ \A j \in Jobs : SpoolInv(j)
  BY <1>2, Values DEF OwnFiles, SpoolInv
<1>4. QueueInv /\ MainInv /\ HandInv /\ HeldInv
  BY <1>2 DEF QueueInv, NoDuplicateJob, MainInv, HandInv, HeldInv
<1>5. \A c \in Client : ThreadInv(c) /\ AckInv(c)
  BY <1>2, Values DEF ThreadInv, AckInv, Numbered
<1> QED BY <1>1, <1>3, <1>4, <1>5 DEF JobInv

-----------------------------------------------------------------------------
(* Steps of a client thread.                                                *)

\* A thread that is neither new nor done has an accepting daemon.
LEMMA Accepting ==
  ASSUME JobInv, NEW c \in Client, th[c].pc \notin {"new", "done"}
  PROVE  main = "accept"
BY DEF JobInv, MainInv

\* The places where the files of a thread are not those of a job yet.
Filing == {"wrap", "creat", "data", "creatctl", "writectl", "unlinkctl", "unlinkdata"}

LEMMA NoJobYet ==
  ASSUME JobInv, NEW c \in Client, th[c].pc \in Filing
  PROVE  /\ th[c].id \in Jobs /\ ctl[th[c].id] \notin Client
         /\ job # NoJob => job.id # th[c].id
         /\ \A i \in 1 .. Len(queue) : queue[i].id # th[c].id
         /\ \A d \in Client : d # c /\ th[d].pc \in Numbered => th[d].id # th[c].id
         /\ scan = {} /\ main = "accept"
<1>1. /\ ThreadInv(c) /\ QueueInv /\ MainInv /\ DaemonInv
      /\ th[c].pc \in Numbered /\ th[c].pc \notin {"new", "done"}
  BY DEF JobInv, Filing, Numbered
<1>2. th[c].id \in Jobs /\ ctl[th[c].id] \notin Client
  BY <1>1, FileTypes, Values DEF ThreadInv, Filing
<1>3. main = "accept"
  BY <1>1, Accepting
<1>4. job # NoJob => job.id # th[c].id
  BY <1>1, <1>2, FileTypes DEF QueueInv
<1>5. \A i \in 1 .. Len(queue) : queue[i].id # th[c].id
  BY <1>1, <1>2, FileTypes DEF QueueInv
<1> QED BY <1>1, <1>2, <1>3, <1>4, <1>5 DEF ThreadInv, MainInv

\* What is known of a thread that a step leaves alone stays known.
LEMMA ThreadKept ==
  ASSUME NEW d \in Client, ThreadInv(d), th'[d] = th[d], live' \subseteq live,
         th[d].pc \in Numbered =>
           /\ ctl'[th[d].id] = ctl[th[d].id] /\ data'[th[d].id] = data[th[d].id]
           /\ \A e \in Client : th'[e].pc \in Numbered /\ th'[e].id = th[d].id => e = d
  PROVE  ThreadInv(d)'
<1>1. /\ th[d].pc \in {"wrap", "creat", "data", "creatctl", "unlinkdata"} => th[d].pc \in Numbered
      /\ th[d].pc \in {"writectl", "unlinkctl"} => th[d].pc \in Numbered
      /\ th[d].pc \in {"respond", "add"} => th[d].pc \in Numbered
      /\ th[d].pc \in {"data", "creatctl", "writectl", "respond", "add"} => th[d].pc \in Numbered
  BY DEF Numbered
<1> QED BY <1>1 DEF ThreadInv

\* So does what is known of a file whose owner stays past its early places.
LEMMA SpoolKept ==
  ASSUME NEW k \in Jobs, SpoolInv(k), data'[k] = data[k], ctl'[k] = ctl[k], Over' = Over,
         job' = job, ppc = "unlinkdata" => ppc' = "unlinkdata",
         data[k] # None => th'[data[k].by].pc \notin Early,
         ctl[k] \in Client => /\ th'[ctl[k]].pc \in {"respond", "add", "signal", "done"}
                              /\ ans'[ctl[k]] = "ok" => ans[ctl[k]] = "ok"
  PROVE  SpoolInv(k)'
BY DEF SpoolInv

\* Files that are only removed stay those of one client each.
LEMMA FewerFiles ==
  ASSUME OwnFiles,
         \A k \in Jobs : /\ data'[k] # None => data'[k] = data[k]
                         /\ ctl'[k] \in Client => ctl'[k] = ctl[k]
  PROVE  OwnFiles'
<1>1. ASSUME NEW j \in Jobs, NEW k \in Jobs, data'[j] # None, data'[k] # None, data'[j].by = data'[k].by
      PROVE  j = k
  <2>1. data'[j] = data[j] /\ data'[k] = data[k]
    BY <1>1
  <2> QED BY <1>1, <2>1 DEF OwnFiles
<1>2. ASSUME NEW j \in Jobs, NEW k \in Jobs, ctl'[j] \in Client, ctl'[k] = ctl'[j]
      PROVE  j = k
  <2>1. ctl'[j] = ctl[j] /\ ctl'[k] = ctl[k]
    BY <1>2
  <2> QED BY <1>2, <2>1 DEF OwnFiles
<1>3. ASSUME NEW j \in Jobs, NEW k \in Jobs, ctl'[j] \in Client, data'[k] # None, data'[k].by = ctl'[j]
      PROVE  j = k
  <2>1. ctl'[j] = ctl[j] /\ data'[k] = data[k]
    BY <1>3
  <2> QED BY <1>3, <2>1 DEF OwnFiles
<1> QED BY <1>1, <1>2, <1>3 DEF OwnFiles

\* A list with one more job at its end.
LEMMA OneMore ==
  ASSUME NEW S, NEW s \in Seq(S), NEW e \in S
  PROVE  /\ Len(s) \in Nat /\ Len(Append(s, e)) = Len(s) + 1 /\ Append(s, e)[Len(s) + 1] = e
         /\ \A k \in 1 .. Len(s) : Append(s, e)[k] = s[k]
         /\ \A k \in 1 .. Len(Append(s, e)) : k \in 1 .. Len(s) \/ k = Len(s) + 1
OBVIOUS

\* A step of thread c with its files, of number i, touches nobody else.
FileChange(c, i) ==
  /\ UNCHANGED <<main, scan, drop, queue, live, prt, history>>
  /\ \A d \in Client : d # c => th'[d] = th[d] /\ ans'[d] = ans[d]
  /\ \A k \in Jobs : k # i => data'[k] = data[k] /\ ctl'[k] = ctl[k]
  /\ th'[c].id = i
  /\ th'[c].pc \in Filing \cup {"respond", "done"}
  /\ th'[c].pc \in Early => th[c].pc \in Early
  /\ ans'[c] \in {ans[c], "rejected"}
  /\ ctl'[i] \in Client => ctl'[i] = c /\ th'[c].pc = "respond"
  /\ data'[i] # None => data'[i] = data[i] \/ data'[i].by = c

\* What is left to show of such a step is about this thread and its number.
LEMMA FileStep ==
  ASSUME JobInv, DaemonInv', NEW c \in Client, NEW i \in Jobs, th[c].id = i, th[c].pc \in Filing,
         FileChange(c, i), OwnFiles', ThreadInv(c)', SpoolInv(i)'
  PROVE  JobInv'
<1>1. /\ ctl[i] \notin Client /\ scan = {} /\ main = "accept"
      /\ job # NoJob => job.id # i
      /\ \A k \in 1 .. Len(queue) : queue[k].id # i
      /\ \A d \in Client : d # c /\ th[d].pc \in Numbered => th[d].id # i
  BY NoJobYet
<1>2. /\ OwnFiles /\ QueueInv /\ MainInv /\ HandInv /\ HeldInv /\ DaemonInv
      /\ \A d \in Client : ThreadInv(d) /\ AckInv(d)
      /\ \A k \in Jobs : SpoolInv(k)
  BY DEF JobInv
<1>3. /\ th[c].pc \in Numbered /\ th[c].pc \notin {"add", "respond", "signal", "done", "new"}
  BY DEF Filing, Numbered
<1>4. /\ \A k \in 1 .. Len(queue) : queue[k].id \in Jobs /\ queue[k].by \in Client
      /\ job # NoJob => job.id \in Jobs /\ job.by \in Client
      /\ \A k \in Jobs : data[k] # None => data[k].by \in Client
      /\ \A d \in Client : th[d].pc \in Numbered => th[d].id \in Jobs
  BY <1>2, FileTypes
<1>5. UNCHANGED <<main, scan, drop, queue, live, ppc, job, Over, cancelled, unread>>
  BY DEF FileChange, prt, history, Over
<1>6. \A d \in Client : d # c => th'[d] = th[d] /\ ans'[d] = ans[d]
  BY DEF FileChange
<1>7. \A k \in Jobs : k # i => data'[k] = data[k] /\ ctl'[k] = ctl[k]
  BY DEF FileChange
<1>8. QueueInv'
  <2>1. \A k \in 1 .. Len(queue) : queue[k].by # c
    BY <1>2, <1>3 DEF QueueInv
  <2>2. job # NoJob => job.by # c
    BY <1>2, <1>3 DEF QueueInv
  <2>3. NoDuplicateJob'
    BY <1>2, <1>5 DEF QueueInv, NoDuplicateJob
  <2>4. \A k \in 1 .. Len(queue) : ctl'[queue[k].id] = queue[k].by /\ th'[queue[k].by].pc \in {"signal", "done"}
    <3>1. ASSUME NEW k \in 1 .. Len(queue)
          PROVE  ctl'[queue[k].id] = queue[k].by /\ th'[queue[k].by].pc \in {"signal", "done"}
      <4>1. ctl[queue[k].id] = queue[k].by /\ th[queue[k].by].pc \in {"signal", "done"}
        BY <1>2 DEF QueueInv
      <4>2. queue[k].id # i /\ queue[k].id \in Jobs /\ queue[k].by \in Client
        BY <1>1, <1>4
      <4> QED BY <1>6, <1>7, <2>1, <4>1, <4>2
    <3> QED BY <3>1
  <2>5. job # NoJob => ctl'[job.id] = job.by /\ th'[job.by].pc \in {"signal", "done"}
    BY <1>1, <1>2, <1>4, <1>6, <1>7, <2>2 DEF QueueInv
  <2> QED BY <1>1, <1>5, <2>3, <2>4, <2>5 DEF QueueInv
<1>9. MainInv'
  BY <1>1, <1>5 DEF MainInv
<1>10. HandInv'
  <2>1. ppc \in AtJob => job # NoJob
    BY <1>2, RealJob DEF DaemonInv, PlaceInv
  <2>2. ppc \in AtJob => data'[job.id] = data[job.id]
    BY <1>1, <1>4, <1>7, <2>1
  <2> QED BY <1>2, <1>5, <2>2 DEF HandInv, AtJob
<1>11. HeldInv'
  <2> SUFFICES ASSUME NEW j \in Jobs, ctl'[j] \in Client \ cancelled
               PROVE  \/ j \in scan \/ job.id = j \/ (\E k \in 1 .. Len(queue) : queue[k].id = j)
                      \/ th'[ctl'[j]].pc \in {"respond", "add"}
    BY <1>5 DEF HeldInv
  <2>1. CASE j = i
    BY <2>1 DEF FileChange
  <2>2. CASE j # i
    <3>1. ctl'[j] = ctl[j]
      BY <1>7, <2>2
    <3>2. \/ j \in scan \/ job.id = j \/ (\E k \in 1 .. Len(queue) : queue[k].id = j)
          \/ th[ctl[j]].pc \in {"respond", "add"}
      BY <1>1, <1>2, <3>1 DEF HeldInv
    <3> QED BY <1>3, <1>6, <3>1, <3>2
  <2> QED BY <2>1, <2>2
<1>12. ASSUME NEW d \in Client PROVE ThreadInv(d)'
  <2>1. CASE d = c
    BY <2>1
  <2>2. CASE d # c
    <3>1. ThreadInv(d) /\ th'[d] = th[d] /\ live' \subseteq live
      BY <1>2, <1>5, <1>6, <2>2
    <3>2. ASSUME th[d].pc \in Numbered
          PROVE  /\ ctl'[th[d].id] = ctl[th[d].id] /\ data'[th[d].id] = data[th[d].id]
                 /\ \A e \in Client : th'[e].pc \in Numbered /\ th'[e].id = th[d].id => e = d
      <4>1. th[d].id \in Jobs /\ th[d].id # i /\ th'[c].id = i
        BY <1>1, <1>4, <2>2, <3>2 DEF FileChange
      <4>2. \A e \in Client : th[e].pc \in Numbered /\ th[e].id = th[d].id => e = d
        BY <3>1, <3>2 DEF ThreadInv
      <4> QED BY <1>6, <1>7, <4>1, <4>2
    <3> QED BY <3>1, <3>2, ThreadKept
  <2> QED BY <2>1, <2>2
<1>13. ASSUME NEW d \in Client PROVE AckInv(d)'
  <2>1. CASE d = c
    <3>1. ans[c] # "ok" /\ c \notin Over
      BY <1>2, <1>3 DEF AckInv
    <3>2. ans'[c] # "ok" /\ c \notin Over'
      BY <1>5, <3>1 DEF FileChange
    <3> QED BY <2>1, <3>2 DEF AckInv
  <2>2. CASE d # c
    <3>1. AckInv(d) /\ th'[d] = th[d] /\ ans'[d] = ans[d] /\ UNCHANGED <<Over, unread>>
      BY <1>2, <1>5, <1>6, <2>2
    <3>2. \A j \in Jobs : ctl[j] = d => ctl'[j] = d /\ data'[j] = data[j]
      BY <1>1, <1>7
    <3>3. \A j \in Jobs : data'[j] # None => data'[j] = data[j] \/ data'[j].by = c
      BY <1>7 DEF FileChange
    <3> QED BY <2>2, <3>1, <3>2, <3>3 DEF AckInv
  <2> QED BY <2>1, <2>2
<1>14. ASSUME NEW k \in Jobs PROVE SpoolInv(k)'
  <2>1. CASE k = i
    BY <2>1
  <2>2. CASE k # i
    <3>1. SpoolInv(k) /\ data'[k] = data[k] /\ ctl'[k] = ctl[k]
      BY <1>2, <1>7, <2>2
    <3>2. ctl[k] # c
      BY <1>3, <3>1 DEF SpoolInv
    <3>3. data[k] # None => th'[data[k].by].pc \notin Early
      BY <1>4, <1>6, <3>1 DEF SpoolInv, FileChange
    <3>4. ctl[k] \in Client => /\ th'[ctl[k]].pc \in {"respond", "add", "signal", "done"}
                               /\ ans'[ctl[k]] = "ok" => ans[ctl[k]] = "ok"
      BY <1>6, <3>1, <3>2 DEF SpoolInv
    <3> QED BY <1>5, <3>1, <3>3, <3>4, SpoolKept
  <2> QED BY <2>1, <2>2
<1> QED BY <1>8, <1>9, <1>10, <1>11, <1>12, <1>13, <1>14 DEF JobInv

\* The steps of a thread with its files.
LEMMA FilingKeeps ==
  ASSUME JobInv, DaemonInv', NEW c \in Client,
         \/ WrapJobno(c) \/ CreatData(c) \/ CreatDataFails(c) \/ ReadData(c) \/ WriteDataFails(c)
         \/ EndOfData(c) \/ CreatCtl(c) \/ CreatCtlFails(c) \/ WriteCtl(c) \/ WriteCtlFails(c)
         \/ UnlinkCtl(c) \/ UnlinkData(c)
  PROVE  JobInv'
<1>1. /\ OwnFiles /\ DaemonInv /\ \A d \in Client : ThreadInv(d)
      /\ \A k \in Jobs : SpoolInv(k)
      /\ AckInv(c)
  BY DEF JobInv
<1>2. th[c].pc \in Filing /\ th[c].pc \in Numbered
  BY DEF WrapJobno, CreatData, CreatDataFails, ReadData, WriteDataFails, EndOfData, CreatCtl, CreatCtlFails,
     WriteCtl, WriteCtlFails, UnlinkCtl, UnlinkData, Filing, Numbered
<1>i. PICK i \in Jobs : i = th[c].id
  BY <1>2, NoJobYet
<1>3. /\ ctl[i] \notin Client
      /\ \A d \in Client : d # c /\ th[d].pc \in Numbered => th[d].id # i
  BY <1>2, <1>i, NoJobYet
<1>4. /\ th \in ThType /\ data \in [Jobs -> Docs \cup {None}] /\ ctl \in [Jobs -> Client \cup {"empty", None}]
      /\ ans \in [Client -> {None, "ok", "rejected", "lost"}]
      /\ th' \in ThType
      /\ \A k \in Jobs : data[k] # None => data[k].by \in Client
  BY <1>1, FileTypes, TypeParts DEF DaemonInv, ClientType
<1>5. /\ UNCHANGED <<main, scan, drop, queue, live, prt, history>>
      /\ Reply(c, "rejected") \/ ans' = ans
  BY DEF WrapJobno, CreatData, CreatDataFails, ReadData, WriteDataFails, EndOfData, CreatCtl, CreatCtlFails,
     WriteCtl, WriteCtlFails, UnlinkCtl, UnlinkData, mem
<1>6. (\A d \in Client : d # c => ans'[d] = ans[d]) /\ ans'[c] \in {ans[c], "rejected"}
  BY <1>4, <1>5 DEF Reply
<1>7. ThreadInv(c) /\ SpoolInv(i)
  BY <1>1, <1>3
<1>8. CASE \/ WrapJobno(c) \/ CreatDataFails(c) \/ WriteDataFails(c) \/ EndOfData(c) \/ CreatCtlFails(c)
           \/ WriteCtlFails(c)
  <2>1. UNCHANGED <<data, ctl>>
    BY <1>8 DEF WrapJobno, CreatDataFails, WriteDataFails, EndOfData, CreatCtlFails, WriteCtlFails, disk
  <2>2. PICK pc \in Labels :
          /\ Go(c, pc)
          /\ <<th[c].pc, pc>> \in {<<"wrap", "creat">>, <<"creat", "done">>, <<"data", "unlinkdata">>,
                                   <<"data", "creatctl">>, <<"creatctl", "unlinkdata">>,
                                   <<"writectl", "unlinkctl">>}
          /\ pc = "creatctl" => th[c].n = Size[c] \/ c \notin live \/ "stall" \in Faults
    BY <1>8 DEF WrapJobno, CreatDataFails, WriteDataFails, EndOfData, CreatCtlFails, WriteCtlFails, Labels
  <2>3. /\ th'[c].pc = pc /\ th'[c].id = i /\ th'[c].n = th[c].n /\ th'[c].linked = th[c].linked
        /\ \A d \in Client : d # c => th'[d] = th[d]
    BY <1>i, <1>4, <2>2, GoTyped
  <2>4. OwnFiles'
    BY <1>1, <2>1 DEF OwnFiles
  <2>5. ThreadInv(c)'
    BY <1>i, <1>3, <1>5, <1>7, <2>1, <2>2, <2>3 DEF ThreadInv, Numbered, Early
  <2>6. SpoolInv(i)'
    <3>1. data[i] # None => th'[data[i].by].pc \notin Early
      BY <1>3, <1>4, <1>7, <2>2, <2>3 DEF SpoolInv, Early
    <3> QED BY <1>3, <2>1, <3>1 DEF SpoolInv
  <2>7. pc \in Filing \cup {"respond", "done"} /\ (pc \in Early => th[c].pc \in Early)
    BY <2>2 DEF Filing, Early
  <2>8. FileChange(c, i)
    BY <1>3, <1>5, <1>6, <2>1, <2>3, <2>7 DEF FileChange
  <2> QED BY <1>2, <1>i, <2>4, <2>5, <2>6, <2>8, FileStep
<1>9. CASE CreatData(c) \/ ReadData(c)
  <2>1. ctl' = ctl /\ ctl[i] = None
    BY <1>i, <1>7, <1>9 DEF CreatData, ReadData, ThreadInv
  <2>2. /\ th'[c].pc = "data" /\ th'[c].id = i /\ th'[c].linked
        /\ \A d \in Client : d # c => th'[d] = th[d]
    BY <1>i, <1>4, <1>7, <1>9 DEF CreatData, ReadData, ThreadInv, ThType
  <2>3. data' = [data EXCEPT ![i] = [by |-> c, n |-> th'[c].n]]
    <3>1. CASE CreatData(c)
      BY <1>i, <1>4, <1>7, <3>1 DEF CreatData, ThreadInv, Early, ThType
    <3>2. CASE ReadData(c)
      BY <1>i, <1>4, <1>7, <3>2 DEF ReadData, ThreadInv, ThType
    <3> QED BY <1>9, <3>1, <3>2
  <2>4. /\ data'[i] = [by |-> c, n |-> th'[c].n] /\ data'[i] # None /\ data'[i].by = c
        /\ \A k \in Jobs : k # i => data'[k] = data[k]
    <3>1. [by |-> c, n |-> th'[c].n] \in Docs
      BY <1>4 DEF Docs, ThType
    <3> QED BY <1>3, <1>4, <2>3, <3>1, Values
  <2>5. /\ \A k \in Jobs : data[k] # None /\ data[k].by = c => k = i
        /\ \A k \in Jobs : ctl[k] # c
    <3>1. CASE CreatData(c)
      <4>1. th[c].pc \in Early /\ th[c].pc \notin {"respond", "add", "signal", "done"}
        BY <3>1 DEF CreatData, Early
      <4>2. ASSUME NEW k \in Jobs PROVE (data[k] # None => data[k].by # c) /\ ctl[k] # c
        <5>1. SpoolInv(k)
          BY <1>1
        <5> QED BY <4>1, <5>1 DEF SpoolInv
      <4> QED BY <4>2
    <3>2. CASE ReadData(c)
      <4>1. data[i] # None /\ data[i].by = c
        <5>1. data[i] = [by |-> c, n |-> th[c].n]
          BY <1>i, <1>7, <3>2 DEF ReadData, ThreadInv
        <5>2. data[i] \in Docs
          BY <1>4, <5>1 DEF Docs, ThType
        <5>3. data[i] # None
          BY <5>2, Values
        <5>4. [by |-> c, n |-> th[c].n].by = c
          OBVIOUS
        <5> QED BY <5>1, <5>3, <5>4
      <4>2. th[c].pc \notin {"respond", "add", "signal", "done"}
        BY <3>2 DEF ReadData
      <4>3. ASSUME NEW k \in Jobs PROVE ctl[k] # c
        <5>1. SpoolInv(k)
          BY <1>1
        <5> QED BY <4>2, <5>1 DEF SpoolInv
      <4>4. ASSUME NEW k \in Jobs, data[k] # None, data[k].by = c PROVE k = i
        <5>1. OwnFiles
          BY <1>1
        <5> QED BY <4>1, <4>4, <5>1 DEF OwnFiles
      <4> QED BY <4>3, <4>4
    <3> QED BY <1>9, <3>1, <3>2
  <2>6. OwnFiles'
    <3>1. OwnFiles
      BY <1>1
    <3>2. ASSUME NEW j \in Jobs, NEW k \in Jobs, data'[j] # None, data'[k] # None, data'[j].by = data'[k].by
          PROVE  j = k
      <4>1. ASSUME NEW m \in Jobs, data'[m] # None, data'[m].by = c PROVE m = i
        BY <2>4, <2>5, <4>1
      <4>2. CASE j = i \/ k = i
        BY <2>4, <3>2, <4>1, <4>2
      <4>3. CASE j # i /\ k # i
        <5>1. data'[j] = data[j] /\ data'[k] = data[k]
          BY <2>4, <4>3
        <5> QED BY <3>1, <3>2, <5>1 DEF OwnFiles
      <4> QED BY <4>2, <4>3
    <3>3. ASSUME NEW j \in Jobs, NEW k \in Jobs, ctl[j] \in Client, data'[k] # None, data'[k].by = ctl[j]
          PROVE  j = k
      <4>1. k # i
        BY <2>4, <2>5, <3>3
      <4>2. data'[k] = data[k]
        BY <2>4, <4>1
      <4> QED BY <3>1, <3>3, <4>2 DEF OwnFiles
    <3> QED BY <2>1, <3>1, <3>2, <3>3 DEF OwnFiles
  <2>7. ThreadInv(c)'
    <3>1. \A d \in Client : th'[d].pc \in Numbered /\ th'[d].id = th'[c].id => d = c
      BY <1>3, <2>2
    <3>2. /\ th'[c].pc \notin Early /\ th'[c].pc \notin {"writectl", "unlinkctl"}
          /\ th'[c].pc \notin {"respond", "add"} /\ th'[c].pc \notin {"creatctl", "writectl", "respond", "add"}
      BY <2>2 DEF Early
    <3>3. ctl'[th'[c].id] = None /\ data'[th'[c].id] = [by |-> c, n |-> th'[c].n]
      BY <2>1, <2>2, <2>4
    <3> QED BY <2>2, <3>1, <3>2, <3>3 DEF ThreadInv
  <2>8. SpoolInv(i)'
    BY <1>3, <2>1, <2>2, <2>4 DEF SpoolInv, Early
  <2>9. "data" \in Filing /\ "data" \notin Early
    BY DEF Filing, Early
  <2>10. FileChange(c, i)
    BY <1>3, <1>5, <1>6, <2>1, <2>2, <2>4, <2>9 DEF FileChange
  <2> QED BY <1>2, <1>i, <2>6, <2>7, <2>8, <2>10, FileStep
<1>10. CASE CreatCtl(c) \/ WriteCtl(c)
  <2>1. PICK x \in {"empty", c} :
          /\ ctl' = [ctl EXCEPT ![i] = x]
          /\ \/ x = "empty" /\ th' = [th EXCEPT ![c].pc = "writectl", ![c].linked = TRUE]
             \/ x = c /\ th' = [th EXCEPT ![c].pc = "respond"]
    <3>1. CASE CreatCtl(c)
      <4>1. ctl' = [ctl EXCEPT ![i] = "empty"] /\ th' = [th EXCEPT ![c].pc = "writectl", ![c].linked = TRUE]
        BY <1>i, <3>1 DEF CreatCtl
      <4> QED BY <4>1
    <3>2. CASE WriteCtl(c)
      <4>1. ctl' = [ctl EXCEPT ![i] = c] /\ th' = [th EXCEPT ![c].pc = "respond"]
        BY <1>i, <1>7, <3>2 DEF WriteCtl, ThreadInv, Go
      <4> QED BY <4>1
    <3> QED BY <1>10, <3>1, <3>2
  <2>2. /\ \/ x = "empty" /\ th'[c].pc = "writectl" /\ th'[c].linked
           \/ x = c /\ th'[c].pc = "respond"
        /\ th'[c].id = i /\ th'[c].n = th[c].n
        /\ \A d \in Client : d # c => th'[d] = th[d]
    BY <1>i, <1>4, <2>1 DEF ThType
  <2>3. /\ data' = data /\ data[i] = [by |-> c, n |-> th[c].n] /\ ans' = ans
        /\ th[c].n = Size[c] \/ c \notin live \/ "stall" \in Faults
    BY <1>i, <1>7, <1>10 DEF CreatCtl, WriteCtl, ThreadInv
  <2>4. ctl'[i] = x /\ \A k \in Jobs : k # i => ctl'[k] = ctl[k]
    BY <1>4, <2>1
  <2>5. data[i] # None /\ data[i].by = c
    <3>1. [by |-> c, n |-> th[c].n] \in Docs
      BY <1>4 DEF Docs, ThType
    <3> QED BY <2>3, <3>1, Values
  <2>6. \A k \in Jobs : ctl[k] # c
    <3>1. th[c].pc \notin {"respond", "add", "signal", "done"}
      BY <1>2 DEF Filing
    <3>2. ASSUME NEW k \in Jobs PROVE ctl[k] # c
      <4>1. SpoolInv(k)
        BY <1>1
      <4> QED BY <3>1, <4>1 DEF SpoolInv
    <3> QED BY <3>2
  <2>7. OwnFiles'
    <3>1. \A j, k \in Jobs : data'[j] # None /\ data'[k] # None /\ data'[j].by = data'[k].by => j = k
      BY <1>1, <2>3 DEF OwnFiles
    <3>2. \A j, k \in Jobs : ctl'[j] \in Client /\ ctl'[k] = ctl'[j] => j = k
      BY <1>1, <2>4, <2>6, Values DEF OwnFiles
    <3>3. \A j, k \in Jobs : ctl'[j] \in Client /\ data'[k] # None /\ data'[k].by = ctl'[j] => j = k
      <4>1. OwnFiles /\ data' = data
        BY <1>1, <2>3
      <4>2. ASSUME NEW j \in Jobs, NEW k \in Jobs, ctl'[j] \in Client, data[k] # None, data[k].by = ctl'[j]
            PROVE  j = k
        <5>1. CASE j = i
          <6>1. ctl'[j] = c
            BY <2>2, <2>4, <4>2, <5>1, Values
          <6> QED BY <2>5, <4>1, <4>2, <5>1, <6>1 DEF OwnFiles
        <5>2. CASE j # i
          <6>1. ctl'[j] = ctl[j]
            BY <2>4, <5>2
          <6> QED BY <4>1, <4>2, <6>1 DEF OwnFiles
        <5> QED BY <5>1, <5>2
      <4> QED BY <4>1, <4>2
    <3> QED BY <3>1, <3>2, <3>3 DEF OwnFiles
  <2>8. ThreadInv(c)'
    BY <1>3, <1>5, <2>2, <2>3, <2>4 DEF ThreadInv, Numbered, Early
  <2>9. SpoolInv(i)'
    <3>1. ans'[c] # "ok" /\ c \notin Over'
      BY <1>1, <1>2, <1>5, <2>3 DEF AckInv, Filing, history, Over
    <3>2. th'[c].pc \notin Early
      BY <2>2 DEF Early
    <3>3. CASE x = "empty"
      BY <2>3, <2>4, <2>5, <3>2, <3>3, Values DEF SpoolInv
    <3>4. CASE x = c
      <4>1. th'[c].pc = "respond"
        BY <2>2, <3>4, Values
      <4> QED BY <2>3, <2>4, <2>5, <3>1, <3>2, <3>4, <4>1 DEF SpoolInv
    <3> QED BY <2>1, <3>3, <3>4
  <2>10. /\ th'[c].pc \in Filing \cup {"respond", "done"} /\ th'[c].pc \notin Early
         /\ ctl'[i] \in Client => ctl'[i] = c /\ th'[c].pc = "respond"
    BY <2>2, <2>4, Values DEF Filing, Early
  <2>11. FileChange(c, i)
    BY <1>5, <1>6, <2>2, <2>3, <2>4, <2>10 DEF FileChange
  <2> QED BY <1>2, <1>i, <2>7, <2>8, <2>9, <2>11, FileStep
<1>11. CASE UnlinkCtl(c) \/ UnlinkData(c)
  <2>1. \/ ctl' = [ctl EXCEPT ![i] = None] /\ data' = data /\ Go(c, "unlinkdata")
        \/ data' = [data EXCEPT ![i] = None] /\ ctl' = ctl /\ ctl[i] = None /\ Go(c, "done")
    BY <1>i, <1>7, <1>11 DEF UnlinkCtl, UnlinkData, ThreadInv
  <2>2. /\ \A k \in Jobs : k # i => ctl'[k] = ctl[k] /\ data'[k] = data[k]
        /\ ctl'[i] = None /\ data'[i] \in {data[i], None}
    BY <1>4, <2>1
  <2>3. /\ th'[c].pc \in {"unlinkdata", "done"} /\ th'[c].id = i
        /\ \A d \in Client : d # c => th'[d] = th[d]
    BY <1>i, <1>4, <2>1, GoTyped DEF Labels
  <2>4. OwnFiles'
    <3>1. OwnFiles /\ None \notin Client
      BY <1>1, Values
    <3>2. ASSUME NEW k \in Jobs
          PROVE  /\ data'[k] # None => data'[k] = data[k]
                 /\ ctl'[k] \in Client => ctl'[k] = ctl[k]
      BY <2>2, <3>1
    <3> QED BY <3>1, <3>2, FewerFiles
  <2>5. ThreadInv(c)'
    BY <1>3, <2>2, <2>3 DEF ThreadInv, Numbered, Early
  <2>6. SpoolInv(i)'
    <3>1. data'[i] # None => th'[data'[i].by].pc \notin Early
      <4>1. data[i] # None => th[data[i].by].pc \notin Early /\ data[i].by \in Client
        BY <1>3, <1>4, <1>7 DEF SpoolInv
      <4>2. th'[c].pc \notin Early
        BY <2>3 DEF Early
      <4> QED BY <2>2, <2>3, <4>1, <4>2
    <3> QED BY <2>2, <3>1, Values DEF SpoolInv
  <2>7. th'[c].pc \in Filing \cup {"respond", "done"} /\ th'[c].pc \notin Early
    BY <2>3 DEF Filing, Early
  <2>8. FileChange(c, i)
    BY <1>5, <1>6, <2>2, <2>3, <2>7, Values DEF FileChange
  <2> QED BY <1>2, <1>i, <2>4, <2>5, <2>6, <2>8, FileStep
<1> QED BY <1>8, <1>9, <1>10, <1>11

\* The steps of a print command before it has files: a number it gets is free.
LEMMA EntryKeeps ==
  ASSUME JobInv, DaemonInv', GivesFree, NEW c \in Client,
         Accept(c) \/ ReadHeader(c) \/ HeaderFails(c) \/ GetNewjobno(c)
  PROVE  JobInv'
<1>1. /\ OwnFiles /\ QueueInv /\ MainInv /\ HandInv /\ HeldInv /\ DaemonInv
      /\ \A d \in Client : ThreadInv(d) /\ AckInv(d)
      /\ \A k \in Jobs : SpoolInv(k)
  BY DEF JobInv
<1>2. /\ th \in ThType /\ ans \in [Client -> {None, "ok", "rejected", "lost"}] /\ th' \in ThType
      /\ \A k \in Jobs : data[k] # None => data[k].by \in Client
      /\ \A k \in 1 .. Len(queue) : queue[k].by \in Client
      /\ job # NoJob => job.by \in Client
  BY <1>1, FileTypes, TypeParts DEF DaemonInv, ClientType
<1>3. /\ UNCHANGED <<data, ctl, main, scan, drop, queue, live, prt, history>>
      /\ Reply(c, "rejected") \/ ans' = ans
      /\ th[c].pc \in {"new", "header", "jobno"}
  BY DEF Accept, ReadHeader, HeaderFails, GetNewjobno, disk, mem
<1>4. main = "accept"
  <2>1. CASE Accept(c)
    BY <2>1 DEF Accept
  <2>2. CASE ~Accept(c)
    <3>1. th[c].pc \notin {"new", "done"}
      BY <2>2 DEF ReadHeader, HeaderFails, GetNewjobno
    <3> QED BY <3>1, Accepting
  <2> QED BY <2>1, <2>2
<1>5. (\A d \in Client : d # c => ans'[d] = ans[d]) /\ ans'[c] \in {ans[c], "rejected"}
  BY <1>2, <1>3 DEF Reply
<1>6. /\ \A d \in Client : d # c => th'[d] = th[d]
      /\ th'[c].n = th[c].n
      /\ th'[c].pc \in {"header", "jobno", "wrap", "creat", "done"}
      /\ th'[c].pc \in {"wrap", "creat"} => Free(th'[c].id)
  <2>1. CASE GetNewjobno(c)
    <3>1. Free(nextjob)
      BY <2>1 DEF GivesFree
    <3> QED BY <1>2, <2>1, <3>1 DEF GetNewjobno, ThType
  <2>2. CASE Accept(c) \/ ReadHeader(c) \/ HeaderFails(c)
    BY <1>2, <2>2 DEF Accept, ReadHeader, HeaderFails, Go, ThType
  <2> QED BY <2>1, <2>2
<1>7. ASSUME NEW d \in Client PROVE ThreadInv(d)'
  <2>1. CASE d = c
    <3>1. th'[c].n = 0
      BY <1>1, <1>3, <1>6 DEF ThreadInv, Early
    <3>2. th'[c].pc \in Numbered => Free(th'[c].id)
      BY <1>6 DEF Numbered
    <3>3. th'[c].pc \in Numbered =>
            \A e \in Client : th'[e].pc \in Numbered /\ th'[e].id = th'[c].id => e = c
      BY <1>6, <3>2 DEF Free
    <3>4. th'[c].pc \in {"wrap", "creat"} => ctl'[th'[c].id] = None
      BY <1>3, <1>6 DEF Free
    <3> QED BY <1>6, <2>1, <3>1, <3>3, <3>4 DEF ThreadInv
  <2>2. CASE d # c
    <3>1. ThreadInv(d) /\ th'[d] = th[d] /\ live' \subseteq live /\ data' = data /\ ctl' = ctl
      BY <1>1, <1>3, <1>6, <2>2
    <3>2. th'[c].pc \in Numbered => Free(th'[c].id)
      BY <1>6 DEF Numbered
    <3>3. th[d].pc \in Numbered =>
            \A e \in Client : th'[e].pc \in Numbered /\ th'[e].id = th[d].id => e = d
      BY <1>6, <2>2, <3>1, <3>2 DEF Free, ThreadInv
    <3> QED BY <3>1, <3>3, ThreadKept
  <2> QED BY <2>1, <2>2
<1>8. \A k \in Jobs : /\ data[k] # None => data[k].by # c
                      /\ ctl[k] # c
  BY <1>1, <1>3 DEF SpoolInv, Early
<1>9. ASSUME NEW k \in Jobs PROVE SpoolInv(k)'
  <2>1. SpoolInv(k) /\ UNCHANGED <<data, ctl, ppc, job, Over, unread>>
    BY <1>1, <1>3 DEF prt, history, Over
  <2>2. data[k] # None => th'[data[k].by].pc \notin Early
    BY <1>2, <1>6, <1>8, <2>1 DEF SpoolInv
  <2>3. ctl[k] \in Client => /\ th'[ctl[k]].pc \in {"respond", "add", "signal", "done"}
                             /\ ans'[ctl[k]] = "ok" => ans[ctl[k]] = "ok"
    BY <1>5, <1>6, <1>8, <2>1 DEF SpoolInv
  <2> QED BY <2>1, <2>2, <2>3, SpoolKept
<1>10. ASSUME NEW d \in Client PROVE AckInv(d)'
  <2>1. CASE d = c
    BY <1>1, <1>3, <1>5, <2>1 DEF AckInv, history, Over
  <2>2. CASE d # c
    BY <1>1, <1>3, <1>5, <1>6, <2>2 DEF AckInv, history, Over
  <2> QED BY <2>1, <2>2
<1>11. QueueInv'
  <2>1. /\ \A k \in 1 .. Len(queue) : queue[k].by # c
        /\ job # NoJob => job.by # c
    BY <1>1, <1>3 DEF QueueInv
  <2>2. NoDuplicateJob'
    BY <1>1, <1>3 DEF QueueInv, NoDuplicateJob, prt
  <2> QED BY <1>1, <1>2, <1>3, <1>6, <2>1, <2>2 DEF QueueInv, prt
<1>12. OwnFiles' /\ MainInv' /\ HandInv'
  BY <1>1, <1>3, <1>4 DEF OwnFiles, MainInv, HandInv, prt, history, Over
<1>13. HeldInv'
  BY <1>1, <1>3, <1>6, <1>8 DEF HeldInv, prt, history, Over
<1> QED BY <1>7, <1>9, <1>10, <1>11, <1>12, <1>13 DEF JobInv

\* The death of a print command.
LEMMA DeathKeeps == ASSUME JobInv, DaemonInv', NEW c \in Client, ClientDies(c) PROVE JobInv'
<1>1. /\ OwnFiles /\ QueueInv /\ MainInv /\ HandInv /\ HeldInv
      /\ \A d \in Client : ThreadInv(d) /\ AckInv(d)
      /\ \A k \in Jobs : SpoolInv(k)
  BY DEF JobInv
<1>2. UNCHANGED <<data, ctl, mem, th, ans, prt, history>> /\ live' \subseteq live
  BY DEF ClientDies, disk
<1>3. OwnFiles' /\ MainInv' /\ HandInv' /\ HeldInv' /\ QueueInv'
  <2>1. UNCHANGED <<main, scan, drop, queue, ppc, job, Over, cancelled, unread>>
    BY <1>2 DEF mem, prt, history, Over
  <2>2. OwnFiles' /\ HandInv'
    BY <1>1, <1>2, <2>1 DEF OwnFiles, HandInv
  <2>3. MainInv' /\ HeldInv'
    BY <1>1, <1>2, <2>1 DEF MainInv, HeldInv
  <2>4. QueueInv'
    BY <1>1, <1>2, <2>1 DEF QueueInv, NoDuplicateJob
  <2> QED BY <2>2, <2>3, <2>4
<1>4. ASSUME NEW d \in Client PROVE ThreadInv(d)'
  <2>1. th[d].pc \in Numbered =>
          \A e \in Client : th'[e].pc \in Numbered /\ th'[e].id = th[d].id => e = d
    BY <1>1, <1>2 DEF ThreadInv
  <2> QED BY <1>1, <1>2, <2>1, ThreadKept
<1>5. ASSUME NEW d \in Client PROVE AckInv(d)'
  BY <1>1, <1>2 DEF AckInv, history, Over
<1>6. ASSUME NEW k \in Jobs PROVE SpoolInv(k)'
  <2>1. UNCHANGED <<ppc, job, Over, unread>>
    BY <1>2 DEF prt, history, Over
  <2>2. /\ data[k] # None => th'[data[k].by].pc \notin Early
        /\ ctl[k] \in Client => th'[ctl[k]].pc \in {"respond", "add", "signal", "done"}
    BY <1>1, <1>2 DEF SpoolInv
  <2> QED BY <1>1, <1>2, <2>1, <2>2, SpoolKept
<1> QED BY <1>3, <1>4, <1>5, <1>6 DEF JobInv

\* The answer "ok": the files are complete.
LEMMA RespondKeeps == ASSUME JobInv, DaemonInv', NEW c \in Client, Respond(c) PROVE JobInv'
<1>1. /\ OwnFiles /\ QueueInv /\ MainInv /\ HandInv /\ HeldInv /\ DaemonInv
      /\ \A d \in Client : ThreadInv(d) /\ AckInv(d)
      /\ \A k \in Jobs : SpoolInv(k)
  BY DEF JobInv
<1>2. /\ th \in ThType /\ ans \in [Client -> {None, "ok", "rejected", "lost"}]
      /\ \A k \in Jobs : data[k] # None => data[k].by \in Client
      /\ \A k \in 1 .. Len(queue) : queue[k].by \in Client
      /\ job # NoJob => job.by \in Client
  BY <1>1, FileTypes
<1>3. /\ UNCHANGED <<data, ctl, main, scan, drop, queue, live, prt, history>>
      /\ th[c].pc = "respond" /\ main = "accept"
  BY Accepting DEF Respond, disk, mem
<1>4. /\ th'[c].pc = "add" /\ th'[c].id = th[c].id /\ th'[c].n = th[c].n /\ th'[c].linked = th[c].linked
      /\ \A d \in Client : d # c => th'[d] = th[d]
  BY <1>2, GoTyped DEF Respond, Labels
<1>5. /\ \A d \in Client : d # c => ans'[d] = ans[d]
      /\ ans'[c] = "ok" => c \in live \/ ans[c] = "ok"
  BY <1>2 DEF Respond, Reply
<1>6. PICK i \in Jobs : i = th[c].id
  BY <1>1, <1>3, FileTypes DEF Numbered
<1>7. /\ ctl[i] = c /\ data[i] = [by |-> c, n |-> th[c].n]
      /\ th[c].n = Size[c] \/ c \notin live \/ "stall" \in Faults
      /\ ans[c] # "ok"
  BY <1>1, <1>3, <1>6 DEF ThreadInv, AckInv
<1>8. data[i] # None
  <2>1. [by |-> c, n |-> th[c].n] \in Docs
    BY <1>2 DEF Docs, ThType
  <2> QED BY <1>7, <2>1, Values
<1>9. ASSUME NEW d \in Client PROVE ThreadInv(d)'
  <2>1. \A e \in Client : th'[e].pc \in Numbered => th[e].pc \in Numbered /\ th'[e].id = th[e].id
    BY <1>3, <1>4 DEF Numbered
  <2>2. CASE d = c
    <3>1. /\ th'[c].pc \notin Early
          /\ \A e \in Client : th'[e].pc \in Numbered /\ th'[e].id = th'[c].id => e = c
      <4>1. th[c].pc \in Numbered /\ th'[c].pc \notin Early
        BY <1>3, <1>4 DEF Numbered, Early
      <4>2. \A e \in Client : th[e].pc \in Numbered /\ th[e].id = th[c].id => e = c
        BY <1>1, <4>1 DEF ThreadInv
      <4> QED BY <1>4, <2>1, <4>1, <4>2
    <3> QED BY <1>3, <1>4, <1>6, <1>7, <2>2, <3>1 DEF ThreadInv
  <2>3. CASE d # c
    <3>1. ThreadInv(d) /\ th'[d] = th[d] /\ live' \subseteq live /\ data' = data /\ ctl' = ctl
      BY <1>1, <1>3, <1>4, <2>3
    <3>2. th[d].pc \in Numbered =>
            \A e \in Client : th'[e].pc \in Numbered /\ th'[e].id = th[d].id => e = d
      BY <2>1, <3>1 DEF ThreadInv
    <3> QED BY <3>1, <3>2, ThreadKept
  <2> QED BY <2>2, <2>3
<1>10. ASSUME NEW d \in Client PROVE AckInv(d)'
  <2>1. CASE d = c
    BY <1>1, <1>3, <1>4, <1>7, <1>8, <2>1 DEF AckInv, history, Over
  <2>2. CASE d # c
    BY <1>1, <1>3, <1>4, <1>5, <2>2 DEF AckInv, history, Over
  <2> QED BY <2>1, <2>2
<1>11. ASSUME NEW k \in Jobs PROVE SpoolInv(k)'
  <2>1. CASE ctl[k] = c
    <3>1. k = i
      BY <1>1, <1>7, <2>1 DEF OwnFiles
    <3>2. ans'[c] = "ok" /\ "stall" \notin Faults => data[k] = Whole(c)
      BY <1>5, <1>7, <3>1 DEF Whole
    <3> QED BY <1>1, <1>2, <1>3, <1>4, <2>1, <3>2 DEF SpoolInv, prt, history, Over, Early
  <2>2. CASE ctl[k] # c
    <3>1. SpoolInv(k) /\ UNCHANGED <<data, ctl, ppc, job, Over, unread>>
      BY <1>1, <1>3 DEF prt, history, Over
    <3>2. data[k] # None => th'[data[k].by].pc \notin Early
      BY <1>2, <1>4, <3>1 DEF SpoolInv, Early
    <3>3. ctl[k] \in Client => /\ th'[ctl[k]].pc \in {"respond", "add", "signal", "done"}
                               /\ ans'[ctl[k]] = "ok" => ans[ctl[k]] = "ok"
      BY <1>4, <1>5, <2>2, <3>1 DEF SpoolInv
    <3> QED BY <3>1, <3>2, <3>3, SpoolKept
  <2> QED BY <2>1, <2>2
<1>12. QueueInv'
  <2>1. /\ \A k \in 1 .. Len(queue) : queue[k].by # c
        /\ job # NoJob => job.by # c
    BY <1>1, <1>3 DEF QueueInv
  <2>2. NoDuplicateJob'
    BY <1>1, <1>3 DEF QueueInv, NoDuplicateJob, prt
  <2> QED BY <1>1, <1>2, <1>3, <1>4, <2>1, <2>2 DEF QueueInv, prt
<1>13. OwnFiles' /\ MainInv' /\ HandInv'
  BY <1>1, <1>3 DEF OwnFiles, MainInv, HandInv, prt, history, Over
<1>14. HeldInv'
  BY <1>1, <1>3, <1>4 DEF HeldInv, prt, history, Over
<1> QED BY <1>9, <1>10, <1>11, <1>12, <1>13, <1>14 DEF JobInv

\* The job goes to the list, and the printer thread is woken.
LEMMA ListKeeps == ASSUME JobInv, DaemonInv', NEW c \in Client, AddJob(c) \/ SignalJob(c) PROVE JobInv'
<1>1. /\ OwnFiles /\ QueueInv /\ MainInv /\ HandInv /\ HeldInv /\ DaemonInv
      /\ \A d \in Client : ThreadInv(d) /\ AckInv(d)
      /\ \A k \in Jobs : SpoolInv(k)
  BY DEF JobInv
<1>2. /\ th \in ThType /\ queue \in Seq(JobType)
      /\ \A k \in Jobs : data[k] # None => data[k].by \in Client
      /\ \A k \in 1 .. Len(queue) : queue[k].by \in Client
      /\ job # NoJob => job.by \in Client
  BY <1>1, FileTypes
<1>3. /\ UNCHANGED <<data, ctl, main, scan, drop, live, ans, job, Over, cancelled, unread>>
      /\ th[c].pc \in {"add", "signal"} /\ main = "accept"
  BY Accepting DEF AddJob, SignalJob, disk, mem, prt, history, Over
<1>4. /\ \/ th[c].pc = "add" /\ th'[c].pc = "signal" /\ ppc' = ppc
         \/ th[c].pc = "signal" /\ th'[c].pc = "done" /\ queue' = queue
      /\ \A d \in Client : d # c => th'[d] = th[d]
      /\ ppc' = ppc \/ (ppc = "waiting" /\ ppc' = "pick")
  <2>1. CASE AddJob(c)
    BY <1>2, <2>1 DEF AddJob, Go, prt, ThType
  <2>2. CASE SignalJob(c)
    BY <1>2, <2>2 DEF SignalJob, Signal, Go, mem, ThType
  <2> QED BY <2>1, <2>2
<1>5. ASSUME NEW d \in Client PROVE ThreadInv(d)' /\ AckInv(d)'
  <2>1. th'[c].pc \in {"signal", "done"} /\ th'[c].pc \notin Numbered /\ th'[c].pc \notin Early
    BY <1>4 DEF Numbered, Early
  <2>2. CASE d = c
    <3>1. ThreadInv(c)'
      BY <2>1 DEF ThreadInv
    <3>2. AckInv(c) /\ UNCHANGED <<data, ctl, ans, Over, unread>>
      BY <1>1, <1>3
    <3>3. c \in Over => th'[c].pc \in {"signal", "done"}
      BY <2>1
    <3>4. th'[c].pc \in {"add", "signal", "done"}
      BY <2>1
    <3>5. AckInv(c)'
      BY <3>2, <3>3, <3>4 DEF AckInv
    <3> QED BY <2>2, <3>1, <3>5
  <2>3. CASE d # c
    <3>1. ThreadInv(d) /\ th'[d] = th[d] /\ live' \subseteq live /\ data' = data /\ ctl' = ctl
      BY <1>1, <1>3, <1>4, <2>3
    <3>2. th[d].pc \in Numbered =>
            \A e \in Client : th'[e].pc \in Numbered /\ th'[e].id = th[d].id => e = d
      BY <1>4, <2>1, <3>1 DEF ThreadInv
    <3>3. ThreadInv(d)'
      BY <3>1, <3>2, ThreadKept
    <3>4. AckInv(d) /\ UNCHANGED <<ans, Over, unread>>
      BY <1>1, <1>3
    <3>5. AckInv(d)'
      BY <3>1, <3>4 DEF AckInv
    <3> QED BY <3>3, <3>5
  <2> QED BY <2>2, <2>3
<1>6. ASSUME NEW k \in Jobs PROVE SpoolInv(k)'
  <2>1. data[k] # None => th'[data[k].by].pc \notin Early
    BY <1>1, <1>2, <1>4 DEF SpoolInv, Early
  <2>2. ctl[k] \in Client => th'[ctl[k]].pc \in {"respond", "add", "signal", "done"}
    BY <1>1, <1>2, <1>4 DEF SpoolInv
  <2> QED BY <1>1, <1>3, <1>4, <2>1, <2>2, SpoolKept
<1>7. OwnFiles' /\ HandInv'
  BY <1>1, <1>3, <1>4 DEF OwnFiles, HandInv
<1>8. MainInv'
  BY <1>1, <1>3 DEF MainInv
<1>9. QueueInv' /\ HeldInv'
  <2>1. CASE SignalJob(c)
    <3>1. th[c].pc = "signal" /\ th'[c].pc = "done" /\ queue' = queue
      BY <1>4, <2>1 DEF SignalJob
    <3>2. NoDuplicateJob'
      BY <1>1, <1>3, <3>1 DEF QueueInv, NoDuplicateJob
    <3>3. QueueInv'
      BY <1>1, <1>2, <1>3, <1>4, <3>1, <3>2 DEF QueueInv
    <3>4. HeldInv'
      BY <1>1, <1>3, <1>4, <3>1 DEF HeldInv
    <3> QED BY <3>3, <3>4
  <2>2. CASE AddJob(c)
    <3>1. th[c].pc = "add" /\ th'[c].pc = "signal"
      BY <1>4, <2>2 DEF AddJob
    <3>2. PICK i \in Jobs : i = th[c].id
      BY <1>1, <3>1, FileTypes DEF Numbered
    <3>3. ctl[i] = c
      BY <1>1, <3>1, <3>2 DEF ThreadInv
    <3>4. PICK q \in JobType : q.id = i /\ q.by = c /\ queue' = Append(queue, q)
      <4>1. [id |-> i, by |-> c] \in JobType
        BY DEF JobType
      <4> QED BY <2>2, <3>2, <4>1 DEF AddJob, Append1
    <3>5. /\ Len(queue') = Len(queue) + 1 /\ queue'[Len(queue) + 1] = q /\ Len(queue) \in Nat
          /\ \A k \in 1 .. Len(queue) : queue'[k] = queue[k]
          /\ \A k \in 1 .. Len(queue') : k \in 1 .. Len(queue) \/ k = Len(queue) + 1
      <4>1. queue \in Seq(JobType)
        BY <1>2
      <4> QED BY <3>4, <4>1, OneMore
    <3>6. /\ \A k \in 1 .. Len(queue) : queue[k].id # i
          /\ job # NoJob => job.id # i
      BY <1>1, <1>2, <3>1, <3>3 DEF QueueInv
    <3>7. job.id # i
      BY <3>6, Bounds DEF NoJob, Jobs
    <3>8. NoDuplicateJob'
      <4>1. NoDuplicateJob /\ job' = job
        BY <1>1, <1>3 DEF QueueInv
      <4>2. ASSUME NEW k \in 1 .. Len(queue'), NEW l \in 1 .. Len(queue'), queue'[k].id = queue'[l].id
            PROVE  k = l
        <5>1. CASE k \in 1 .. Len(queue) /\ l \in 1 .. Len(queue)
          <6>1. queue[k].id = queue[l].id
            BY <3>5, <4>2, <5>1
          <6> QED BY <4>1, <5>1, <6>1 DEF NoDuplicateJob
        <5>2. CASE k = Len(queue) + 1
          BY <3>4, <3>5, <3>6, <4>2, <5>2
        <5>3. CASE l = Len(queue) + 1
          BY <3>4, <3>5, <3>6, <4>2, <5>3
        <5> QED BY <3>5, <5>1, <5>2, <5>3
      <4>3. ASSUME NEW k \in 1 .. Len(queue') PROVE queue'[k].id # job.id
        <5>1. CASE k \in 1 .. Len(queue)
          BY <3>5, <4>1, <5>1 DEF NoDuplicateJob
        <5>2. CASE k = Len(queue) + 1
          BY <3>4, <3>5, <3>7, <5>2
        <5> QED BY <3>5, <5>1, <5>2
      <4> QED BY <4>1, <4>2, <4>3 DEF NoDuplicateJob
    <3>9. QueueInv'
      <4>1. \A k \in 1 .. Len(queue') :
              ctl'[queue'[k].id] = queue'[k].by /\ th'[queue'[k].by].pc \in {"signal", "done"}
        <5>1. ASSUME NEW k \in 1 .. Len(queue')
              PROVE  ctl'[queue'[k].id] = queue'[k].by /\ th'[queue'[k].by].pc \in {"signal", "done"}
          <6>1. CASE k \in 1 .. Len(queue)
            <7>1. ctl[queue[k].id] = queue[k].by /\ th[queue[k].by].pc \in {"signal", "done"}
              BY <1>1, <6>1 DEF QueueInv
            <7>2. queue'[k] = queue[k] /\ queue[k].by \in Client
              BY <1>2, <3>5, <6>1
            <7>3. queue[k].by # c
              BY <3>1, <7>1
            <7> QED BY <1>3, <1>4, <7>1, <7>2, <7>3
          <6>2. CASE k = Len(queue) + 1
            BY <1>3, <3>1, <3>3, <3>4, <3>5, <6>2
          <6> QED BY <3>5, <6>1, <6>2
        <5> QED BY <5>1
      <4>2. scan' = {}
        BY <1>1, <1>3 DEF MainInv
      <4>3. job' # NoJob => ctl'[job'.id] = job'.by /\ th'[job'.by].pc \in {"signal", "done"}
        BY <1>1, <1>2, <1>3, <1>4, <3>1 DEF QueueInv
      <4> QED BY <3>8, <4>1, <4>2, <4>3 DEF QueueInv
    <3>10. HeldInv'
      <4> SUFFICES ASSUME NEW j \in Jobs, ctl[j] \in Client \ cancelled
                   PROVE  \/ j \in scan \/ job.id = j \/ (\E k \in 1 .. Len(queue') : queue'[k].id = j)
                          \/ th'[ctl[j]].pc \in {"respond", "add"}
        BY <1>3 DEF HeldInv
      <4>1. CASE ctl[j] = c
        <5>1. j = i
          BY <1>1, <3>3, <4>1 DEF OwnFiles
        <5>2. Len(queue) + 1 \in 1 .. Len(queue')
          BY <3>5
        <5> QED BY <3>4, <3>5, <5>1, <5>2
      <4>2. CASE ctl[j] # c
        <5>1. \/ j \in scan \/ job.id = j \/ (\E k \in 1 .. Len(queue) : queue[k].id = j)
              \/ th[ctl[j]].pc \in {"respond", "add"}
          BY <1>1, <1>3 DEF HeldInv
        <5>2. 1 .. Len(queue) \subseteq 1 .. Len(queue')
          BY <3>5
        <5> QED BY <1>4, <3>5, <4>2, <5>1, <5>2
      <4> QED BY <4>1, <4>2
    <3> QED BY <3>9, <3>10
  <2> QED BY <2>1, <2>2
<1> QED BY <1>5, <1>6, <1>7, <1>8, <1>9 DEF JobInv

=============================================================================
