--------------------------------- MODULE Printd ---------------------------------
(***************************************************************************)
(* The print spooler of src/apue/apue.3e/printer: the daemon printd with    *)
(* its main, signal, printer and client threads, the spool directory, and   *)
(* the print commands that submit one file each.                            *)
(*                                                                          *)
(* A spooled job has a data file and a control file, both named by its job  *)
(* number; the queue of pending jobs is in memory and is rebuilt from the   *)
(* control files when the daemon starts.                                    *)
(***************************************************************************)
EXTENDS Integers, Sequences, FiniteSets

CONSTANTS
  Client,    \* print commands; each submits one file
  Size,      \* Size[c]: how many reads it takes to receive the file of c
  MaxJob,    \* the largest job number (INT32_MAX)
  JobFiles,  \* what the job file may hold when the daemon is first started; 0: empty
  MaxConf,   \* bound: how often the configuration file is edited
  BadConf,   \* versions of the configuration file without a printer
  MaxPrint,  \* bound: how often the printer prints a file without confirming it
  Faults,    \* what goes wrong around the daemon, a subset of FaultKinds
  None

FaultKinds == {"stall", "die", "disk", "open", "read", "printer"}

ASSUME PrintdConstants ==
  /\ MaxJob \in 1 .. 998   \* Digits below knows numbers of up to three digits
  /\ JobFiles \subseteq 0 .. MaxJob /\ JobFiles # {}
  /\ MaxConf \in Nat /\ BadConf \subseteq 1 .. MaxConf
  /\ MaxPrint \in Nat \ {0} /\ Faults \subseteq FaultKinds
  /\ Size \in [Client -> Nat]
  /\ None \notin Client \cup {"empty", "ok"} \cup [by : Client, n : Nat]
  /\ "empty" \notin Client
  /\ IsFiniteSet(Client) /\ Cardinality(Client) <= MaxJob   \* no number twice in one run

Jobs == 1 .. MaxJob

VARIABLES
  data,      \* data[j]: the data file of job j, [by |-> client, n |-> reads stored]
  ctl,       \* ctl[j]: its control file: "empty", or the client whose request it holds
  jobfile,   \* the number in the job file, 0 when it is empty
  conf,      \* version of the configuration file
  main,      \* where the main thread is, "down" when there is no daemon
  scan,      \* control files build_qonstart has not read yet
  drop,      \* job build_qonstart is removing
  nextjob,   \* next job number; MaxJob + 1 stands for INT32_MIN
  queue,     \* pending jobs, [id |-> number, by |-> client of the request]
  th,        \* client threads: [pc, id, n, linked]
  live,      \* print commands that have not been killed
  ans,       \* what each print command was answered
  ppc, job,  \* the printer thread and the job it has picked up
  doc,       \* the data file it has open
  outcome,   \* what the printer does with the request it was sent
  printer,   \* version of the configuration that the daemon uses
  reread,    \* SIGHUP asked to read the configuration again
  hup,       \* history: version of the configuration at the last SIGHUP
  want,      \* history: hup when the printer thread picked its job up
  line,      \* history: clients in the order of add_job, until their job is over
  printed,   \* history: how often each file was printed
  partial,   \* history: clients of whom an incomplete file was printed
  confirmed, \* history: clients whose file the printer has confirmed
  torn,      \* history: confirmed clients whose file a stop has left to be printed again
  cancelled, \* history: clients whose job this daemon gave up, a file not opening
  unread     \* history: clients whose request could not be read, so that it was removed

disk == <<data, ctl, jobfile, conf>>

mem == <<main, scan, drop, nextjob, queue>>

client == <<th, live, ans>>

prt == <<ppc, job, doc, outcome>>

config == <<printer, reread, hup, want>>

history == <<line, printed, partial, confirmed, torn, cancelled, unread>>

vars == <<disk, mem, client, prt, config, history>>

NewThread == [pc |-> "new", id |-> 0, n |-> 0, linked |-> FALSE]

NoJob == [id |-> 0, by |-> None]

NoDoc == [by |-> None, n |-> 0]

Init ==
  /\ data = [j \in Jobs |-> None] /\ ctl = [j \in Jobs |-> None]
  /\ jobfile \in JobFiles
  /\ conf = 0
  /\ main = "down" /\ scan = {} /\ drop = 0 /\ nextjob = 1 /\ queue = <<>>
  /\ th = [c \in Client |-> NewThread]
  /\ live = Client
  /\ ans = [c \in Client |-> None]
  /\ ppc = "down" /\ job = NoJob /\ doc = NoDoc /\ outcome = "none"
  /\ printer = 0 /\ reread = FALSE /\ hup = 0 /\ want = 0
  /\ line = <<>> /\ printed = [c \in Client |-> 0] /\ partial = {} /\ confirmed = {}
  /\ torn = {} /\ cancelled = {} /\ unread = {}

-----------------------------------------------------------------------------
(* The main thread.                                                         *)

\* Mutant: no look for jobs of an earlier daemon.
StartEmpty ==
  /\ main = "down" /\ conf \notin BadConf /\ jobfile <= MaxJob
  /\ main' = "build"
  /\ nextjob' = IF jobfile = 0 THEN 1 ELSE jobfile
  /\ scan' = {}
  /\ ppc' = "pick"
  /\ printer' = conf /\ hup' = conf
  /\ UNCHANGED <<disk, drop, queue, client, job, doc, outcome, reread, want, history>>

\* init_request and init_printer; then the printer and signal threads run while
\* the main thread looks for jobs an earlier daemon has left (build_qonstart).
\* What atol makes of a job file beyond INT32_MAX is not modelled.
Start ==
  /\ main = "down" /\ conf \notin BadConf /\ jobfile <= MaxJob
  /\ main' = "build"
  /\ nextjob' = IF jobfile = 0 THEN 1 ELSE jobfile
  /\ scan' = {j \in Jobs : ctl[j] # None}
  /\ ppc' = "pick"
  /\ printer' = conf /\ hup' = conf
  /\ UNCHANGED <<disk, drop, queue, client, job, doc, outcome, reread, want, history>>

\* A file that is removed is still open where it was open, but has no name.
Unlinked(j, pc) ==
  th' = [c \in Client |-> IF th[c].id = j /\ th[c].pc = pc
                          THEN [th[c] EXCEPT !.linked = FALSE] ELSE th[c]]

\* joblock is free: every other critical section is a single step.
JobsUnlocked == \A c \in Client : th[c].pc # "wrap"

\* add_job: the job goes to the end of the list.
Append1(j) ==
  /\ JobsUnlocked
  /\ queue' = Append(queue, j)
  /\ line' = Append(line, j.by)

\* Mutant: the directory entry is read again.
BuildAddAgain(j) ==
  /\ main = "build" /\ j \in scan /\ ctl[j] \in Client /\ Len(queue) < 3
  /\ scan' = scan
  /\ Append1([id |-> j, by |-> ctl[j]])
  /\ main' = "signal"
  /\ UNCHANGED <<disk, drop, nextjob, client, prt, config, printed, partial, confirmed, torn, cancelled, unread>>

\* A complete control file becomes a job.
BuildAdd(j) ==
  /\ main = "build" /\ j \in scan /\ ctl[j] \in Client
  /\ scan' = scan \ {j}
  /\ Append1([id |-> j, by |-> ctl[j]])
  /\ main' = "signal"
  /\ UNCHANGED <<disk, drop, nextjob, client, prt, config, printed, partial, confirmed, torn, cancelled, unread>>

\* pthread_cond_signal, after joblock has been released.
Signal == ppc' = IF ppc = "waiting" THEN "pick" ELSE ppc

BuildSignal ==
  /\ main = "signal"
  /\ Signal
  /\ main' = "build"
  /\ UNCHANGED <<disk, scan, drop, nextjob, queue, client, job, doc, outcome, config, history>>

\* Mutant: a control file that cannot be opened is removed.
BuildSkipRemoves(j) ==
  /\ main = "build" /\ j \in scan /\ "open" \in Faults
  /\ scan' = scan \ {j}
  /\ ctl' = [ctl EXCEPT ![j] = None]
  /\ drop' = j
  /\ main' = "unlink"
  /\ UNCHANGED <<data, jobfile, conf, nextjob, queue, client, prt, config, history>>

\* The control file cannot be opened: its job stays in the spool directory.
BuildSkip(j) ==
  /\ main = "build" /\ j \in scan /\ "open" \in Faults
  /\ scan' = scan \ {j}
  /\ cancelled' = cancelled \cup ({ctl[j]} \cap Client)
  /\ UNCHANGED <<disk, main, drop, nextjob, queue, client, prt, config, line, printed, partial, confirmed, torn, unread>>

\* A control file that is incomplete, or whole and not readable, is removed, then
\* the data file of the job.
BuildDrop(j) ==
  /\ main = "build" /\ j \in scan /\ (ctl[j] = "empty" \/ "read" \in Faults)
  /\ scan' = scan \ {j}
  /\ ctl' = [ctl EXCEPT ![j] = None]
  /\ drop' = j
  /\ main' = "unlink"
  /\ unread' = unread \cup ({ctl[j]} \cap Client)
  /\ UNCHANGED <<data, jobfile, conf, nextjob, queue, client, prt, config, line, printed, partial>>
  /\ UNCHANGED <<confirmed, torn, cancelled>>

BuildUnlink ==
  /\ main = "unlink"
  /\ data' = [data EXCEPT ![drop] = None]
  /\ main' = "build" /\ drop' = 0
  /\ UNCHANGED <<ctl, jobfile, conf, scan, nextjob, queue, client, prt, config, history>>

BuildDone ==
  /\ main = "build" /\ scan = {}
  /\ main' = "accept"
  /\ UNCHANGED <<disk, scan, drop, nextjob, queue, client, prt, config, history>>

\* A connection is accepted and gets a thread.
Accept(c) ==
  /\ main = "accept" /\ th[c].pc = "new" /\ c \in live
  /\ th' = [th EXCEPT ![c].pc = "header"]
  /\ UNCHANGED <<disk, mem, live, ans, prt, config, history>>

-----------------------------------------------------------------------------
(* A client thread.                                                         *)

\* The thread of client c goes on at pc.
Go(c, pc) == th' = [th EXCEPT ![c].pc = pc]

\* What is written to the socket reaches a print command that is still there.
Reply(c, a) == ans' = IF c \in live THEN [ans EXCEPT ![c] = a] ELSE ans

ReadHeader(c) ==
  /\ th[c].pc = "header" /\ c \in live
  /\ Go(c, "jobno")
  /\ UNCHANGED <<disk, mem, live, ans, prt, config, history>>

\* End of file or nothing for 10 seconds.
HeaderFails(c) ==
  /\ th[c].pc = "header" /\ (c \notin live \/ "stall" \in Faults)
  /\ Reply(c, "rejected")
  /\ Go(c, "done")
  /\ UNCHANGED <<disk, mem, live, prt, config, history>>

\* Mutant: two threads may get the same number.
GetNewjobnoSame(c) ==
  /\ th[c].pc = "jobno" /\ JobsUnlocked
  /\ th' = [th EXCEPT ![c].id = nextjob, ![c].pc = IF nextjob = MaxJob THEN "wrap" ELSE "creat"]
  /\ nextjob' = IF \E d \in Client \ {c} : th[d].pc = "jobno" THEN nextjob ELSE nextjob + 1
  /\ UNCHANGED <<disk, main, scan, drop, queue, live, ans, prt, config, history>>

\* Mutant: the number is not wrapped around.
GetNewjobnoNoWrap(c) ==
  /\ th[c].pc = "jobno" /\ JobsUnlocked
  /\ th' = [th EXCEPT ![c].id = nextjob, ![c].pc = "creat"]
  /\ nextjob' = nextjob + 1
  /\ UNCHANGED <<disk, main, scan, drop, queue, live, ans, prt, config, history>>

\* nextjob++, which overflows after the largest number.
GetNewjobno(c) ==
  /\ th[c].pc = "jobno" /\ JobsUnlocked
  /\ th' = [th EXCEPT ![c].id = nextjob, ![c].pc = IF nextjob = MaxJob THEN "wrap" ELSE "creat"]
  /\ nextjob' = nextjob + 1
  /\ UNCHANGED <<disk, main, scan, drop, queue, live, ans, prt, config, history>>

\* The overflow is set right with joblock still held.
WrapJobno(c) ==
  /\ th[c].pc = "wrap"
  /\ nextjob' = 1
  /\ Go(c, "creat")
  /\ UNCHANGED <<disk, main, scan, drop, queue, live, ans, prt, config, history>>

\* creat truncates a file that exists.
CreatData(c) ==
  /\ th[c].pc = "creat"
  /\ data' = [data EXCEPT ![th[c].id] = [by |-> c, n |-> 0]]
  /\ th' = [th EXCEPT ![c].pc = "data", ![c].linked = TRUE]
  /\ UNCHANGED <<ctl, jobfile, conf, mem, live, ans, prt, config, history>>

CreatDataFails(c) ==
  /\ th[c].pc = "creat" /\ "disk" \in Faults
  /\ Reply(c, "rejected")
  /\ Go(c, "done")
  /\ UNCHANGED <<disk, mem, live, prt, config, history>>

ReadData(c) ==
  /\ th[c].pc = "data" /\ c \in live /\ th[c].n < Size[c]
  /\ th' = [th EXCEPT ![c].n = @ + 1]
  /\ data' = IF th[c].linked THEN [data EXCEPT ![th[c].id] = [by |-> c, n |-> th[c].n + 1]] ELSE data
  /\ UNCHANGED <<ctl, jobfile, conf, mem, live, ans, prt, config, history>>

WriteDataFails(c) ==
  /\ th[c].pc = "data" /\ c \in live /\ th[c].n < Size[c] /\ "disk" \in Faults
  /\ Reply(c, "rejected")
  /\ Go(c, "unlinkdata")
  /\ UNCHANGED <<disk, mem, live, prt, config, history>>

\* The read loop ends at end of file, or when nothing comes for 20 seconds: the
\* print command has sent all and waits for its answer, is gone, or is stuck.
EndOfData(c) ==
  /\ th[c].pc = "data" /\ (th[c].n = Size[c] \/ c \notin live \/ "stall" \in Faults)
  /\ Go(c, "creatctl")
  /\ UNCHANGED <<disk, mem, live, ans, prt, config, history>>

CreatCtl(c) ==
  /\ th[c].pc = "creatctl"
  /\ ctl' = [ctl EXCEPT ![th[c].id] = "empty"]
  /\ th' = [th EXCEPT ![c].pc = "writectl", ![c].linked = TRUE]
  /\ UNCHANGED <<data, jobfile, conf, mem, live, ans, prt, config, history>>

CreatCtlFails(c) ==
  /\ th[c].pc = "creatctl" /\ "disk" \in Faults
  /\ Reply(c, "rejected")
  /\ Go(c, "unlinkdata")
  /\ UNCHANGED <<disk, mem, live, prt, config, history>>

WriteCtl(c) ==
  /\ th[c].pc = "writectl"
  /\ ctl' = IF th[c].linked THEN [ctl EXCEPT ![th[c].id] = c] ELSE ctl
  /\ Go(c, "respond")
  /\ UNCHANGED <<data, jobfile, conf, mem, live, ans, prt, config, history>>

WriteCtlFails(c) ==
  /\ th[c].pc = "writectl" /\ "disk" \in Faults
  /\ Reply(c, "rejected")
  /\ Go(c, "unlinkctl")
  /\ UNCHANGED <<disk, mem, live, prt, config, history>>

\* A rejected job is removed from the spool directory.
UnlinkCtl(c) ==
  /\ th[c].pc = "unlinkctl"
  /\ ctl' = [ctl EXCEPT ![th[c].id] = None]
  /\ Go(c, "unlinkdata")
  /\ UNCHANGED <<data, jobfile, conf, mem, live, ans, prt, config, history>>

\* Mutant: the data file of a rejected job stays.
UnlinkDataForgotten(c) ==
  /\ th[c].pc = "unlinkdata"
  /\ Go(c, "done")
  /\ UNCHANGED <<disk, mem, live, ans, prt, config, history>>

UnlinkData(c) ==
  /\ th[c].pc = "unlinkdata"
  /\ data' = [data EXCEPT ![th[c].id] = None]
  /\ Go(c, "done")
  /\ UNCHANGED <<ctl, jobfile, conf, mem, live, ans, prt, config, history>>

\* The client is told its job number before the job is in the queue.
Respond(c) ==
  /\ th[c].pc = "respond"
  /\ Reply(c, "ok")
  /\ Go(c, "add")
  /\ UNCHANGED <<disk, mem, live, prt, config, history>>

AddJob(c) ==
  /\ th[c].pc = "add"
  /\ Append1([id |-> th[c].id, by |-> c])
  /\ Go(c, "signal")
  /\ UNCHANGED <<disk, main, scan, drop, nextjob, live, ans, prt, config, printed, partial, confirmed, torn, cancelled, unread>>

\* Mutant: the waiting thread is not woken.
SignalForgotten(c) ==
  /\ th[c].pc = "signal"
  /\ Go(c, "done")
  /\ UNCHANGED <<disk, mem, live, ans, prt, config, history>>

SignalJob(c) ==
  /\ th[c].pc = "signal"
  /\ Signal
  /\ Go(c, "done")
  /\ UNCHANGED <<disk, mem, live, ans, job, doc, outcome, config, history>>

-----------------------------------------------------------------------------
(* The printer thread.                                                      *)

\* The list is empty: wait for jobwait.
Wait ==
  /\ ppc = "pick" /\ queue = <<>> /\ JobsUnlocked
  /\ ppc' = "waiting"
  /\ UNCHANGED <<disk, mem, client, job, doc, outcome, config, history>>

\* pthread_cond_wait may also return without a signal.
SpuriousWakeup ==
  /\ ppc = "waiting"
  /\ ppc' = "pick"
  /\ UNCHANGED <<disk, mem, client, job, doc, outcome, config, history>>

\* Mutant: the job is not taken off the list.
PickKept ==
  /\ ppc = "pick" /\ queue # <<>> /\ JobsUnlocked
  /\ job' = Head(queue)
  /\ want' = hup
  /\ ppc' = "jobno"
  /\ UNCHANGED <<disk, mem, client, doc, outcome, printer, reread, hup, history>>

Pick ==
  /\ ppc = "pick" /\ queue # <<>> /\ JobsUnlocked
  /\ job' = Head(queue) /\ queue' = Tail(queue)
  /\ want' = hup
  /\ ppc' = "jobno"
  /\ UNCHANGED <<disk, main, scan, drop, nextjob, client, doc, outcome, printer, reread, hup, history>>

Digits(n) == IF n < 10 THEN 1 ELSE IF n < 100 THEN 2 ELSE 3

Power10(n) == IF n = 0 THEN 1 ELSE IF n = 1 THEN 10 ELSE 100

\* The number at the start of a file that held old, after n is written over it:
\* the file is not truncated, so the last digits of a longer old number stay.
Overwritten(old, n) ==
  LET d == Digits(old) - Digits(n)
  IN  IF old = 0 \/ d <= 0 THEN n ELSE (n * Power10(d)) + (old % Power10(d))

\* nextjob is read without joblock: a number that is about to be wrapped around
\* may be what is written.
UpdateJobno ==
  /\ ppc = "jobno"
  /\ jobfile' = Overwritten(jobfile, nextjob)
  /\ ppc' = "conf"
  /\ UNCHANGED <<data, ctl, conf, mem, client, job, doc, outcome, config, history>>

\* The flag is cleared before the configuration is read again.
CheckReread ==
  /\ ppc = "conf"
  /\ ppc' = IF reread THEN "init" ELSE "open"
  /\ reread' = FALSE
  /\ UNCHANGED <<disk, mem, client, job, doc, outcome, printer, hup, want, history>>

\* Mutant: the address that was looked up at the start is used again.
InitPrinterOld ==
  /\ ppc = "init" /\ conf \notin BadConf
  /\ printer' = printer
  /\ ppc' = "open"
  /\ UNCHANGED <<disk, mem, client, job, doc, outcome, reread, hup, want, history>>

InitPrinter ==
  /\ ppc = "init" /\ conf \notin BadConf
  /\ printer' = conf
  /\ ppc' = "open"
  /\ UNCHANGED <<disk, mem, client, job, doc, outcome, reread, hup, want, history>>

OpenData ==
  /\ ppc = "open" /\ data[job.id] # None
  /\ doc' = data[job.id]
  /\ ppc' = "connect"
  /\ UNCHANGED <<disk, mem, client, job, outcome, config, history>>

\* The job is over; its control file stays.
OpenFails ==
  /\ ppc = "open" /\ (data[job.id] = None \/ "open" \in Faults)
  /\ job' = NoJob
  /\ line' = Tail(line)
  /\ cancelled' = cancelled \cup {job.by}
  /\ ppc' = "pick"
  /\ UNCHANGED <<disk, mem, client, doc, outcome, config, printed, partial, confirmed, torn, unread>>

Contact ==
  /\ ppc = "connect"
  /\ ppc' = "send"
  /\ UNCHANGED <<disk, mem, client, job, doc, outcome, config, history>>

ContactFails ==
  /\ ppc = "connect" /\ "printer" \in Faults
  /\ ppc' = "replace"
  /\ UNCHANGED <<disk, mem, client, job, doc, outcome, config, history>>

\* The file as it is now; the open file when its name is gone.
Doc == IF data[job.id] = None THEN doc ELSE data[job.id]

\* The headers and the file are written.  The printer prints the file unless it
\* answers with an error; its answer may get lost.
Send(o) ==
  /\ ppc = "send"
  /\ o # "ok" => "printer" \in Faults
  /\ o = "lost" => printed[Doc.by] < MaxPrint
  /\ outcome' = o
  /\ IF o = "error" THEN UNCHANGED <<printed, partial>>
     ELSE /\ printed' = [printed EXCEPT ![Doc.by] = IF @ < MaxPrint THEN @ + 1 ELSE @]
          /\ partial' = IF Doc.n < Size[Doc.by] THEN partial \cup {Doc.by} ELSE partial
  /\ ppc' = "status"
  /\ UNCHANGED <<disk, mem, client, job, doc, config, line, confirmed, torn, cancelled, unread>>

SendFails ==
  /\ ppc = "send" /\ "printer" \in Faults
  /\ ppc' = "replace"
  /\ UNCHANGED <<disk, mem, client, job, doc, outcome, config, history>>

\* printer_status returned 1: the job is done.
StatusOk ==
  /\ ppc = "status" /\ outcome = "ok"
  /\ confirmed' = confirmed \cup {job.by} /\ torn' = torn \ {job.by}
  /\ outcome' = "none"
  /\ ppc' = "unlinkdata"
  /\ UNCHANGED <<disk, mem, client, job, doc, config, line, printed, partial, cancelled, unread>>

\* Mutant: a job the printer did not confirm is given up.
StatusBadDropped ==
  /\ ppc = "status" /\ outcome # "ok"
  /\ outcome' = "none"
  /\ job' = NoJob /\ doc' = NoDoc /\ line' = Tail(line)
  /\ ppc' = "pick"
  /\ UNCHANGED <<disk, mem, client, config, printed, partial, confirmed, torn, cancelled, unread>>

\* printer_status returned 0.
StatusBad ==
  /\ ppc = "status" /\ outcome # "ok"
  /\ outcome' = "none"
  /\ ppc' = "replace"
  /\ UNCHANGED <<disk, mem, client, job, doc, config, history>>

\* Mutant: the data file is to be removed after the control file.
RemoveDataLater ==
  /\ ppc = "unlinkdata"
  /\ ppc' = "unlinkctl"
  /\ UNCHANGED <<disk, mem, client, job, doc, outcome, config, history>>

\* Mutant: a job that was printed goes back to the list.
RemoveDataReplace ==
  /\ ppc = "unlinkdata"
  /\ ppc' = "replace"
  /\ UNCHANGED <<disk, mem, client, job, doc, outcome, config, history>>

RemoveData ==
  /\ ppc = "unlinkdata"
  /\ data' = [data EXCEPT ![job.id] = None]
  /\ Unlinked(job.id, "data")
  /\ ppc' = "unlinkctl"
  /\ UNCHANGED <<ctl, jobfile, conf, mem, live, ans, job, doc, outcome, config, history>>

RemoveCtl ==
  /\ ppc = "unlinkctl"
  /\ ctl' = [ctl EXCEPT ![job.id] = None]
  /\ Unlinked(job.id, "writectl")
  /\ job' = NoJob /\ doc' = NoDoc
  /\ line' = Tail(line)
  /\ ppc' = "pick"
  /\ UNCHANGED <<data, jobfile, conf, mem, live, ans, outcome, config, printed, partial, confirmed, torn, cancelled, unread>>

\* Mutant: a deferred job goes to the end of the list.
ReplaceJobLast ==
  /\ ppc = "replace" /\ JobsUnlocked
  /\ queue' = Append(queue, job)
  /\ job' = NoJob /\ doc' = NoDoc
  /\ ppc' = "sleep"
  /\ UNCHANGED <<disk, main, scan, drop, nextjob, client, outcome, config, history>>

\* replace_job: a deferred job goes back to the head of the list.
ReplaceJob ==
  /\ ppc = "replace" /\ JobsUnlocked
  /\ queue' = <<job>> \o queue
  /\ job' = NoJob /\ doc' = NoDoc
  /\ ppc' = "sleep"
  /\ UNCHANGED <<disk, main, scan, drop, nextjob, client, outcome, config, history>>

\* nanosleep of one minute.
Slept ==
  /\ ppc = "sleep"
  /\ ppc' = "pick"
  /\ UNCHANGED <<disk, mem, client, job, doc, outcome, config, history>>

-----------------------------------------------------------------------------
(* Signals, the administrator, and the end of the daemon.                   *)

\* signal_thread on SIGHUP.
Sighup ==
  /\ main # "down"
  /\ reread' = TRUE
  /\ hup' = conf
  /\ UNCHANGED <<disk, mem, client, prt, printer, want, history>>

EditConfig ==
  /\ conf < MaxConf
  /\ conf' = conf + 1
  /\ UNCHANGED <<data, ctl, jobfile, mem, client, prt, config, history>>

\* A print command is killed or gives up.
ClientDies(c) ==
  /\ "die" \in Faults /\ c \in live /\ ans[c] = None /\ th[c].pc # "new"
  /\ live' = live \ {c}
  /\ UNCHANGED <<disk, mem, th, ans, prt, config, history>>

\* The process ends and takes its threads and its memory along.
Down ==
  /\ main' = "down" /\ scan' = {} /\ drop' = 0 /\ queue' = <<>>
  /\ th' = [c \in Client |-> IF th[c].pc = "new" THEN th[c] ELSE [NewThread EXCEPT !.pc = "done"]]
  /\ ans' = [c \in Client |-> IF th[c].pc # "new" /\ ans[c] = None THEN "lost" ELSE ans[c]]
  /\ ppc' = "down" /\ job' = NoJob /\ doc' = NoDoc /\ outcome' = "none"
  /\ reread' = FALSE
  /\ line' = <<>> /\ cancelled' = {}
  /\ torn' = IF ppc = "unlinkdata" THEN torn \cup {job.by} ELSE torn
  /\ UNCHANGED <<disk, nextjob, live, printer, hup, want, printed, partial, confirmed, unread>>

\* init_printer finds no printer in the configuration file and exits.
InitPrinterFails ==
  /\ ppc = "init" /\ conf \in BadConf
  /\ Down

\* SIGTERM, a crash, or the machine going down.
Stop ==
  /\ main # "down"
  /\ Down

-----------------------------------------------------------------------------
MainStep ==
  BuildSignal \/ BuildUnlink \/ BuildDone \/ \E j \in Jobs : BuildAdd(j) \/ BuildSkip(j) \/ BuildDrop(j)

\* The steps of a client thread that depend on no fault.
ClientStep(c) ==
  \/ ReadHeader(c) \/ GetNewjobno(c) \/ WrapJobno(c) \/ CreatData(c) \/ ReadData(c) \/ EndOfData(c)
  \/ CreatCtl(c) \/ WriteCtl(c) \/ UnlinkCtl(c) \/ UnlinkData(c)
  \/ Respond(c) \/ AddJob(c) \/ SignalJob(c)

ClientFails(c) ==
  HeaderFails(c) \/ CreatDataFails(c) \/ WriteDataFails(c) \/ CreatCtlFails(c) \/ WriteCtlFails(c)

PrinterStep ==
  \/ Wait \/ Pick \/ UpdateJobno \/ CheckReread \/ InitPrinter
  \/ OpenData \/ OpenFails \/ Contact \/ (\E o \in {"ok", "lost", "error"} : Send(o))
  \/ StatusOk \/ StatusBad \/ RemoveData \/ RemoveCtl \/ ReplaceJob \/ Slept

Next ==
  \/ Start \/ MainStep \/ Sighup \/ EditConfig
  \/ PrinterStep \/ SpuriousWakeup \/ ContactFails \/ SendFails
  \/ \E c \in Client : Accept(c) \/ ClientStep(c) \/ ClientFails(c) \/ ClientDies(c)

\* A daemon that is not stopped.
Spec == Init /\ [][Next]_vars

\* The threads of the daemon are scheduled, and a printer that is asked again and
\* again is at last reached, takes the file and confirms it.
FairSpec ==
  /\ Spec /\ WF_vars(Start) /\ WF_vars(MainStep) /\ WF_vars(PrinterStep)
  /\ \A c \in Client : WF_vars(ClientStep(c))
  /\ SF_vars(Contact) /\ SF_vars(Send("ok"))

\* No spooled job has a number that a daemon started now would give out again.
Recorded == \A j \in Jobs : ctl[j] # None => j < jobfile

\* The daemon may be stopped, but not while such a job is spooled.
StopNext == Next \/ (Recorded /\ (Stop \/ InitPrinterFails))

StopSpec == Init /\ [][StopNext]_vars

\* The daemon may be stopped at any time.
KillNext == Next \/ Stop \/ InitPrinterFails

KillSpec == Init /\ [][KillNext]_vars

-----------------------------------------------------------------------------
Labels == {"new", "header", "jobno", "wrap", "creat", "data", "creatctl", "writectl", "unlinkctl",
           "unlinkdata", "respond", "add", "signal", "done"}

PrinterLabels == {"down", "pick", "waiting", "jobno", "conf", "init", "open", "connect", "send",
                  "status", "unlinkdata", "unlinkctl", "replace", "sleep"}

Docs == [by : Client, n : Nat]

DiskType ==
  /\ data \in [Jobs -> Docs \cup {None}]
  /\ ctl \in [Jobs -> Client \cup {"empty", None}]
  /\ jobfile \in Nat /\ conf \in 0 .. MaxConf

JobType == [id : Jobs, by : Client]

MemType ==
  /\ main \in {"down", "build", "signal", "unlink", "accept"}
  /\ scan \in SUBSET Jobs /\ drop \in 0 .. MaxJob /\ nextjob \in 1 .. MaxJob + 1
  /\ queue \in Seq(JobType)
  /\ th \in [Client -> [pc : Labels, id : 0 .. MaxJob, n : Nat, linked : BOOLEAN]]
  /\ live \in SUBSET Client /\ ans \in [Client -> {None, "ok", "rejected", "lost"}]
  /\ ppc \in PrinterLabels /\ job \in JobType \cup {NoJob} /\ doc \in Docs \cup {NoDoc}
  /\ outcome \in {"none", "ok", "lost", "error"}
  /\ printer \in 0 .. MaxConf /\ reread \in BOOLEAN /\ hup \in 0 .. MaxConf /\ want \in 0 .. MaxConf

\* Every variable of the daemon and every file has the type the code gives it.
TypeOK ==
  /\ DiskType /\ MemType
  /\ line \in Seq(Client) /\ printed \in [Client -> 0 .. MaxPrint]
  /\ partial \in SUBSET Client /\ confirmed \in SUBSET Client
  /\ torn \in SUBSET Client /\ cancelled \in SUBSET Client /\ unread \in SUBSET Client

Whole(c) == [by |-> c, n |-> Size[c]]

\* A client that was given a job number has its whole file and its request in the
\* spool directory until the printer has confirmed the job, across restarts: only a
\* request that build_qonstart opens and then fails to read is removed with its data.
AckedKept ==
  \A c \in Client : ans[c] = "ok" /\ c \notin confirmed \cup unread =>
    \E j \in Jobs : ctl[j] = c /\ data[j] = Whole(c)

InHand(c) == job.by = c \/ th[c].pc = "add" \/ \E i \in 1 .. Len(queue) : queue[i].by = c

\* While the daemon takes requests, every acknowledged job that is not confirmed is in
\* the list, at the printer thread, or about to be added: only a job whose file could
\* not be opened waits for a restart (printer_thread and build_qonstart give it up),
\* and one whose request could not be read is gone.
AckedQueued ==
  main = "accept" =>
    \A c \in Client : ans[c] = "ok" /\ c \notin confirmed \cup cancelled \cup unread => InHand(c)

\* One job is never in two places of the list, nor in the list and at the printer
\* thread, although build_qonstart and the printer thread run side by side.
NoDuplicateJob ==
  /\ \A i, j \in 1 .. Len(queue) : queue[i].id = queue[j].id => i = j
  /\ \A i \in 1 .. Len(queue) : queue[i].id # job.id

\* Jobs are served in the order of add_job: the job at the printer is always the
\* oldest one that is not over, however often it is deferred.
ServedInOrder ==
  job # NoJob => line # <<>> /\ job.by = Head(line)

\* A file the printer has confirmed is not printed again (while the daemon is not stopped).
NoReprint == [][\A c \in Client : printed'[c] # printed[c] => c \notin confirmed]_vars

\* Across restarts: a file the printer has confirmed is printed again only if a stop
\* fell between the confirmation and the unlink of the data file (printer_thread); a
\* stop between the two unlinks, or while the next daemon clears up, reprints nothing.
ReprintOnlyTorn == [][\A c \in Client : printed'[c] # printed[c] => c \notin confirmed \ torn]_vars

\* A SIGHUP that precedes the picking up of a job is honoured for this job: it goes
\* to the printer of that version of the configuration file or a later one.
ConfigHonoured == ppc \in {"open", "connect", "send", "status"} => printer >= want

\* With no thread at work and no job pending the spool directory is empty: rejected
\* and printed jobs leave nothing behind (as long as the daemon is not stopped).
SpoolClean ==
  (/\ main = "accept" /\ queue = <<>> /\ job = NoJob
   /\ \A c \in Client : th[c].pc \in {"new", "header", "jobno", "wrap", "done"})
  => \A j \in Jobs : data[j] = None /\ ctl[j] = None

\* Only whole files are printed.
PrintedWhole == partial = {}

\* Every acknowledged job is printed at last.
AckedPrinted == \A c \in Client : (ans[c] = "ok") ~> (printed[c] > 0)

=============================================================================
