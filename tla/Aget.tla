-------------------------------- MODULE Aget --------------------------------
(***************************************************************************)
(* The multithreaded downloader aget, in the copies of aget-bug1 and       *)
(* aget-bug2/aget-devel, which differ in delays only.  Each worker fetches *)
(* one section of the file (http_get, ftp_get); the main thread joins them *)
(* and starts all of them again unless all succeeded; a signal thread      *)
(* shows the progress and, on SIGINT, saves a log from which the next run  *)
(* of the program resumes.                                                 *)
(*                                                                         *)
(* A byte of the file is a position 0 .. CLength-1; the file maps each     *)
(* position to the content byte it holds, and is right where it holds its  *)
(* own.  Local and remote failures are under the control of constants.     *)
(***************************************************************************)
EXTENDS Integers

CONSTANTS NThreads,      (* nthreads                                           *)
          CLength,       (* clength, the content length                        *)
          Nets,          (* the networks to consider: the protocol, whether
                            workers may fail to connect, and whether established
                            connections may break                              *)
          Header,        (* the bytes of a reply's header                      *)
          FirstMax,      (* content bytes the first recv gets, at most         *)
          BufMax,        (* content bytes a later recv gets, at most           *)
          LockSurvives,  (* may a cancelled thread leave stdio's lock held?    *)
          NoLog, Free,
          MaxRounds,     (* bound: how often workers are started, in all runs  *)
          MaxRuns        (* bound: how often the program is run                *)

ASSUME AgetAssumption ==
  /\ NThreads \in Nat \ {0} /\ CLength \in Nat \ {0} /\ NThreads <= CLength
  /\ {Header, FirstMax, BufMax, MaxRuns, MaxRounds} \subseteq Nat \ {0}
  /\ Nets \subseteq [http : BOOLEAN, connFails : BOOLEAN, recvFails : BOOLEAN]
  /\ LockSurvives \in BOOLEAN
  /\ Free \notin 1 .. MaxRounds

(* No log is not a log.                                                       *)
ASSUME NoLogAssumption ==
  NoLog \notin [soffset : [1 .. NThreads -> 0 .. CLength],
                offset  : [1 .. NThreads -> 0 .. CLength],
                status  : [1 .. NThreads -> {"STAT_OK", "STAT_INT", "STAT_ERR"}]]

Workers == 1 .. NThreads
Waiters == 1 .. MaxRounds      \* every round creates a signal thread
Bytes   == 0 .. CLength - 1
Hole    == -1

calc_offset(part) == part * (CLength \div NThreads)
Start(i)  == calc_offset(i - 1)
Finish(i) == IF i = NThreads THEN CLength ELSE calc_offset(i)

VARIABLES
  net,                                \* never changes
  file,                               \* on disk: the download and the log
  log,
  outcome, runs,                      \* the process: "running", or how it ended
  mode, main, mi, nok, round,         \* the main thread, and rounds of its retry loop
  mainCancel, hcancel,                \* pthread_cancel of main_tid, of hthread
  soffset, offset, status, tid,       \* wthread[]
  wpc, async, dw, pos, wcancel,       \* the workers; pos: next byte their peer sends
  bwritten,
  hpc, hi, saved,                     \* the signal threads
  sigint, stdio                       \* SIGINT, and who holds the lock of stdout

diskVars   == <<file, log>>
procVars   == <<net, outcome, runs, mode>>
mainVars   == <<main, mi, nok, round, mainCancel, hcancel>>
recVars    == <<soffset, offset, status, tid>>
workVars   == <<wpc, async, dw, pos, wcancel>>
signalVars == <<hpc, hi, saved, sigint, stdio>>
vars == <<diskVars, procVars, mainVars, recVars, workVars, bwritten, signalVars>>

Http      == net.http
ConnFails == net.connFails
RecvFails == net.recvFails
NetWorks  == ~ConnFails /\ ~RecvFails

Running == outcome = "running"
Dead(i) == wpc[i] \in {"none", "dead"}

(***************************************************************************)
(* main(), read_log and the first part of startHTTP or resumeDownload.     *)
(* A fresh start writes a "0" at the file's last byte, and read_log takes  *)
(* bwritten from the log and removes the log.                              *)
(***************************************************************************)
NewProcess ==
  /\ ~Running /\ runs < MaxRuns
  /\ outcome' = "running" /\ runs' = runs + 1
  /\ main' = "prepare" /\ mi' = 1 /\ nok' = 0
  /\ mainCancel' = FALSE /\ hcancel' = FALSE
  /\ wpc' = [i \in Workers |-> "none"] /\ async' = [i \in Workers |-> TRUE]
  /\ dw' = [i \in Workers |-> 0] /\ pos' = [i \in Workers |-> 0]
  /\ wcancel' = [i \in Workers |-> FALSE]
  /\ hpc' = [h \in Waiters |-> "none"] /\ hi' = 1 /\ saved' = NoLog
  /\ sigint' = "none" /\ stdio' = Free
  /\ UNCHANGED <<net, round>>

StartClean ==
  /\ log = NoLog /\ NewProcess
  /\ mode' = "start" /\ bwritten' = 0
  /\ soffset' = [i \in Workers |-> 0] /\ offset' = [i \in Workers |-> 0]
  /\ status' = [i \in Workers |-> "STAT_ERR"]
  /\ tid' = [i \in Workers |-> "unset"]
  /\ file' = [file EXCEPT ![CLength - 1] = Hole]
  /\ UNCHANGED log

read_log == bwritten' = log.bwritten /\ log' = NoLog

Resume ==
  /\ log # NoLog /\ NewProcess /\ read_log
  /\ mode' = "resume"
  /\ soffset' = log.soffset /\ offset' = log.offset /\ status' = log.status
  /\ tid' = [i \in Workers |-> "unset"]      \* those of a process that is gone
  /\ UNCHANGED file

(***************************************************************************)
(* The main thread.  "status | STAT_OK" is never zero, so that every round *)
(* restarts every worker; nok and bwritten are not reset.  Here and below  *)
(* some decisions of the code are preceded by a faulty variant, which no   *)
(* specification uses.                                                     *)
(***************************************************************************)
RangeStart(i) == IF mode = "start" THEN Start(i) ELSE offset[i]

Prepare ==
  /\ Running /\ main = "prepare" /\ round < MaxRounds
  /\ soffset' = [i \in Workers |-> RangeStart(i)] /\ offset' = soffset'
  /\ round' = round + 1 /\ mi' = 1 /\ main' = "waiter"
  /\ UNCHANGED <<diskVars, procVars, nok, mainCancel, hcancel, status, tid, workVars,
                 bwritten, signalVars>>

CreateWaiter ==
  /\ Running /\ main = "waiter"
  /\ hpc' = [hpc EXCEPT ![round] = "wait"]
  /\ main' = "create"
  /\ UNCHANGED <<diskVars, procVars, mi, nok, round, mainCancel, hcancel, recVars, workVars,
                 bwritten, hi, saved, sigint, stdio>>

CreateWorker ==
  /\ Running /\ main = "create"
  /\ wpc' = [wpc EXCEPT ![mi] = "start"] /\ async' = [async EXCEPT ![mi] = TRUE]
  /\ wcancel' = [wcancel EXCEPT ![mi] = FALSE]
  /\ tid' = [tid EXCEPT ![mi] = "valid"]
  /\ main' = "created"
  /\ UNCHANGED <<diskVars, procVars, mi, nok, round, mainCancel, hcancel, soffset, offset,
                 status, dw, pos, bwritten, signalVars>>

(* The loop heads behind the pthread_testcancel of the two loops.            *)
MoreWorkers == mi < NThreads

NextWorker(from, to, after) ==
  /\ Running /\ main = from /\ ~mainCancel
  /\ IF MoreWorkers THEN mi' = mi + 1 /\ main' = to
                      ELSE mi' = 1 /\ main' = after
  /\ UNCHANGED <<diskVars, procVars, nok, round, mainCancel, hcancel, recVars, workVars,
                 bwritten, signalVars>>

NextToCreate == NextWorker("created", "create", "join")
NextToJoin   == NextWorker("joined", "join", "decide")

Joinable(i) == wpc[i] = "dead"

JoinWorker ==
  /\ Running /\ main = "join" /\ Joinable(mi)
  /\ nok' = IF status[mi] = "STAT_OK" THEN nok + 1 ELSE nok
  /\ tid' = [tid EXCEPT ![mi] = "gone"]
  /\ main' = "joined"
  /\ UNCHANGED <<diskVars, procVars, mi, round, mainCancel, hcancel, soffset, offset, status,
                 workVars, bwritten, signalVars>>

EverybodyOk == nok = NThreads

Decide ==
  /\ Running /\ main = "decide"
  /\ IF EverybodyOk THEN hcancel' = TRUE /\ main' = "report"
                    ELSE main' = "prepare" /\ UNCHANGED hcancel
  /\ UNCHANGED <<diskVars, procVars, mi, nok, round, mainCancel, recVars, workVars, bwritten,
                 signalVars>>

(* Log("Download completed"), and the return from main ends the process.     *)
Report ==
  /\ Running /\ main = "report" /\ stdio = Free
  /\ outcome' = "completed"
  /\ UNCHANGED <<diskVars, net, runs, mode, mainVars, recVars, workVars, bwritten, signalVars>>

(* The cancellation points: pthread_testcancel, pthread_join, close.         *)
MainCancelled ==
  /\ Running /\ mainCancel /\ main \in {"created", "join", "joined", "report"}
  /\ main' = "dead"
  /\ UNCHANGED <<diskVars, procVars, mi, nok, round, mainCancel, hcancel, recVars, workVars,
                 bwritten, signalVars>>

(***************************************************************************)
(* A worker.  dw is what pwrite returned; wpc "advance" is between pwrite  *)
(* and the assignment of offset, "add" between that and the addition to    *)
(* bwritten (under its mutex, one step here), "test" the testcancel.       *)
(***************************************************************************)
Exit(i) == wpc' = [wpc EXCEPT ![i] = "dead"] /\ UNCHANGED <<async, dw, pos, wcancel>>

Least(m, n) == IF m < n THEN m ELSE n

NothingToDoAtZero(i) == soffset[i] <= 0 \/ soffset[i] >= Finish(i)
NothingToDo(i) == soffset[i] < 0 \/ soffset[i] >= Finish(i)

BeginDone(i) ==
  /\ Running /\ wpc[i] = "start" /\ NothingToDo(i)
  /\ status' = [status EXCEPT ![i] = "STAT_OK"]
  /\ Exit(i)
  /\ UNCHANGED <<diskVars, procVars, mainVars, soffset, offset, tid, bwritten, signalVars>>

(* The Range of the request.                                                 *)
RequestWholeSection(i) == Start(i)
RequestFrom(i) == soffset[i]

Connect(i) ==
  /\ Running /\ wpc[i] = "start" /\ ~NothingToDo(i)
  /\ wpc' = [wpc EXCEPT ![i] = IF Http THEN "first" ELSE "recv"]
  /\ pos' = [pos EXCEPT ![i] = RequestFrom(i)]
  /\ offset' = IF Http THEN offset ELSE [offset EXCEPT ![i] = soffset[i]]
  /\ UNCHANGED <<diskVars, procVars, mainVars, soffset, status, tid, async, dw, wcancel,
                 bwritten, signalVars>>

ConnectFails(i) ==
  /\ Running /\ wpc[i] = "start" /\ ~NothingToDo(i) /\ ConnFails
  /\ Exit(i)
  /\ UNCHANGED <<diskVars, procVars, mainVars, recVars, bwritten, signalVars>>

(* pwrite of n bytes from position p of the content at offset o: -1 (EINVAL) *)
(* if the offset or, as an ssize_t, the count is negative.                   *)
pwrite(i, o, n, p) ==
  LET legal == o >= 0 /\ n >= 0
  IN  /\ file' = [b \in Bytes |-> IF legal /\ o <= b /\ b < o + n THEN p + (b - o)
                                                                  ELSE file[b]]
      /\ dw' = [dw EXCEPT ![i] = IF legal THEN n ELSE -1]

(* Of the k content bytes behind the header, http_get writes k, or           *)
(* Finish(i) - Header if k exceeds Finish(i).                                *)
FirstCount(i, k) == IF k > Finish(i) THEN Finish(i) - Header ELSE k

FirstChunk(i) ==
  /\ Running /\ wpc[i] = "first"
  /\ \E k \in 0 .. Least(FirstMax, CLength - pos[i]) :
        /\ pwrite(i, soffset[i], FirstCount(i, k), pos[i])
        /\ pos' = [pos EXCEPT ![i] = @ + k]
  /\ wpc' = [wpc EXCEPT ![i] = "advance"]
  /\ UNCHANGED <<log, procVars, mainVars, recVars, async, wcancel, bwritten, signalVars>>

Count(i, n) == IF offset[i] + n > Finish(i) THEN Finish(i) - offset[i] ELSE n

(* recv gets 0 at the end of what the peer sends, and after a failure; what  *)
(* http_get does with -1 it does with any length, ftp_get's recv_data exits. *)
Received(i) ==
  IF pos[i] >= CLength THEN {0}
  ELSE 1 .. Least(BufMax, CLength - pos[i])
       \cup (IF RecvFails THEN IF Http THEN {0, -1} ELSE {0} ELSE {})

Receive(i) ==
  /\ Running /\ wpc[i] = "recv"
  /\ \E n \in Received(i) :
        /\ pwrite(i, offset[i], Count(i, n), pos[i])
        /\ pos' = [pos EXCEPT ![i] = IF n > 0 THEN pos[i] + n ELSE CLength]
  /\ async' = [async EXCEPT ![i] = FALSE]
  /\ wpc' = [wpc EXCEPT ![i] = "advance"]
  /\ UNCHANGED <<log, procVars, mainVars, recVars, wcancel, bwritten, signalVars>>

(* A reply other than 206, most failures of an FTP session, and a failure in *)
(* recv_data exit the program.                                               *)
Refused(i) ==
  \/ ConnFails /\ wpc[i] = (IF Http THEN "first" ELSE "start") /\ ~NothingToDo(i)
  \/ RecvFails /\ ~Http /\ wpc[i] = "recv"

ServerRefuses(i) ==
  /\ Running /\ Refused(i)
  /\ outcome' = "ended"
  /\ UNCHANGED <<diskVars, net, runs, mode, mainVars, recVars, workVars, bwritten, signalVars>>

(* td->offset += dw; behind the first chunk offset is still soffset.         *)
Advance(i) ==
  /\ Running /\ wpc[i] = "advance"
  /\ offset' = [offset EXCEPT ![i] = @ + dw[i]]
  /\ wpc' = [wpc EXCEPT ![i] = "add"]
  /\ UNCHANGED <<diskVars, procVars, mainVars, soffset, status, tid, async, dw, pos, wcancel,
                 bwritten, signalVars>>

Counted(i) == bwritten + dw[i]

AddBwritten(i) ==
  /\ Running /\ wpc[i] = "add"
  /\ bwritten' = Counted(i)
  /\ wpc' = [wpc EXCEPT ![i] = "test"]
  /\ UNCHANGED <<diskVars, procVars, mainVars, recVars, async, dw, pos, wcancel, signalVars>>

NextChunk(i) ==
  /\ Running /\ wpc[i] = "test" /\ ~wcancel[i] /\ offset[i] < Finish(i)
  /\ wpc' = [wpc EXCEPT ![i] = "recv"] /\ async' = [async EXCEPT ![i] = TRUE]
  /\ UNCHANGED <<diskVars, procVars, mainVars, recVars, dw, pos, wcancel, bwritten, signalVars>>

SectionDone(i) ==
  /\ Running /\ wpc[i] = "test" /\ ~wcancel[i] /\ offset[i] >= Finish(i)
  /\ status' = IF offset[i] = Finish(i) THEN [status EXCEPT ![i] = "STAT_OK"] ELSE status
  /\ Exit(i)
  /\ UNCHANGED <<diskVars, procVars, mainVars, soffset, offset, tid, bwritten, signalVars>>

(* Anywhere while cancellation is asynchronous; otherwise in the usleep that *)
(* aget-bug2's http_get has before the addition, and in pthread_testcancel.  *)
WorkerCancelled(i) ==
  /\ Running /\ wcancel[i] /\ ~Dead(i)
  /\ async[i] \/ wpc[i] \in (IF Http THEN {"add", "test"} ELSE {"test"})
  /\ Exit(i)
  /\ UNCHANGED <<diskVars, procVars, mainVars, recVars, bwritten, signalVars>>

(***************************************************************************)
(* The signal threads.  A SIGINT before the first of them waits kills the  *)
(* process and is left out; bound: one SIGINT in a run.                    *)
(***************************************************************************)
SigintArrives ==
  /\ Running /\ sigint = "none" /\ \E h \in Waiters : hpc[h] # "none"
  /\ sigint' = "pending"
  /\ UNCHANGED <<diskVars, procVars, mainVars, recVars, workVars, bwritten, hpc, hi, saved, stdio>>

(* A step of signal thread h from one of its places to another.              *)
WaiterStep(h, from, to) == /\ Running /\ hpc[h] = from
                           /\ hpc' = [hpc EXCEPT ![h] = to]

(* updateProgressBar: stdio's lock is held over each output.                 *)
ShowProgress(h) ==
  /\ WaiterStep(h, "wait", "bar") /\ stdio = Free
  /\ stdio' = h
  /\ UNCHANGED <<diskVars, procVars, mainVars, recVars, workVars, bwritten, hi, saved, sigint>>

ProgressShown(h) ==
  /\ WaiterStep(h, "bar", "wait")
  /\ stdio' = Free
  /\ UNCHANGED <<diskVars, procVars, mainVars, recVars, workVars, bwritten, hi, saved, sigint>>

TakeSigint(h) ==
  /\ WaiterStep(h, "wait", "announce") /\ sigint = "pending"
  /\ sigint' = "taken"
  /\ UNCHANGED <<diskVars, procVars, mainVars, recVars, workVars, bwritten, hi, saved, stdio>>

CancelMain(h) ==
  /\ WaiterStep(h, "announce", "joinmain") /\ stdio = Free
  /\ mainCancel' = TRUE
  /\ UNCHANGED <<diskVars, procVars, main, mi, nok, round, hcancel, recVars, workVars, bwritten,
                 hi, saved, sigint, stdio>>

MainJoined(h) ==
  /\ WaiterStep(h, "joinmain", "cancel") /\ main = "dead"
  /\ hi' = 1
  /\ UNCHANGED <<diskVars, procVars, mainVars, recVars, workVars, bwritten, saved, sigint, stdio>>

Masked(s) == IF s = "STAT_OK" THEN "STAT_INT" ELSE s      \* s & STAT_INT

CancelWorker(h) ==
  /\ tid[hi] = "valid"
  /\ WaiterStep(h, "cancel", IF hi = NThreads THEN "check" ELSE "cancel")
  /\ wcancel' = [wcancel EXCEPT ![hi] = TRUE]
  /\ status' = [status EXCEPT ![hi] = Masked(@)]
  /\ hi' = IF hi = NThreads THEN hi ELSE hi + 1
  /\ UNCHANGED <<diskVars, procVars, mainVars, soffset, offset, tid, wpc, async, dw, pos,
                 bwritten, saved, sigint, stdio>>

(* pthread_cancel of -1 or 0 dereferences it.                                *)
CancelNobody(h) ==
  /\ Running /\ hpc[h] = "cancel" /\ tid[hi] # "valid"
  /\ outcome' = "crashed"
  /\ UNCHANGED <<diskVars, net, runs, mode, mainVars, recVars, workVars, bwritten, signalVars>>

(* save_log, with the workers still running until their cancellation acts.   *)
AlreadyComplete(h) ==
  /\ Running /\ hpc[h] = "check" /\ stdio = Free /\ bwritten = CLength
  /\ outcome' = "already complete"
  /\ UNCHANGED <<diskVars, net, runs, mode, mainVars, recVars, workVars, bwritten, signalVars>>

NotComplete(h) ==
  /\ bwritten # CLength /\ stdio = Free
  /\ WaiterStep(h, "check", "copy")
  /\ UNCHANGED <<diskVars, procVars, mainVars, recVars, workVars, bwritten, hi, saved, sigint,
                 stdio>>

CopyWthread(h) ==
  /\ WaiterStep(h, "copy", "bytes")
  /\ saved' = [soffset |-> soffset, offset |-> offset, status |-> status]
  /\ UNCHANGED <<diskVars, procVars, mainVars, recVars, workVars, bwritten, hi, sigint, stdio>>

SaveLog(h) ==
  /\ Running /\ hpc[h] = "bytes"
  /\ log' = [soffset |-> saved.soffset, offset |-> saved.offset, status |-> saved.status,
             bwritten |-> bwritten]
  /\ outcome' = "saved"
  /\ UNCHANGED <<file, net, runs, mode, mainVars, recVars, workVars, bwritten, signalVars>>

(* The asynchronous cancellation of hthread, the youngest signal thread.     *)
WaiterCancelled(h) ==
  /\ Running /\ hcancel /\ h = round /\ hpc[h] \notin {"none", "dead"}
  /\ hpc' = [hpc EXCEPT ![h] = "dead"]
  /\ \/ stdio' = IF stdio = h THEN Free ELSE stdio
     \/ LockSurvives /\ stdio' = stdio
  /\ UNCHANGED <<diskVars, procVars, mainVars, recVars, workVars, bwritten, hi, saved, sigint>>

(* The last thread's end ends the process.                                   *)
LastThreadEnds ==
  /\ Running /\ main = "dead"
  /\ \A i \in Workers : Dead(i)
  /\ \A h \in Waiters : hpc[h] \in {"none", "dead"}
  /\ outcome' = "ended"
  /\ UNCHANGED <<diskVars, net, runs, mode, mainVars, recVars, workVars, bwritten, signalVars>>

(***************************************************************************)
(* The specification.                                                      *)
(***************************************************************************)
Init ==
  /\ net \in Nets
  /\ file = [b \in Bytes |-> Hole] /\ log = NoLog
  /\ outcome = "ended" /\ runs = 0 /\ mode = "start"
  /\ main = "dead" /\ mi = 1 /\ nok = 0 /\ round = 0
  /\ mainCancel = FALSE /\ hcancel = FALSE
  /\ soffset = [i \in Workers |-> 0] /\ offset = [i \in Workers |-> 0]
  /\ status = [i \in Workers |-> "STAT_ERR"] /\ tid = [i \in Workers |-> "unset"]
  /\ wpc = [i \in Workers |-> "none"] /\ async = [i \in Workers |-> TRUE]
  /\ dw = [i \in Workers |-> 0] /\ pos = [i \in Workers |-> 0]
  /\ wcancel = [i \in Workers |-> FALSE] /\ bwritten = 0
  /\ hpc = [h \in Waiters |-> "none"] /\ hi = 1 /\ saved = NoLog
  /\ sigint = "none" /\ stdio = Free

Main == \/ Prepare \/ CreateWaiter \/ CreateWorker \/ NextToCreate \/ JoinWorker \/ NextToJoin
        \/ Decide \/ Report \/ MainCancelled

http_get(i) == \/ BeginDone(i) \/ Connect(i) \/ ConnectFails(i) \/ FirstChunk(i) \/ Receive(i)
               \/ ServerRefuses(i) \/ Advance(i) \/ AddBwritten(i) \/ NextChunk(i) \/ SectionDone(i)
               \/ WorkerCancelled(i)

sigint_handler(h) == \/ TakeSigint(h) \/ CancelMain(h) \/ MainJoined(h) \/ CancelWorker(h)
                     \/ CancelNobody(h) \/ AlreadyComplete(h) \/ NotComplete(h)
                     \/ CopyWthread(h) \/ SaveLog(h)

signal_waiter(h) == ShowProgress(h) \/ ProgressShown(h) \/ sigint_handler(h) \/ WaiterCancelled(h)

Next == \/ StartClean \/ Resume \/ Main \/ SigintArrives \/ LastThreadEnds
        \/ \E i \in Workers : http_get(i)
        \/ \E h \in Waiters : signal_waiter(h)

Spec == Init /\ [][Next]_vars

(* The scheduler runs every thread; nobody has to press ^C, run the program   *)
(* again or let an alarm pass.                                                *)
Fairness == /\ WF_vars(Main \/ LastThreadEnds)
            /\ \A i \in Workers : WF_vars(http_get(i))
            /\ WF_vars(\E h \in Waiters : ProgressShown(h) \/ sigint_handler(h))
            /\ WF_vars(\E h \in Waiters : WaiterCancelled(h))

FairSpec == Spec /\ Fairness

(***************************************************************************)
(* Properties.                                                             *)
(***************************************************************************)
RightUpTo(i, o) == \A b \in Start(i) .. o - 1 : file[b] = b
Whole == \A b \in Bytes : file[b] = b

(* No first answer reaches beyond the end of the first section.               *)
SmallFirst == \A i \in Workers : FirstMax <= Finish(i)

SumOver(f) == LET upTo[n \in 0 .. NThreads] == IF n = 0 THEN 0 ELSE f[n] + upTo[n - 1]
              IN  upTo[NThreads]

(* A worker whose status says STAT_OK has put every byte of its section in    *)
(* the file, in this run or an earlier one (Download.c:149, "Tell thet        *)
(* download is OK").                                                          *)
SectionsRight == \A i \in Workers : status[i] = "STAT_OK" => RightUpTo(i, Finish(i))

(* A saved log can be resumed from: what a section's saved offset says was    *)
(* written is in the file, although the workers ran on while save_log copied  *)
(* their records.                                                             *)
LogLosesNothing ==
  /\ log # NoLog => \A i \in Workers : RightUpTo(i, log.offset[i])
  /\ saved # NoLog => \A i \in Workers : RightUpTo(i, saved.offset[i])

(* Over a network that works aget prints "Download completed" only when it    *)
(* has all of the file.  (Where workers fail it does not: nok counts a worker *)
(* that succeeded in every round, in the place of one that did not.)          *)
CompletedIsWhole == outcome = "completed" /\ NetWorks => Whole

(* save_log says "Download already complete" only when the file is.           *)
AlreadyCompleteIsWhole == outcome = "already complete" => Whole

(* maple_verify's assertion: the saved bwritten is what the saved sections    *)
(* got (verifier.h:43).                                                       *)
LogVerifies ==
  log # NoLog => log.bwritten = SumOver([i \in Workers |-> log.offset[i] - log.soffset[i]])

(* "signal handler won't wait for the same thread" (Aget.c:177): a SIGINT in  *)
(* the midst of the joins, as at any other time, does not make the handler    *)
(* use a thread id that is none.                                              *)
HandlerUsesThreads == outcome # "crashed"

=============================================================================
