----------------------------- MODULE Aget_proof -----------------------------
(***************************************************************************)
(* Proofs about Aget, for every number of workers, length of the file,     *)
(* size of the chunks and number of rounds and runs, ^C and failures at    *)
(* any time included: finished sections are in the file (SectionsRight),   *)
(* a log can be resumed from (LogLosesNothing), and over a network that    *)
(* works a completed download is whole (CompletedIsWhole).                 *)
(*                                                                         *)
(* Two hypotheses stand for two errors of http_get that break them: no     *)
(* first answer reaches beyond the end of the first section (SmallFirst),  *)
(* and recv does not fail in the midst of an HTTP reply (HttpHolds).       *)
(***************************************************************************)
EXTENDS Aget, TLAPS

HttpHolds == ~(Http /\ RecvFails)

-----------------------------------------------------------------------------
(* The inductive invariant.                                                  *)
Offsets == [Workers -> 0 .. CLength]
Stati   == [Workers -> {"STAT_OK", "STAT_INT", "STAT_ERR"}]
Logs(r) == r.soffset \in Offsets /\ r.offset \in Offsets /\ r.status \in Stati

Typed ==
  /\ net \in Nets
  /\ file \in [Bytes -> Int]
  /\ main \in {"prepare", "waiter", "create", "created", "join", "joined", "decide",
               "report", "dead"}
  /\ mi \in Workers
  /\ soffset \in Offsets /\ offset \in Offsets /\ status \in Stati
  /\ wpc \in [Workers -> {"none", "start", "first", "recv", "advance", "add", "test", "dead"}]
  /\ dw \in [Workers -> 0 .. CLength] /\ pos \in Offsets
  /\ wcancel \in [Workers -> BOOLEAN]
  /\ hpc \in [Waiters -> {"none", "wait", "bar", "announce", "joinmain", "cancel", "check",
                          "copy", "bytes", "dead"}]
  /\ log # NoLog => Logs(log)
  /\ saved # NoLog => Logs(saved)

(* What the peer of a worker sends next belongs at o, or it sends no more.   *)
Follows(i, o) == pos[i] = o \/ pos[i] = CLength

(* A worker's offset is never ahead of the file, and what it writes next is
   what belongs there.                                                       *)
FetchOf(i) ==
  /\ RightUpTo(i, offset[i])
  /\ wpc[i] \in {"start", "first"} => soffset[i] = offset[i]
  /\ wpc[i] = "first" => pos[i] = offset[i]
  /\ wpc[i] = "recv" => offset[i] < Finish(i) /\ Follows(i, offset[i])
  /\ wpc[i] = "advance" => /\ offset[i] + dw[i] <= CLength
                           /\ RightUpTo(i, offset[i] + dw[i])
                           /\ offset[i] + dw[i] < Finish(i) => Follows(i, offset[i] + dw[i])
  /\ wpc[i] \in {"add", "test"} /\ offset[i] < Finish(i) => Follows(i, offset[i])
FetchInv == \A i \in Workers : FetchOf(i)

(* The workers the main thread has not created in this round, and those it has
   joined, are not running.                                                  *)
Uncreated(i) == \/ main = "waiter"
                \/ main = "create" /\ i >= mi
                \/ main = "created" /\ i > mi
Joined(i) == \/ main = "join" /\ i < mi
             \/ main = "joined" /\ i <= mi
             \/ main \in {"decide", "report"}
RoundInv == /\ main = "waiter" => mi = 1
            /\ \A i \in Workers :
                 /\ Uncreated(i) => Dead(i) /\ soffset[i] = offset[i]
                 /\ main = "prepare" => Dead(i)
                 /\ Joined(i) => wpc[i] = "dead"

(* Nothing the log or its draft says of the file is untrue.                   *)
LogInv == /\ LogLosesNothing
          /\ log # NoLog => \A i \in Workers :
               log.status[i] = "STAT_OK" => RightUpTo(i, Finish(i))
          /\ saved # NoLog => \A i \in Workers :
               saved.status[i] = "STAT_OK" => RightUpTo(i, Finish(i))

(* Workers are cancelled when the main thread is dead; until then, over a
   network that works, one that ended was done.                              *)
EndInv == /\ \A h \in Waiters : hpc[h] \in {"cancel", "check", "copy", "bytes"} => main = "dead"
          /\ \A h \in Waiters : hpc[h] = "bytes" => saved # NoLog
          /\ \A i \in Workers : wcancel[i] => main = "dead"
          /\ NetWorks => \A i \in Workers :
               wpc[i] = "dead" /\ ~Uncreated(i) /\ main \notin {"prepare", "dead"}
                 => offset[i] >= Finish(i)

IInv == /\ Typed /\ FetchInv /\ RoundInv /\ SectionsRight /\ LogInv /\ EndInv
        /\ CompletedIsWhole

-----------------------------------------------------------------------------
(* The sections.                                                              *)
USE AgetAssumption
USE DEF diskVars, procVars, mainVars, recVars, workVars, signalVars

LEMMA Divided ==
  ASSUME NEW a \in Nat, NEW d \in Nat \ {0}
  PROVE  /\ a \div d \in Nat
         /\ d * (a \div d) <= a /\ a < d * (a \div d) + d
  BY SMT

LEMMA Times ==
  ASSUME NEW a \in Nat, NEW b \in Nat, NEW c \in Nat, a <= b
  PROVE  a * c \in Nat /\ a * c <= b * c
  BY SMT

(* The sections are parts of the file and cover it.                           *)
LEMMA Sections ==
  /\ \A i \in Workers : Start(i) \in 0 .. CLength /\ Finish(i) \in 0 .. CLength
  /\ \A b \in Bytes : \E i \in Workers : Start(i) <= b /\ b < Finish(i)
<1> DEFINE q == CLength \div NThreads
<1>1. /\ NThreads \in Nat \ {0} /\ CLength \in Nat \ {0} /\ NThreads <= CLength
  OBVIOUS
<1>2. q \in Nat /\ NThreads * q <= CLength /\ CLength < NThreads * q + NThreads
  BY <1>1, Divided
<1>3. \A i \in Workers : Start(i) = (i - 1) * q /\ (i # NThreads => Finish(i) = i * q)
                         /\ (i = NThreads => Finish(i) = CLength)
  BY DEF Start, Finish, calc_offset
<1> HIDE DEF q
<1>4. q > 0
  BY <1>1, <1>2
<1>5. ASSUME NEW i \in Workers
      PROVE  Start(i) \in 0 .. CLength /\ Finish(i) \in 0 .. CLength
  <2>1. i \in Nat /\ i - 1 \in Nat /\ i <= NThreads /\ i - 1 <= NThreads
    BY DEF Workers
  <2>2. (i - 1) * q \in Nat /\ (i - 1) * q <= NThreads * q
    BY <1>1, <1>2, <2>1, Times
  <2>3. i * q \in Nat /\ i * q <= NThreads * q
    BY <1>1, <1>2, <2>1, Times
  <2> QED
    BY <1>1, <1>2, <1>3, <2>2, <2>3
<1>6. ASSUME NEW b \in Bytes
      PROVE  \E i \in Workers : Start(i) <= b /\ b < Finish(i)
  <2>1. b \in Nat /\ b < CLength
    BY <1>1 DEF Bytes
  <2>2. CASE (NThreads - 1) * q <= b
    BY <1>1, <1>3, <2>1, <2>2 DEF Workers
  <2>3. CASE b < (NThreads - 1) * q
    <3> DEFINE k == b \div q
    <3>1. k \in Nat /\ q * k <= b /\ b < q * k + q
      BY <1>2, <1>4, <2>1, Divided
    <3> HIDE DEF k
    <3>2. k < NThreads - 1
      <4>1. SUFFICES ASSUME NThreads - 1 <= k PROVE FALSE
        BY <1>1, <3>1
      <4>2. (NThreads - 1) * q <= k * q
        BY <1>1, <1>2, <3>1, <4>1, Times
      <4>3. k * q = q * k /\ k * q \in Nat
        BY <1>2, <3>1
      <4>4. (NThreads - 1) * q \in Int
        BY <1>1, <1>2
      <4> QED
        BY <2>1, <2>3, <3>1, <4>2, <4>3, <4>4
    <3>3. k + 1 \in Workers /\ k + 1 # NThreads
      BY <1>1, <3>1, <3>2 DEF Workers
    <3>4. Start(k + 1) = k * q /\ Finish(k + 1) = (k + 1) * q
      BY <1>3, <3>1, <3>3
    <3>5. k * q = q * k /\ (k + 1) * q = q * k + q
      BY <1>2, <3>1
    <3> QED
      BY <3>1, <3>3, <3>4, <3>5
  <2>4. (NThreads - 1) * q \in Int
    BY <1>1, <1>2
  <2> QED
    BY <2>1, <2>2, <2>3, <2>4
<1> QED
  BY <1>5, <1>6

LEMMA AllSectionsRight ==
  ASSUME \A i \in Workers : RightUpTo(i, Finish(i))
  PROVE  Whole
<1> SUFFICES ASSUME NEW b \in Bytes PROVE file[b] = b
  BY DEF Whole
<1>1. PICK i \in Workers : Start(i) <= b /\ b < Finish(i)
  BY Sections
<1>2. /\ Start(i) \in Int /\ Finish(i) \in Int /\ b \in Int
  BY Sections DEF Bytes
<1> QED
  BY <1>1, <1>2 DEF RightUpTo

(* What is right of the file stays so while workers write what belongs there.  *)
FileGrows == \A b \in Bytes : file'[b] = file[b] \/ file'[b] = b

LEMMA RightStays ==
  ASSUME FileGrows, NEW i \in Workers, NEW o \in 0 .. CLength, RightUpTo(i, o)
  PROVE  RightUpTo(i, o)'
<1>1. Start(i) \in 0 .. CLength
  BY Sections
<1>2. \A b \in Start(i) .. o - 1 : b \in Bytes
  BY <1>1 DEF Bytes
<1> QED
  BY <1>2 DEF RightUpTo, FileGrows

(* Less than what is right is right.                                           *)
LEMMA RightBelow ==
  ASSUME NEW i \in Workers, NEW o \in Nat, NEW p \in Nat, p <= o, RightUpTo(i, o)
  PROVE  RightUpTo(i, p)
  BY Sections DEF RightUpTo

-----------------------------------------------------------------------------
(* The beginning of a run.                                                     *)
LEMMA InitInv == Init => IInv
<1> SUFFICES ASSUME Init PROVE IInv
  OBVIOUS
<1>1. 1 \in Workers
  BY DEF Workers
<1>2. 0 \in 0 .. CLength
  OBVIOUS
<1>3. Typed
  BY <1>1, <1>2 DEF Init, Typed, Offsets, Stati, Hole
<1>4. \A i \in Workers : RightUpTo(i, 0)
  BY Sections DEF RightUpTo
<1>5. FetchInv
  BY <1>4 DEF Init, FetchInv, FetchOf
<1>6. RoundInv
  BY DEF Init, RoundInv, Uncreated, Joined
<1>7. SectionsRight /\ CompletedIsWhole
  BY DEF Init, SectionsRight, CompletedIsWhole
<1>8. LogInv /\ EndInv
  BY DEF Init, LogInv, LogLosesNothing, EndInv
<1> QED
  BY <1>3, <1>5, <1>6, <1>7, <1>8 DEF IInv

(* A new process has no threads but its main thread.                           *)
LEMMA NewProcessFrame ==
  ASSUME NewProcess
  PROVE  /\ outcome' = "running" /\ main' = "prepare" /\ mi' = 1 /\ net' = net
         /\ wpc' = [i \in Workers |-> "none"] /\ dw' = [i \in Workers |-> 0]
         /\ pos' = [i \in Workers |-> 0] /\ wcancel' = [i \in Workers |-> FALSE]
         /\ hpc' = [h \in Waiters |-> "none"] /\ saved' = NoLog
  BY DEF NewProcess

LEMMA StartCleanStep ==
  ASSUME IInv, StartClean
  PROVE  IInv'
<1> USE DEF IInv
<1>1. /\ outcome' = "running" /\ main' = "prepare" /\ mi' = 1 /\ net' = net
      /\ wpc' = [i \in Workers |-> "none"] /\ dw' = [i \in Workers |-> 0]
      /\ pos' = [i \in Workers |-> 0] /\ wcancel' = [i \in Workers |-> FALSE]
      /\ hpc' = [h \in Waiters |-> "none"] /\ saved' = NoLog
  BY NewProcessFrame DEF StartClean
<1>2. /\ log = NoLog /\ log' = log
      /\ soffset' = [i \in Workers |-> 0] /\ offset' = [i \in Workers |-> 0]
      /\ status' = [i \in Workers |-> "STAT_ERR"]
      /\ file' = [file EXCEPT ![CLength - 1] = Hole]
  BY DEF StartClean
<1>3. 1 \in Workers /\ 0 \in 0 .. CLength
  BY DEF Workers
<1>4. Typed'
  <2>1. file' \in [Bytes -> Int]
    <3>1. Hole \in Int /\ file \in [Bytes -> Int]
      BY DEF Hole, Typed
    <3> QED
      BY <1>2, <3>1
  <2> QED
    BY <1>1, <1>2, <1>3, <2>1 DEF Typed, Offsets, Stati
<1>5. \A i \in Workers : RightUpTo(i, 0)'
  BY Sections DEF RightUpTo
<1>6. FetchInv'
  BY <1>1, <1>2, <1>5 DEF FetchInv, FetchOf
<1>7. RoundInv' /\ SectionsRight' /\ CompletedIsWhole'
  BY <1>1, <1>2 DEF RoundInv, Uncreated, Joined, Dead, SectionsRight, CompletedIsWhole
<1>8. LogInv' /\ EndInv'
  BY <1>1, <1>2 DEF LogInv, LogLosesNothing, EndInv
<1> QED
  BY <1>4, <1>6, <1>7, <1>8

LEMMA ResumeStep ==
  ASSUME IInv, Resume
  PROVE  IInv'
<1> USE DEF IInv
<1>1. /\ outcome' = "running" /\ main' = "prepare" /\ mi' = 1 /\ net' = net
      /\ wpc' = [i \in Workers |-> "none"] /\ dw' = [i \in Workers |-> 0]
      /\ pos' = [i \in Workers |-> 0] /\ wcancel' = [i \in Workers |-> FALSE]
      /\ hpc' = [h \in Waiters |-> "none"] /\ saved' = NoLog
  BY NewProcessFrame DEF Resume
<1>2. /\ log # NoLog /\ log' = NoLog /\ file' = file
      /\ soffset' = log.soffset /\ offset' = log.offset /\ status' = log.status
  BY DEF Resume, read_log
<1>3. 1 \in Workers /\ 0 \in 0 .. CLength
  BY DEF Workers
<1>4. Typed'
  BY <1>1, <1>2, <1>3 DEF Typed, Logs, Offsets
<1>5. \A i \in Workers : /\ RightUpTo(i, log.offset[i])
                         /\ log.status[i] = "STAT_OK" => RightUpTo(i, Finish(i))
  BY <1>2 DEF LogInv, LogLosesNothing
<1>6. \A i \in Workers : /\ RightUpTo(i, offset[i])'
                         /\ status'[i] = "STAT_OK" => RightUpTo(i, Finish(i))'
  BY <1>2, <1>5 DEF RightUpTo
<1>7. FetchInv' /\ SectionsRight'
  BY <1>1, <1>2, <1>6 DEF FetchInv, FetchOf, SectionsRight
<1>8. RoundInv' /\ CompletedIsWhole'
  BY <1>1 DEF RoundInv, Uncreated, Joined, Dead, CompletedIsWhole
<1>9. LogInv' /\ EndInv'
  BY <1>1, <1>2 DEF LogInv, LogLosesNothing, EndInv
<1> QED
  BY <1>4, <1>7, <1>8, <1>9

-----------------------------------------------------------------------------
(* The main thread.                                                            *)

(* Steps that leave the file, the log and what was fetched alone.              *)
LEMMA FilesStay ==
  ASSUME FetchInv, SectionsRight, LogInv, CompletedIsWhole,
         UNCHANGED <<net, file, log, offset, status, pos, dw, saved>>,
         outcome' = outcome \/ outcome' # "completed"
  PROVE  /\ \A i \in Workers : RightUpTo(i, offset[i])'
         /\ SectionsRight' /\ LogInv' /\ CompletedIsWhole'
<1>1. \A i \in Workers : \A o : RightUpTo(i, o)' <=> RightUpTo(i, o)
  BY DEF RightUpTo
<1>2. SectionsRight' /\ LogInv'
  BY <1>1 DEF SectionsRight, LogInv, LogLosesNothing
<1>3. CompletedIsWhole'
  BY DEF CompletedIsWhole, NetWorks, ConnFails, RecvFails, Whole
<1> QED
  BY <1>1, <1>2, <1>3 DEF FetchInv, FetchOf

LEMMA PrepareStep ==
  ASSUME IInv, Prepare
  PROVE  IInv'
<1> USE DEF IInv
<1>1. /\ main = "prepare" /\ main' = "waiter" /\ mi' = 1
      /\ soffset' = [i \in Workers |-> RangeStart(i)] /\ offset' = soffset'
      /\ UNCHANGED <<file, log, net, outcome, status, wpc, dw, pos, wcancel, hpc, saved>>
  BY DEF Prepare
<1>2. 1 \in Workers
  BY DEF Workers
<1>3. \A i \in Workers : RangeStart(i) \in 0 .. CLength /\ RightUpTo(i, RangeStart(i))
  <2>1. \A i \in Workers : Start(i) \in 0 .. CLength /\ RightUpTo(i, Start(i))
    BY Sections DEF RightUpTo
  <2> QED
    BY <2>1 DEF RangeStart, Typed, Offsets, FetchInv, FetchOf
<1>4. Typed'
  BY <1>1, <1>2, <1>3 DEF Typed, Offsets
<1>5. \A i \in Workers : Dead(i)
  BY <1>1 DEF RoundInv
<1>6. \A i \in Workers : \A o : RightUpTo(i, o)' <=> RightUpTo(i, o)
  BY <1>1 DEF RightUpTo
<1>7. FetchInv'
  BY <1>1, <1>3, <1>5, <1>6 DEF FetchInv, FetchOf, Dead
<1>8. RoundInv'
  BY <1>1, <1>5 DEF RoundInv, Uncreated, Joined, Dead
<1>9. SectionsRight' /\ LogInv'
  BY <1>1, <1>6 DEF SectionsRight, LogInv, LogLosesNothing
<1>10. EndInv' /\ CompletedIsWhole'
  BY <1>1 DEF Prepare, Running, EndInv, Uncreated, CompletedIsWhole, NetWorks, ConnFails, RecvFails
<1> QED
  BY <1>4, <1>7, <1>8, <1>9, <1>10

(* The other steps of the main thread change only its own place, the signal
   threads and what a new worker begins with.                                  *)
LEMMA CreateStep ==
  ASSUME IInv, CreateWaiter \/ CreateWorker
  PROVE  IInv'
<1> USE DEF IInv
<1>1. CASE CreateWaiter
  <2>1. /\ main = "waiter" /\ main' = "create" /\ mi' = mi
        /\ hpc' = [hpc EXCEPT ![round] = "wait"]
        /\ UNCHANGED <<file, log, net, outcome, soffset, offset, status, wpc, dw, pos, wcancel, saved>>
    BY <1>1 DEF CreateWaiter
  <2>2. Typed'
    BY <2>1 DEF Typed
  <2>3. FetchInv' /\ SectionsRight' /\ LogInv' /\ CompletedIsWhole'
    BY <2>1, FilesStay DEF FetchInv, FetchOf, Follows, RightUpTo
  <2>4. RoundInv'
    BY <2>1 DEF RoundInv, Uncreated, Joined, Dead
  <2>5. \A i \in Workers : Uncreated(i) /\ Dead(i)
    BY <2>1 DEF RoundInv, Uncreated
  <2>6. EndInv'
    <3>1. \A h \in Waiters : hpc'[h] = hpc[h] \/ hpc'[h] = "wait"
      BY <2>1 DEF Typed
    <3>2. \A i \in Workers : wcancel'[i] = wcancel[i] /\ wpc'[i] = wpc[i] /\ offset'[i] = offset[i]
      BY <2>1
    <3>3. \A i \in Workers : ~Uncreated(i)' => wpc[i] # "dead" \/ i < mi
      BY <2>1 DEF Uncreated, Typed, Workers
    <3> QED
      BY <2>1, <2>5, <3>1, <3>2, <3>3 DEF EndInv, RoundInv, Workers
  <2> QED
    BY <2>2, <2>3, <2>4, <2>6
<1>2. CASE CreateWorker
  <2>1. /\ main = "create" /\ main' = "created" /\ mi' = mi
        /\ wpc' = [wpc EXCEPT ![mi] = "start"] /\ wcancel' = [wcancel EXCEPT ![mi] = FALSE]
        /\ UNCHANGED <<file, log, net, outcome, soffset, offset, status, dw, pos, hpc, saved>>
    BY <1>2 DEF CreateWorker
  <2>2. Typed'
    BY <2>1 DEF Typed
  <2>3. \A i \in Workers : i >= mi => soffset[i] = offset[i] /\ Dead(i)
    BY <2>1 DEF RoundInv, Uncreated
  <2>4. SectionsRight' /\ LogInv' /\ CompletedIsWhole'
        /\ \A i \in Workers : RightUpTo(i, offset[i])'
    BY <2>1, FilesStay
  <2>5. mi \in Int /\ Workers \subseteq Int
    BY DEF Typed, Workers
  <2>6. FetchInv'
    <3> SUFFICES ASSUME NEW i \in Workers PROVE FetchOf(i)'
      BY DEF FetchInv
    <3>1. CASE i = mi
      BY <2>1, <2>3, <2>4, <2>5, <3>1 DEF FetchOf, Typed
    <3>2. CASE i # mi
      BY <2>1, <3>2 DEF FetchInv, FetchOf, Follows, RightUpTo, Typed
    <3> QED
      BY <3>1, <3>2
  <2>7. RoundInv'
    BY <2>1, <2>3, <2>5 DEF RoundInv, Uncreated, Joined, Dead, Typed
  <2>8. EndInv'
    <3>1. ~(main' = "dead") /\ \A i \in Workers : ~wcancel'[i]
      BY <2>1 DEF EndInv, Typed
    <3>2. \A i \in Workers : wpc'[i] = "dead" /\ ~Uncreated(i)' => wpc[i] = "dead" /\ ~Uncreated(i)
      BY <2>1, <2>5 DEF Uncreated, Typed
    <3> QED
      BY <2>1, <3>1, <3>2 DEF EndInv, NetWorks, ConnFails, RecvFails
  <2> QED
    BY <2>2, <2>4, <2>6, <2>7, <2>8
<1> QED
  BY <1>1, <1>2

(* A step that changes no more than the main thread's place and loop index, or how
   the process ended.                                                          *)
LEMMA PlaceStep ==
  ASSUME IInv, UNCHANGED <<net, file, log, soffset, offset, status, wpc, dw, pos, wcancel, hpc, saved>>,
         outcome' = outcome \/ outcome' # "completed",
         main' \in {"waiter", "create", "created", "join", "joined", "decide", "report", "prepare", "dead"},
         main' = main \/ main # "dead",
         mi' \in Workers,
         RoundInv',
         \A i \in Workers : ~Uncreated(i)' /\ main' \notin {"prepare", "dead"} /\ wpc[i] = "dead"
                             => ~Uncreated(i) /\ main \notin {"prepare", "dead"}
  PROVE  IInv'
<1> USE DEF IInv
<1>1. Typed'
  BY DEF Typed, Logs
<1>2. SectionsRight' /\ LogInv' /\ CompletedIsWhole'
  BY FilesStay
<1>3. FetchInv'
  BY DEF FetchInv, FetchOf, Follows, RightUpTo
<1>4. EndInv'
  BY DEF EndInv, NetWorks, ConnFails, RecvFails
<1> QED
  BY <1>1, <1>2, <1>3, <1>4

LEMMA NextWorkerStep ==
  ASSUME IInv, NextToCreate \/ NextToJoin
  PROVE  IInv'
<1> USE DEF IInv
<1>1. mi \in Int /\ mi <= NThreads /\ NThreads \in Workers /\ 1 \in Workers
      /\ \A i \in Workers : i \in Int /\ 1 <= i /\ i <= NThreads
  BY DEF Typed, Workers
<1>2. UNCHANGED <<net, file, log, outcome, soffset, offset, status, wpc, dw, pos, wcancel, hpc, saved>>
  BY DEF NextToCreate, NextToJoin, NextWorker
<1>3. CASE NextToCreate
  <2>1. /\ main = "created"
        /\ \/ mi < NThreads /\ mi' = mi + 1 /\ main' = "create"
           \/ ~(mi < NThreads) /\ mi' = 1 /\ main' = "join"
    BY <1>3 DEF NextToCreate, NextWorker, MoreWorkers
  <2>2. mi' \in Workers
    BY <1>1, <2>1 DEF Workers, Typed
  <2>3. RoundInv'
    <3>1. main' # "waiter" /\ main' # "prepare" /\ \A i \in Workers : ~Joined(i)'
      BY <1>1, <2>1 DEF Joined
    <3>2. \A i \in Workers : Uncreated(i)' => Uncreated(i)
      BY <1>1, <2>1 DEF Uncreated
    <3> QED
      BY <1>2, <3>1, <3>2 DEF RoundInv, Dead
  <2>4. ASSUME NEW i \in Workers, Uncreated(i) PROVE Uncreated(i)'
    <3>1. i \in Int /\ i <= NThreads /\ i > mi
      BY <1>1, <2>1, <2>4 DEF Uncreated
    <3>2. mi < NThreads
      BY <1>1, <3>1
    <3>3. main' = "create" /\ i >= mi'
      BY <1>1, <2>1, <3>1, <3>2
    <3> QED
      BY <3>3 DEF Uncreated
  <2> QED
    BY <1>2, <2>1, <2>2, <2>3, <2>4, PlaceStep
<1>4. CASE NextToJoin
  <2>1. /\ main = "joined"
        /\ \/ mi < NThreads /\ mi' = mi + 1 /\ main' = "join"
           \/ ~(mi < NThreads) /\ mi' = 1 /\ main' = "decide"
    BY <1>4 DEF NextToJoin, NextWorker, MoreWorkers
  <2>2. mi' \in Workers
    BY <1>1, <2>1 DEF Workers, Typed
  <2>3. RoundInv'
    BY <1>1, <1>2, <2>1 DEF RoundInv, Uncreated, Joined, Dead
  <2>4. \A i \in Workers : ~Uncreated(i)
    BY <2>1 DEF Uncreated
  <2> QED
    BY <1>2, <2>1, <2>2, <2>3, <2>4, PlaceStep
<1> QED
  BY <1>3, <1>4

LEMMA JoinStep ==
  ASSUME IInv, JoinWorker \/ Decide \/ MainCancelled
  PROVE  IInv'
<1> USE DEF IInv
<1>1. mi \in Workers /\ Workers \subseteq Int
  BY DEF Typed, Workers
<1>2. /\ mi' = mi
      /\ UNCHANGED <<net, file, log, outcome, soffset, offset, status, wpc, dw, pos, wcancel, hpc, saved>>
  BY DEF JoinWorker, Decide, MainCancelled
<1>3. CASE JoinWorker
  <2>1. main = "join" /\ main' = "joined" /\ wpc[mi] = "dead"
    BY <1>3 DEF JoinWorker, Joinable
  <2>2. RoundInv'
    BY <1>1, <1>2, <2>1 DEF RoundInv, Uncreated, Joined, Dead
  <2>3. \A i \in Workers : ~Uncreated(i)
    BY <2>1 DEF Uncreated
  <2> QED
    BY <1>1, <1>2, <2>1, <2>2, <2>3, PlaceStep
<1>4. CASE Decide
  <2>1. main = "decide" /\ main' \in {"report", "prepare"}
    BY <1>4 DEF Decide
  <2>2. RoundInv'
    BY <1>2, <2>1 DEF RoundInv, Uncreated, Joined, Dead
  <2>3. \A i \in Workers : ~Uncreated(i)
    BY <2>1 DEF Uncreated
  <2> QED
    BY <1>1, <1>2, <2>1, <2>2, <2>3, PlaceStep
<1>5. CASE MainCancelled
  <2>1. main # "dead" /\ main' = "dead"
    BY <1>5 DEF MainCancelled
  <2>2. RoundInv'
    BY <2>1 DEF RoundInv, Uncreated, Joined
  <2> QED
    BY <1>1, <1>2, <2>1, <2>2, PlaceStep
<1> QED
  BY <1>3, <1>4, <1>5

(* "Download completed": every worker was joined, and ended with all of its section. *)
LEMMA ReportStep ==
  ASSUME IInv, Report
  PROVE  IInv'
<1> USE DEF IInv
<1>1. /\ main = "report"
      /\ UNCHANGED <<net, file, log, main, mi, soffset, offset, status, wpc, dw, pos, wcancel, hpc, saved>>
  BY DEF Report
<1>2. Typed' /\ FetchInv' /\ RoundInv' /\ EndInv'
  BY <1>1 DEF Typed, FetchInv, FetchOf, Follows, RightUpTo, RoundInv, Uncreated, Joined, Dead,
              EndInv, NetWorks, ConnFails, RecvFails
<1>3. SectionsRight' /\ LogInv'
  BY <1>1 DEF SectionsRight, LogInv, LogLosesNothing, RightUpTo
<1>4. CompletedIsWhole'
  <2> SUFFICES ASSUME NetWorks PROVE Whole
    BY <1>1 DEF CompletedIsWhole, NetWorks, ConnFails, RecvFails, Whole
  <2>1. \A i \in Workers : offset[i] >= Finish(i)
    BY <1>1 DEF RoundInv, Joined, Uncreated, EndInv
  <2>2. \A i \in Workers : /\ RightUpTo(i, offset[i])
                           /\ offset[i] \in Nat /\ Finish(i) \in Nat
    BY Sections DEF FetchInv, FetchOf, Typed, Offsets
  <2>3. \A i \in Workers : RightUpTo(i, Finish(i))
    BY <2>1, <2>2, RightBelow
  <2> QED
    BY <2>3, AllSectionsRight
<1> QED
  BY <1>2, <1>3, <1>4

-----------------------------------------------------------------------------
(* The workers.  A step of worker i is right if it leaves the others alone, writes
   only what belongs where it is written, keeps i's part of the invariant and ends
   i, over a network that works, only when its section is done.               *)
LEMMA WorkerStep ==
  ASSUME IInv, NEW i \in Workers, ~Dead(i),
         UNCHANGED <<net, log, main, mi, soffset, outcome, wcancel, hpc, saved>>,
         file' \in [Bytes -> Int], FileGrows, Typed', FetchOf(i)',
         \A u \in Workers : u # i => /\ wpc'[u] = wpc[u] /\ offset'[u] = offset[u]
                                    /\ status'[u] = status[u] /\ dw'[u] = dw[u] /\ pos'[u] = pos[u],
         status'[i] = "STAT_OK" => status[i] = "STAT_OK" \/ RightUpTo(i, Finish(i))',
         NetWorks /\ wpc'[i] = "dead" /\ main # "dead" => offset'[i] >= Finish(i),
         outcome = "running"
  PROVE  IInv'
<1> USE DEF IInv
<1>1. FetchInv'
  <2> SUFFICES ASSUME NEW u \in Workers, u # i PROVE FetchOf(u)'
    BY DEF FetchInv
  <2>1. /\ FetchOf(u) /\ offset[u] \in 0 .. CLength /\ dw[u] \in 0 .. CLength
    BY DEF FetchInv, Typed, Offsets
  <2>2. RightUpTo(u, offset[u])'
    <3>1. RightUpTo(u, offset[u])
      BY <2>1 DEF FetchOf
    <3>2. \A o \in 0 .. CLength : RightUpTo(u, o) => RightUpTo(u, o)'
      BY RightStays
    <3> QED
      BY <2>1, <3>1, <3>2 DEF RightUpTo
  <2>3. wpc[u] = "advance" => RightUpTo(u, offset[u] + dw[u])'
    <3> SUFFICES ASSUME wpc[u] = "advance" PROVE RightUpTo(u, offset[u] + dw[u])'
      OBVIOUS
    <3>1. RightUpTo(u, offset[u] + dw[u]) /\ offset[u] + dw[u] \in 0 .. CLength
      BY <2>1 DEF FetchOf
    <3>2. \A o \in 0 .. CLength : RightUpTo(u, o) => RightUpTo(u, o)'
      BY RightStays
    <3> QED
      BY <2>1, <3>1, <3>2 DEF RightUpTo
  <2>4. /\ wpc'[u] = wpc[u] /\ offset'[u] = offset[u] /\ soffset'[u] = soffset[u]
        /\ dw'[u] = dw[u] /\ pos'[u] = pos[u]
    OBVIOUS
  <2> QED
    BY <2>1, <2>2, <2>3, <2>4 DEF FetchOf, Follows
<1>2. SectionsRight'
  <2> SUFFICES ASSUME NEW u \in Workers, status'[u] = "STAT_OK" PROVE RightUpTo(u, Finish(u))'
    BY DEF SectionsRight
  <2>1. CASE status[u] = "STAT_OK"
    BY <2>1, Sections, RightStays DEF SectionsRight
  <2>2. CASE status[u] # "STAT_OK"
    BY <2>2
  <2> QED
    BY <2>1, <2>2
<1>3. LogInv'
  <2>1. ASSUME NEW r, r \in {log, saved}, r # NoLog, NEW u \in Workers
        PROVE  /\ RightUpTo(u, r.offset[u])'
               /\ r.status[u] = "STAT_OK" => RightUpTo(u, Finish(u))'
    <3>1. /\ RightUpTo(u, r.offset[u]) /\ r.offset[u] \in 0 .. CLength
          /\ r.status[u] = "STAT_OK" => RightUpTo(u, Finish(u))
      BY <2>1 DEF LogInv, LogLosesNothing, Typed, Logs, Offsets
    <3>2. \A o \in 0 .. CLength : RightUpTo(u, o) => RightUpTo(u, o)'
      BY RightStays
    <3>3. Finish(u) \in 0 .. CLength
      BY Sections
    <3>4. r' = r
      BY <2>1
    <3> QED
      BY <3>1, <3>2, <3>3, <3>4 DEF RightUpTo
  <2> QED
    BY <2>1 DEF LogInv, LogLosesNothing
<1>4. RoundInv'
  <2>1. ~Uncreated(i) /\ main # "prepare" /\ ~Joined(i)
    BY DEF RoundInv, Dead
  <2> QED
    BY <2>1 DEF RoundInv, Uncreated, Joined, Dead
<1>5. EndInv'
  <2>1. \A u \in Workers : Uncreated(u)' <=> Uncreated(u)
    BY DEF Uncreated
  <2> QED
    BY <2>1 DEF EndInv, NetWorks, ConnFails, RecvFails
<1>6. CompletedIsWhole'
  BY DEF CompletedIsWhole
<1> QED
  BY <1>1, <1>2, <1>3, <1>4, <1>5, <1>6

(* Steps of worker i that leave the file alone.                                 *)
LEMMA QuietStep ==
  ASSUME IInv, NEW i \in Workers,
         BeginDone(i) \/ Connect(i) \/ ConnectFails(i) \/ Advance(i) \/ AddBwritten(i)
           \/ NextChunk(i) \/ SectionDone(i) \/ WorkerCancelled(i)
  PROVE  IInv'
<1> USE DEF IInv
<1>1. /\ outcome = "running" /\ ~Dead(i) /\ file' = file
      /\ UNCHANGED <<net, log, main, mi, soffset, outcome, wcancel, hpc, saved>>
  BY DEF BeginDone, Connect, ConnectFails, Advance, AddBwritten, NextChunk, SectionDone,
         WorkerCancelled, Running, Exit, Dead
<1>2. /\ soffset[i] \in 0 .. CLength /\ offset[i] \in 0 .. CLength /\ pos[i] \in 0 .. CLength
      /\ dw[i] \in 0 .. CLength /\ Finish(i) \in 0 .. CLength
  BY Sections DEF Typed, Offsets
<1>3. FetchOf(i) /\ (status[i] = "STAT_OK" => RightUpTo(i, Finish(i)))
  BY DEF FetchInv, SectionsRight
<1>4. \A o : RightUpTo(i, o)' <=> RightUpTo(i, o)
  BY <1>1 DEF RightUpTo
<1>5. file' \in [Bytes -> Int] /\ FileGrows
  BY <1>1 DEF Typed, FileGrows
<1>6. CASE BeginDone(i)
  <2>1. /\ wpc[i] = "start" /\ NothingToDo(i) /\ wpc' = [wpc EXCEPT ![i] = "dead"]
        /\ status' = [status EXCEPT ![i] = "STAT_OK"] /\ UNCHANGED <<offset, dw, pos>>
    BY <1>6 DEF BeginDone, Exit
  <2>2. offset[i] >= Finish(i)
    BY <1>2, <1>3, <2>1 DEF NothingToDo, FetchOf
  <2>3. RightUpTo(i, Finish(i))
    BY <1>2, <1>3, <2>2, RightBelow DEF FetchOf
  <2>4. Typed'
    BY <1>1, <2>1 DEF Typed, Stati, Logs
  <2>5. FetchOf(i)'
    BY <1>3, <1>4, <2>1 DEF FetchOf, Typed
  <2> QED
    BY <1>1, <1>4, <1>5, <2>1, <2>2, <2>3, <2>4, <2>5, WorkerStep DEF Typed, Stati
<1>7. CASE Connect(i)
  <2>1. /\ wpc[i] = "start" /\ ~NothingToDo(i)
        /\ wpc' = [wpc EXCEPT ![i] = IF Http THEN "first" ELSE "recv"]
        /\ pos' = [pos EXCEPT ![i] = soffset[i]]
        /\ offset' = IF Http THEN offset ELSE [offset EXCEPT ![i] = soffset[i]]
        /\ UNCHANGED <<status, dw>>
    BY <1>7 DEF Connect, RequestFrom
  <2>2. soffset[i] = offset[i] /\ soffset[i] < Finish(i)
    BY <1>2, <1>3, <2>1 DEF NothingToDo, FetchOf
  <2>3. offset' = offset
    BY <2>1, <2>2 DEF Typed, Offsets
  <2>4. /\ wpc'[i] \in {"first", "recv"} /\ pos'[i] = soffset[i]
        /\ \A u \in Workers : u # i => wpc'[u] = wpc[u] /\ pos'[u] = pos[u]
    BY <2>1 DEF Typed, Offsets
  <2>5. Typed'
    BY <1>1, <1>2, <2>1, <2>3 DEF Typed, Offsets, Logs
  <2>6. FetchOf(i)'
    BY <1>1, <1>3, <1>4, <2>2, <2>3, <2>4 DEF FetchOf, Follows
  <2> QED
    BY <1>1, <1>5, <2>1, <2>3, <2>4, <2>5, <2>6, WorkerStep
<1>8. CASE ConnectFails(i)
  <2>1. /\ ConnFails /\ wpc' = [wpc EXCEPT ![i] = "dead"] /\ UNCHANGED <<offset, status, dw, pos>>
    BY <1>8 DEF ConnectFails, Exit
  <2>2. Typed'
    BY <1>1, <2>1 DEF Typed, Logs
  <2>3. FetchOf(i)'
    BY <1>3, <1>4, <2>1 DEF FetchOf, Typed
  <2> QED
    BY <1>1, <1>5, <2>1, <2>2, <2>3, WorkerStep DEF Typed, NetWorks
<1>9. CASE Advance(i)
  <2>1. /\ wpc[i] = "advance" /\ wpc' = [wpc EXCEPT ![i] = "add"]
        /\ offset' = [offset EXCEPT ![i] = offset[i] + dw[i]] /\ UNCHANGED <<status, dw, pos>>
    BY <1>9 DEF Advance
  <2>2. offset[i] + dw[i] \in 0 .. CLength
    BY <1>2, <1>3, <2>1 DEF FetchOf
  <2>3. Typed'
    BY <1>1, <2>1, <2>2 DEF Typed, Offsets, Logs
  <2>4. offset'[i] = offset[i] + dw[i] /\ wpc'[i] = "add"
    BY <2>1 DEF Typed, Offsets
  <2>5. FetchOf(i)'
    BY <1>3, <1>4, <2>1, <2>4 DEF FetchOf, Follows
  <2> QED
    BY <1>1, <1>5, <2>1, <2>3, <2>4, <2>5, WorkerStep DEF Typed, Offsets
<1>10. CASE AddBwritten(i)
  <2>1. /\ wpc[i] = "add" /\ wpc' = [wpc EXCEPT ![i] = "test"] /\ UNCHANGED <<offset, status, dw, pos>>
    BY <1>10 DEF AddBwritten
  <2>2. Typed'
    BY <1>1, <2>1 DEF Typed, Logs
  <2>3. FetchOf(i)'
    BY <1>3, <1>4, <2>1 DEF FetchOf, Follows, Typed
  <2> QED
    BY <1>1, <1>5, <2>1, <2>2, <2>3, WorkerStep DEF Typed
<1>11. CASE NextChunk(i)
  <2>1. /\ wpc[i] = "test" /\ offset[i] < Finish(i) /\ wpc' = [wpc EXCEPT ![i] = "recv"]
        /\ UNCHANGED <<offset, status, dw, pos>>
    BY <1>11 DEF NextChunk
  <2>2. Typed'
    BY <1>1, <2>1 DEF Typed, Logs
  <2>3. FetchOf(i)'
    BY <1>3, <1>4, <2>1 DEF FetchOf, Follows, Typed
  <2> QED
    BY <1>1, <1>5, <2>1, <2>2, <2>3, WorkerStep DEF Typed
<1>12. CASE SectionDone(i)
  <2>1. /\ wpc[i] = "test" /\ offset[i] >= Finish(i) /\ wpc' = [wpc EXCEPT ![i] = "dead"]
        /\ status' = IF offset[i] = Finish(i) THEN [status EXCEPT ![i] = "STAT_OK"] ELSE status
        /\ UNCHANGED <<offset, dw, pos>>
    BY <1>12 DEF SectionDone, Exit
  <2>2. RightUpTo(i, Finish(i))
    BY <1>2, <1>3, <2>1, RightBelow DEF FetchOf
  <2>3. Typed'
    <3>1. status' \in Stati
      BY <2>1 DEF Typed, Stati
    <3> QED
      BY <1>1, <2>1, <3>1 DEF Typed, Logs
  <2>4. FetchOf(i)'
    BY <1>3, <1>4, <2>1 DEF FetchOf, Typed
  <2>5. \A u \in Workers : u # i => status'[u] = status[u] /\ wpc'[u] = wpc[u]
    BY <2>1 DEF Typed, Stati
  <2> QED
    BY <1>1, <1>4, <1>5, <2>1, <2>2, <2>3, <2>4, <2>5, WorkerStep
<1>13. CASE WorkerCancelled(i)
  <2>1. /\ wcancel[i] /\ wpc' = [wpc EXCEPT ![i] = "dead"] /\ UNCHANGED <<offset, status, dw, pos>>
    BY <1>13 DEF WorkerCancelled, Exit
  <2>2. Typed'
    BY <1>1, <2>1 DEF Typed, Logs
  <2>3. FetchOf(i)'
    BY <1>3, <1>4, <2>1 DEF FetchOf, Typed
  <2>4. main = "dead"
    BY <2>1 DEF EndInv
  <2> QED
    BY <1>1, <1>5, <2>1, <2>2, <2>3, <2>4, WorkerStep DEF Typed
<1> QED
  BY <1>6, <1>7, <1>8, <1>9, <1>10, <1>11, <1>12, <1>13

(* pwrite of n content bytes from position p at offset p, within the file.        *)
LEMMA WriteInPlace ==
  ASSUME IInv, NEW i \in Workers, NEW p \in 0 .. CLength, NEW n \in Nat, p + n <= CLength,
         RightUpTo(i, p), pwrite(i, p, n, p)
  PROVE  /\ file' \in [Bytes -> Int] /\ FileGrows /\ RightUpTo(i, p + n)'
         /\ dw' = [dw EXCEPT ![i] = n]
<1>1. /\ file \in [Bytes -> Int] /\ \A b \in Bytes : b \in Int
  BY DEF IInv, Typed, Bytes
<1>2. p >= 0 /\ n >= 0
  OBVIOUS
<1>3. /\ file' = [b \in Bytes |-> IF p <= b /\ b < p + n THEN p + (b - p) ELSE file[b]]
      /\ dw' = [dw EXCEPT ![i] = n]
  BY <1>2 DEF pwrite
<1>4. \A b \in Bytes : file'[b] = IF p <= b /\ b < p + n THEN b ELSE file[b]
  BY <1>1, <1>3
<1>5. file' \in [Bytes -> Int]
  BY <1>1, <1>3
<1>6. FileGrows
  BY <1>4 DEF FileGrows
<1>7. RightUpTo(i, p + n)'
  <2> SUFFICES ASSUME NEW b \in Start(i) .. (p + n) - 1 PROVE file'[b] = b
    BY DEF RightUpTo
  <2>1. b \in Bytes /\ b \in Int /\ (b < p => b \in Start(i) .. p - 1)
    BY Sections DEF Bytes
  <2> QED
    BY <1>4, <2>1 DEF RightUpTo
<1> QED
  BY <1>3, <1>5, <1>6, <1>7

LEMMA FirstChunkStep ==
  ASSUME SmallFirst, IInv, NEW i \in Workers, FirstChunk(i)
  PROVE  IInv'
<1> USE DEF IInv
<1>1. PICK k \in 0 .. Least(FirstMax, CLength - pos[i]) :
         /\ pwrite(i, soffset[i], FirstCount(i, k), pos[i])
         /\ pos' = [pos EXCEPT ![i] = pos[i] + k]
  BY DEF FirstChunk
<1>2. /\ outcome = "running" /\ wpc[i] = "first" /\ wpc' = [wpc EXCEPT ![i] = "advance"]
      /\ UNCHANGED <<net, log, main, mi, soffset, offset, status, outcome, wcancel, hpc, saved>>
  BY DEF FirstChunk, Running
<1>3. /\ soffset[i] = offset[i] /\ pos[i] = offset[i] /\ RightUpTo(i, offset[i])
      /\ offset[i] \in 0 .. CLength
  BY <1>2 DEF FetchInv, FetchOf, Typed, Offsets
<1>o. PICK o \in 0 .. CLength : o = offset[i]
  BY <1>3
<1>4. /\ k \in Nat /\ o + k <= CLength /\ k <= Finish(i)
  BY <1>1, <1>3, <1>o, Sections DEF Least, SmallFirst
<1>5. FirstCount(i, k) = k
  BY <1>4, Sections DEF FirstCount
<1>6. /\ file' \in [Bytes -> Int] /\ FileGrows /\ RightUpTo(i, o + k)'
      /\ dw' = [dw EXCEPT ![i] = k]
  BY <1>1, <1>3, <1>o, <1>4, <1>5, WriteInPlace
<1>7. k \in 0 .. CLength /\ o + k \in 0 .. CLength
  BY <1>3, <1>o, <1>4
<1>8. Typed'
  BY <1>1, <1>2, <1>3, <1>o, <1>6, <1>7 DEF Typed, Offsets, Logs
<1>9. /\ wpc'[i] = "advance" /\ dw'[i] = k /\ pos'[i] = o + k /\ offset'[i] = o
      /\ \A u \in Workers : u # i => /\ wpc'[u] = wpc[u] /\ dw'[u] = dw[u] /\ pos'[u] = pos[u]
  BY <1>1, <1>2, <1>3, <1>o, <1>6 DEF Typed, Offsets
<1>10. RightUpTo(i, o)'
  BY <1>3, <1>o, <1>6, RightStays
<1>11. FetchOf(i)'
  BY <1>4, <1>6, <1>9, <1>10, <1>2 DEF FetchOf, Follows, RightUpTo
<1>12. ~Dead(i)
  BY <1>2 DEF Dead
<1> QED
  BY <1>2, <1>6, <1>8, <1>9, <1>11, <1>12, WorkerStep

LEMMA ReceiveStep ==
  ASSUME HttpHolds, IInv, NEW i \in Workers, Receive(i)
  PROVE  IInv'
<1> USE DEF IInv
<1>1. PICK n \in Received(i) :
         /\ pwrite(i, offset[i], Count(i, n), pos[i])
         /\ pos' = [pos EXCEPT ![i] = IF n > 0 THEN pos[i] + n ELSE CLength]
  BY DEF Receive
<1>2. /\ outcome = "running" /\ wpc[i] = "recv" /\ wpc' = [wpc EXCEPT ![i] = "advance"]
      /\ UNCHANGED <<net, log, main, mi, soffset, offset, status, outcome, wcancel, hpc, saved>>
  BY DEF Receive, Running
<1>3. /\ offset[i] \in 0 .. CLength /\ pos[i] \in 0 .. CLength /\ Finish(i) \in 0 .. CLength
      /\ RightUpTo(i, offset[i]) /\ offset[i] < Finish(i)
      /\ pos[i] = offset[i] \/ pos[i] = CLength
  BY <1>2, Sections DEF FetchInv, FetchOf, Follows, Typed, Offsets
<1>o. PICK o \in 0 .. CLength : o = offset[i]
  BY <1>3
<1>4. ~(Http /\ RecvFails)
  BY DEF HttpHolds
<1>5. /\ n \in Nat /\ pos[i] + n <= CLength
      /\ n = 0 \/ pos[i] = offset[i]
  BY <1>3, <1>4 DEF Received, Least
<1>6. /\ Count(i, n) \in Nat /\ o + Count(i, n) <= Finish(i)
      /\ o + Count(i, n) < Finish(i) => Count(i, n) = n
      /\ n = 0 => Count(i, n) = 0
  BY <1>3, <1>o, <1>5 DEF Count
<1>c. PICK c \in 0 .. CLength : c = Count(i, n)
  BY <1>3, <1>o, <1>6
<1>q. PICK q \in 0 .. CLength : q = IF n > 0 THEN pos[i] + n ELSE CLength
  BY <1>3, <1>5
<1>7. /\ file' \in [Bytes -> Int] /\ FileGrows /\ RightUpTo(i, o + c)'
      /\ dw' = [dw EXCEPT ![i] = c]
  <2>1. c \in Nat /\ o + c <= CLength
    BY <1>3, <1>o, <1>6, <1>c
  <2>2. CASE n > 0
    <3>1. pos[i] = o
      BY <1>5, <1>o, <2>2
    <3> QED
      BY <1>1, <1>3, <1>o, <1>c, <2>1, <3>1, WriteInPlace
  <2>3. CASE n = 0
    <3>1. c = 0
      BY <1>6, <1>c, <2>3
    <3>2. pwrite(i, o, 0, pos[i])
      BY <1>1, <1>o, <1>c, <3>1
    <3>3. pwrite(i, o, 0, o)
      <4>1. \A b \in Bytes : ~(o <= b /\ b < o + 0)
        BY <1>3, <1>o DEF Bytes
      <4> QED
        BY <3>2, <4>1 DEF pwrite
    <3> QED
      BY <1>3, <1>o, <3>1, <3>3, WriteInPlace
  <2> QED
    BY <1>5, <2>2, <2>3
<1>8. o + c \in 0 .. CLength
  BY <1>3, <1>6, <1>c
<1>9. o + c < Finish(i) => q = o + c \/ q = CLength
  BY <1>3, <1>o, <1>5, <1>6, <1>c, <1>q
<1>10. pos' = [pos EXCEPT ![i] = q]
  BY <1>1, <1>q
<1>11. Typed'
  BY <1>2, <1>3, <1>o, <1>7, <1>8, <1>10 DEF Typed, Offsets, Logs
<1>12. /\ wpc'[i] = "advance" /\ dw'[i] = c /\ pos'[i] = q /\ offset'[i] = o
       /\ \A u \in Workers : u # i => /\ wpc'[u] = wpc[u] /\ dw'[u] = dw[u] /\ pos'[u] = pos[u]
  BY <1>2, <1>o, <1>7, <1>10 DEF Typed, Offsets
<1>13. RightUpTo(i, o)'
  BY <1>2, <1>3, <1>o, <1>7, RightStays
<1>14. FetchOf(i)'
  BY <1>2, <1>7, <1>8, <1>9, <1>12, <1>13 DEF FetchOf, Follows, RightUpTo
<1>15. ~Dead(i)
  BY <1>2 DEF Dead
<1> QED
  BY <1>2, <1>7, <1>11, <1>12, <1>14, <1>15, WorkerStep

-----------------------------------------------------------------------------
(* The signal threads.  Their steps leave the file and what was fetched alone; they
   may take STAT_OK away, and log or draft what is true of the file.             *)
True(r) == /\ Logs(r)
           /\ \A i \in Workers : /\ RightUpTo(i, r.offset[i])
                                 /\ r.status[i] = "STAT_OK" => RightUpTo(i, Finish(i))

LEMMA SignalStep ==
  ASSUME IInv, UNCHANGED <<net, file, main, mi, soffset, offset, wpc, dw, pos>>,
         outcome' = outcome \/ outcome' # "completed",
         status' \in Stati, \A i \in Workers : status'[i] = "STAT_OK" => status[i] = "STAT_OK",
         wcancel' \in [Workers -> BOOLEAN], \A i \in Workers : wcancel'[i] => main = "dead",
         hpc' \in [Waiters -> {"none", "wait", "bar", "announce", "joinmain", "cancel", "check",
                               "copy", "bytes", "dead"}],
         \A h \in Waiters : hpc'[h] \in {"cancel", "check", "copy", "bytes"} => main = "dead",
         \A h \in Waiters : hpc'[h] = "bytes" => saved' # NoLog,
         saved' # NoLog => True(saved'), log' # NoLog => True(log')
  PROVE  IInv'
<1> USE DEF IInv
<1>1. Typed'
  BY DEF Typed, True, Logs
<1>2. FetchInv' /\ RoundInv'
  BY DEF FetchInv, FetchOf, Follows, RightUpTo, RoundInv, Uncreated, Joined, Dead
<1>3. SectionsRight'
  BY DEF SectionsRight, RightUpTo
<1>4. LogInv'
  BY DEF True, LogInv, LogLosesNothing, RightUpTo
<1>5. EndInv'
  BY DEF EndInv, NetWorks, ConnFails, RecvFails, Uncreated
<1>6. CompletedIsWhole'
  BY DEF CompletedIsWhole, NetWorks, ConnFails, RecvFails, Whole
<1> QED
  BY <1>1, <1>2, <1>3, <1>4, <1>5, <1>6

LEMMA LogsAreTrue ==
  ASSUME IInv
  PROVE  (saved # NoLog => True(saved)) /\ (log # NoLog => True(log))
  BY DEF IInv, Typed, LogInv, LogLosesNothing, True

(* Steps of signal thread h that change its place and nothing the invariant is about. *)
LEMMA WaiterMoves ==
  ASSUME IInv, NEW h \in Waiters, NEW to \in {"wait", "bar", "announce", "joinmain", "cancel",
                                             "check", "copy", "dead"},
         hpc' = [hpc EXCEPT ![h] = to],
         to \in {"cancel", "check", "copy"} => main = "dead",
         UNCHANGED <<net, file, log, main, mi, soffset, offset, status, wpc, dw, pos, wcancel,
                     outcome, saved>>
  PROVE  IInv'
<1>1. /\ status \in Stati /\ wcancel \in [Workers -> BOOLEAN]
      /\ hpc \in [Waiters -> {"none", "wait", "bar", "announce", "joinmain", "cancel", "check",
                              "copy", "bytes", "dead"}]
      /\ \A i \in Workers : wcancel[i] => main = "dead"
  BY DEF IInv, Typed, EndInv
<1>2. \A g \in Waiters : hpc'[g] = IF g = h THEN to ELSE hpc[g]
  BY <1>1
<1>3. hpc' \in [Waiters -> {"none", "wait", "bar", "announce", "joinmain", "cancel", "check",
                            "copy", "bytes", "dead"}]
  BY <1>1
<1>4. /\ \A g \in Waiters : hpc'[g] \in {"cancel", "check", "copy", "bytes"} => main = "dead"
      /\ \A g \in Waiters : hpc'[g] = "bytes" => saved' # NoLog
  BY <1>2 DEF IInv, EndInv
<1> QED
  BY <1>1, <1>3, <1>4, LogsAreTrue, SignalStep

LEMMA WaiterStepInv ==
  ASSUME IInv, NEW h \in Waiters,
         ShowProgress(h) \/ ProgressShown(h) \/ TakeSigint(h) \/ CancelMain(h) \/ MainJoined(h)
           \/ NotComplete(h) \/ WaiterCancelled(h)
  PROVE  IInv'
<1>1. UNCHANGED <<net, file, log, main, mi, soffset, offset, status, wpc, dw, pos, wcancel,
                  outcome, saved>>
  BY DEF ShowProgress, ProgressShown, TakeSigint, CancelMain, MainJoined, NotComplete,
         WaiterCancelled
<1>2. CASE ShowProgress(h)
  <2>1. hpc' = [hpc EXCEPT ![h] = "bar"]
    BY <1>2 DEF ShowProgress, WaiterStep
  <2> QED
    BY <1>1, <2>1, WaiterMoves
<1>3. CASE ProgressShown(h)
  <2>1. hpc' = [hpc EXCEPT ![h] = "wait"]
    BY <1>3 DEF ProgressShown, WaiterStep
  <2> QED
    BY <1>1, <2>1, WaiterMoves
<1>4. CASE TakeSigint(h)
  <2>1. hpc' = [hpc EXCEPT ![h] = "announce"]
    BY <1>4 DEF TakeSigint, WaiterStep
  <2> QED
    BY <1>1, <2>1, WaiterMoves
<1>5. CASE CancelMain(h)
  <2>1. hpc' = [hpc EXCEPT ![h] = "joinmain"]
    BY <1>5 DEF CancelMain, WaiterStep
  <2> QED
    BY <1>1, <2>1, WaiterMoves
<1>6. CASE MainJoined(h)
  <2>1. hpc' = [hpc EXCEPT ![h] = "cancel"] /\ main = "dead"
    BY <1>6 DEF MainJoined, WaiterStep
  <2> QED
    BY <1>1, <2>1, WaiterMoves
<1>7. CASE NotComplete(h)
  <2>1. hpc' = [hpc EXCEPT ![h] = "copy"] /\ hpc[h] = "check"
    BY <1>7 DEF NotComplete, WaiterStep
  <2>2. main = "dead"
    BY <2>1 DEF IInv, EndInv
  <2> QED
    BY <1>1, <2>1, <2>2, WaiterMoves
<1>8. CASE WaiterCancelled(h)
  <2>1. hpc' = [hpc EXCEPT ![h] = "dead"]
    BY <1>8 DEF WaiterCancelled
  <2> QED
    BY <1>1, <2>1, WaiterMoves
<1> QED
  BY <1>2, <1>3, <1>4, <1>5, <1>6, <1>7, <1>8

(* The workers are cancelled when the main thread has been joined.                *)
LEMMA CancelWorkerStep ==
  ASSUME IInv, NEW h \in Waiters, CancelWorker(h)
  PROVE  IInv'
<1>1. /\ hpc[h] = "cancel" /\ hpc' = [hpc EXCEPT ![h] = IF hi = NThreads THEN "check" ELSE "cancel"]
      /\ wcancel' = [wcancel EXCEPT ![hi] = TRUE]
      /\ status' = [status EXCEPT ![hi] = Masked(status[hi])]
      /\ UNCHANGED <<net, file, log, main, mi, soffset, offset, wpc, dw, pos, outcome, saved>>
  BY DEF CancelWorker, WaiterStep
<1>2. main = "dead"
  BY <1>1 DEF IInv, EndInv
<1>3. /\ status \in Stati /\ wcancel \in [Workers -> BOOLEAN]
      /\ hpc \in [Waiters -> {"none", "wait", "bar", "announce", "joinmain", "cancel", "check",
                              "copy", "bytes", "dead"}]
  BY DEF IInv, Typed
<1>4. wcancel' \in [Workers -> BOOLEAN]
  BY <1>1, <1>3
<1>5. status' \in Stati /\ \A i \in Workers : status'[i] = "STAT_OK" => status[i] = "STAT_OK"
  <2>1. \A i \in Workers : status'[i] = IF i = hi THEN Masked(status[i]) ELSE status[i]
    BY <1>1, <1>3 DEF Stati
  <2>2. \A i \in Workers : Masked(status[i]) \in {"STAT_INT", "STAT_ERR"}
    BY <1>3 DEF Stati, Masked
  <2>3. DOMAIN status' = Workers /\ status' = [i \in Workers |-> status'[i]]
    BY <1>1, <1>3 DEF Stati
  <2> QED
    BY <1>3, <2>1, <2>2, <2>3 DEF Stati
<1>6. /\ hpc' \in [Waiters -> {"none", "wait", "bar", "announce", "joinmain", "cancel", "check",
                               "copy", "bytes", "dead"}]
      /\ \A g \in Waiters : hpc'[g] = "bytes" => hpc[g] = "bytes"
  BY <1>1, <1>3
<1>7. \A g \in Waiters : hpc'[g] = "bytes" => saved' # NoLog
  BY <1>1, <1>6 DEF IInv, EndInv
<1> QED
  BY <1>1, <1>2, <1>4, <1>5, <1>6, <1>7, LogsAreTrue, SignalStep

(* save_log copies the records of workers that may still be running: what their
   offsets say is in the file at that moment, and stays there.                    *)
LEMMA CopyWthreadStep ==
  ASSUME IInv, NEW h \in Waiters, CopyWthread(h)
  PROVE  IInv'
<1>1. /\ hpc[h] = "copy" /\ hpc' = [hpc EXCEPT ![h] = "bytes"]
      /\ saved' = [soffset |-> soffset, offset |-> offset, status |-> status]
      /\ UNCHANGED <<net, file, log, main, mi, soffset, offset, status, wpc, dw, pos, wcancel, outcome>>
  BY DEF CopyWthread, WaiterStep
<1>2. main = "dead"
  BY <1>1 DEF IInv, EndInv
<1>3. /\ soffset \in Offsets /\ offset \in Offsets
      /\ status \in Stati /\ wcancel \in [Workers -> BOOLEAN]
      /\ hpc \in [Waiters -> {"none", "wait", "bar", "announce", "joinmain", "cancel", "check",
                              "copy", "bytes", "dead"}]
  BY DEF IInv, Typed
<1>4. saved' # NoLog
  BY <1>1, <1>3, NoLogAssumption DEF Offsets, Stati, Workers
<1>5. True(saved')
  <2>1. \A i \in Workers : /\ RightUpTo(i, offset[i])
                           /\ status[i] = "STAT_OK" => RightUpTo(i, Finish(i))
    BY DEF IInv, FetchInv, FetchOf, SectionsRight
  <2> QED
    BY <1>1, <1>3, <2>1 DEF True, Logs
<1>6. hpc' \in [Waiters -> {"none", "wait", "bar", "announce", "joinmain", "cancel", "check",
                            "copy", "bytes", "dead"}]
  BY <1>1, <1>3
<1> QED
  BY <1>1, <1>2, <1>3, <1>4, <1>5, <1>6, LogsAreTrue, SignalStep

LEMMA SaveLogStep ==
  ASSUME IInv, NEW h \in Waiters, SaveLog(h)
  PROVE  IInv'
<1>1. /\ hpc[h] = "bytes" /\ outcome' = "saved"
      /\ log' = [soffset |-> saved.soffset, offset |-> saved.offset, status |-> saved.status,
                 bwritten |-> bwritten]
      /\ UNCHANGED <<net, file, main, mi, soffset, offset, status, wpc, dw, pos, wcancel, hpc, saved>>
  BY DEF SaveLog
<1>2. True(saved)
  BY <1>1, LogsAreTrue DEF IInv, EndInv
<1>3. True(log')
  BY <1>1, <1>2 DEF True, Logs
<1>4. /\ status \in Stati /\ wcancel \in [Workers -> BOOLEAN]
      /\ hpc \in [Waiters -> {"none", "wait", "bar", "announce", "joinmain", "cancel", "check",
                              "copy", "bytes", "dead"}]
      /\ \A i \in Workers : wcancel[i] => main = "dead"
      /\ \A g \in Waiters : hpc[g] \in {"cancel", "check", "copy", "bytes"} => main = "dead"
      /\ \A g \in Waiters : hpc[g] = "bytes" => saved # NoLog
  BY DEF IInv, Typed, EndInv
<1> QED
  BY <1>1, <1>2, <1>3, <1>4, SignalStep

(* What ends the process without completing the download, or changes nothing the
   invariant is about.                                                             *)
LEMMA OtherStep ==
  ASSUME IInv, UNCHANGED <<net, file, log, main, mi, soffset, offset, status, wpc, dw, pos, wcancel,
                           hpc, saved>>,
         outcome' = outcome \/ outcome' # "completed"
  PROVE  IInv'
<1>1. /\ status \in Stati /\ wcancel \in [Workers -> BOOLEAN]
      /\ hpc \in [Waiters -> {"none", "wait", "bar", "announce", "joinmain", "cancel", "check",
                              "copy", "bytes", "dead"}]
      /\ \A i \in Workers : wcancel[i] => main = "dead"
      /\ \A g \in Waiters : hpc[g] \in {"cancel", "check", "copy", "bytes"} => main = "dead"
      /\ \A g \in Waiters : hpc[g] = "bytes" => saved # NoLog
  BY DEF IInv, Typed, EndInv
<1> QED
  BY <1>1, LogsAreTrue, SignalStep

LEMMA Inductive ==
  ASSUME SmallFirst, HttpHolds, IInv, [Next]_vars
  PROVE  IInv'
<1>1. CASE StartClean \/ Resume
  BY <1>1, StartCleanStep, ResumeStep
<1>2. CASE Main
  BY <1>2, PrepareStep, CreateStep, NextWorkerStep, JoinStep, ReportStep DEF Main
<1>3. CASE SigintArrives \/ LastThreadEnds \/ UNCHANGED vars
  BY <1>3, OtherStep DEF SigintArrives, LastThreadEnds, vars
<1>4. ASSUME NEW i \in Workers, http_get(i)
      PROVE  IInv'
  <2>1. CASE ServerRefuses(i)
    BY <2>1, OtherStep DEF ServerRefuses
  <2> QED
    BY <1>4, <2>1, QuietStep, FirstChunkStep, ReceiveStep DEF http_get
<1>5. ASSUME NEW h \in Waiters, signal_waiter(h)
      PROVE  IInv'
  <2>1. CASE CancelNobody(h) \/ AlreadyComplete(h)
    BY <2>1, OtherStep DEF CancelNobody, AlreadyComplete
  <2> QED
    BY <1>5, <2>1, WaiterStepInv, CancelWorkerStep, CopyWthreadStep, SaveLogStep
       DEF signal_waiter, sigint_handler
<1> QED
  BY <1>1, <1>2, <1>3, <1>4, <1>5 DEF Next

(* The network never changes.                                                      *)
LEMMA NetStays ==
  ASSUME [Next]_vars
  PROVE  HttpHolds' = HttpHolds
<1>1. net' = net
  BY DEF Next, vars, StartClean, Resume, NewProcess, Main, Prepare, CreateWaiter, CreateWorker,
         NextToCreate, NextToJoin, NextWorker, JoinWorker, Decide, Report, MainCancelled,
         SigintArrives, LastThreadEnds, http_get, BeginDone, Connect, ConnectFails, FirstChunk,
         Receive, ServerRefuses, Advance, AddBwritten, NextChunk, SectionDone, WorkerCancelled,
         signal_waiter, sigint_handler, ShowProgress, ProgressShown, TakeSigint, CancelMain,
         MainJoined, CancelWorker, CancelNobody, AlreadyComplete, NotComplete, CopyWthread,
         SaveLog, WaiterCancelled
<1> QED
  BY <1>1 DEF HttpHolds, Http, RecvFails

(* The invariant holds in every state of every run of aget, where the first answers
   are small and the network does not break HTTP connections.                       *)
THEOREM Invariance ==
  ASSUME SmallFirst
  PROVE  Spec /\ HttpHolds => []IInv
<1>1. IInv /\ HttpHolds /\ [Next]_vars => IInv' /\ HttpHolds'
  BY Inductive, NetStays
<1> QED
  BY <1>1, InitInv, PTL DEF Spec

(* A worker whose status says STAT_OK has put every byte of its section in the file
   (Download.c:149), whatever was interrupted, saved and resumed before.           *)
THEOREM SectionsRightHolds ==
  ASSUME SmallFirst
  PROVE  Spec /\ HttpHolds => []SectionsRight
<1>1. IInv => SectionsRight
  BY DEF IInv
<1> QED
  BY <1>1, Invariance, PTL

(* The log save_log writes while workers run (Resume.c) and the draft it copies of
   their records never claim a byte that is not in the file.                       *)
THEOREM LogLosesNothingHolds ==
  ASSUME SmallFirst
  PROVE  Spec /\ HttpHolds => []LogLosesNothing
<1>1. IInv => LogLosesNothing
  BY DEF IInv, LogInv
<1> QED
  BY <1>1, Invariance, PTL

(* "Download completed" over a network that works means that all of the file is
   there, on a first download as after any number of interruptions (Aget.c, main);
   a network that works holds, so that this needs small first answers only.         *)
THEOREM CompletedIsWholeHolds ==
  ASSUME SmallFirst
  PROVE  Spec => []CompletedIsWhole
<1>1. IInv => CompletedIsWhole
  BY DEF IInv
<1>2. ~HttpHolds => CompletedIsWhole
  BY DEF HttpHolds, CompletedIsWhole, NetWorks
<1>3. ~HttpHolds /\ [Next]_vars => ~HttpHolds'
  BY NetStays
<1> QED
  BY <1>1, <1>2, <1>3, Invariance, PTL DEF Spec
=============================================================================
