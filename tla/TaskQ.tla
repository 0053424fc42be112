------------------------------- MODULE TaskQ -------------------------------
(***************************************************************************)
(* The task queues of Phoenix (phoenix-2.0/phoenix/taskQ.c over queue.h    *)
(* and list.h), used the way map_reduce.c uses them: one thread fills the  *)
(* queues without locking, the workers dequeue with stealing until a call  *)
(* returns 0, and so on phase after phase, then tq_finalize.  Workers may  *)
(* also add tasks with the locking tq_enqueue.                             *)
(*                                                                         *)
(* A list operation reads the list in one step and writes it in another,   *)
(* so that only the lock of the queue keeps two of them apart.  An entry   *)
(* stands for its task; locks are the mutual exclusion of synch.h.         *)
(***************************************************************************)
EXTENDS Integers, Sequences

CONSTANTS NumThreads,     (* the argument of tq_init                        *)
          LgrpSize,       (* loc_get_lgrp_size(): strands of a locality group *)
          Hints,          (* the lgrp arguments callers pass                *)
          Adders,         (* the workers that may call tq_enqueue           *)
          Tasks, NONE,
          MaxPhases       (* bound: how often the queues are filled         *)

ASSUME TaskQAssumption == /\ NumThreads \in Nat \ {0}
                          /\ LgrpSize \in Nat \ {0}
                          /\ Hints \subseteq Int
                          /\ Adders \subseteq 0 .. NumThreads - 1
                          /\ NONE \notin Tasks \cup 0 .. NumThreads - 1
                          /\ MaxPhases \in Nat

Tids == 0 .. NumThreads - 1

(* tq_init_normal: one queue for each locality group, at least one.         *)
NumQueues == IF NumThreads \div LgrpSize = 0 THEN 1 ELSE NumThreads \div LgrpSize
Indexes   == 0 .. NumQueues - 1

VARIABLES
  queues, free_queues,          (* per index, the entries in order            *)
  holder,                       (* per index, the thread that has its lock    *)
  main, phases,                 (* the filling thread, and its phase number   *)
  pc, index, i, qe, snap,       (* per worker: location and local variables   *)
  enqueued,                     (* history: the tasks given to the queues     *)
  got,                          (* history: the tasks each worker was given   *)
  seen                          (* history: the tasks added before the call
                                   of tq_dequeue a worker is in or just left  *)

listVars == <<queues, free_queues>>
mainVars == <<main, phases>>
workVars == <<index, i, qe, snap>>
histVars == <<enqueued, got, seen>>
vars == <<listVars, holder, mainVars, pc, workVars, histVars>>

Locations == {"off", "idle", "elock", "eread", "ewrite", "eunlock",
              "dlock", "dread", "dwrite", "dfree", "dunlock", "done"}

Elements(s) == {s[k] : k \in DOMAIN s}
Queued == UNION {Elements(queues[x]) : x \in Indexes}
Freed  == UNION {Elements(free_queues[x]) : x \in Indexes}

(* The tasks whose tq_enqueue has put them on a list.                        *)
Added == enqueued \ {qe[t] : t \in {u \in Tids : pc[u] \in {"elock", "eread", "ewrite"}}}

(* The queues a locality hint may select: any at random if it is negative.   *)
IndexesOf(lgrp) == IF lgrp < 0 THEN Indexes ELSE {lgrp % NumQueues}

Goto(t, l) == pc' = [pc EXCEPT ![t] = l]

Init ==
  /\ queues = [x \in Indexes |-> << >>]
  /\ free_queues = [x \in Indexes |-> << >>]
  /\ holder = [x \in Indexes |-> NONE]
  /\ main = "fill" /\ phases = 1
  /\ pc = [t \in Tids |-> "off"]
  /\ index = [t \in Tids |-> 0]
  /\ i = [t \in Tids |-> 0]
  /\ qe = [t \in Tids |-> NONE]
  /\ snap = [t \in Tids |-> << >>]
  /\ enqueued = {}
  /\ got = [t \in Tids |-> {}]
  /\ seen = [t \in Tids |-> {}]

(***************************************************************************)
(* The thread that runs the phases.                                        *)
(***************************************************************************)
tq_enqueue_seq(task, lgrp) ==
  /\ main = "fill" /\ task \in Tasks \ enqueued
  /\ \E x \in IndexesOf(lgrp) : queues' = [queues EXCEPT ![x] = Append(@, task)]
  /\ enqueued' = enqueued \cup {task}
  /\ UNCHANGED <<free_queues, holder, mainVars, pc, workVars, got, seen>>

(* start_workers: every worker begins its loop.                             *)
StartWorkers ==
  /\ main = "fill"
  /\ main' = "run"
  /\ pc' = [t \in Tids |-> "idle"]
  /\ UNCHANGED <<listVars, holder, phases, workVars, histVars>>

(* The barrier of start_workers; then another phase, or tq_finalize.         *)
WorkersDone == \A t \in Tids : pc[t] = "done"

NextPhase ==
  /\ main = "run" /\ WorkersDone /\ phases < MaxPhases
  /\ main' = "fill" /\ phases' = phases + 1
  /\ pc' = [t \in Tids |-> "off"]
  /\ UNCHANGED <<listVars, holder, workVars, histVars>>

(* tq_finalize: every entry left in a queue or a free queue is freed.        *)
tq_finalize ==
  /\ main = "run" /\ WorkersDone
  /\ main' = "freed"
  /\ queues' = [x \in Indexes |-> << >>]
  /\ free_queues' = [x \in Indexes |-> << >>]
  /\ UNCHANGED <<holder, phases, pc, workVars, histVars>>

(***************************************************************************)
(* A worker in tq_enqueue.                                                 *)
(***************************************************************************)
tq_enqueue(t, task, lgrp) ==
  /\ pc[t] = "idle" /\ t \in Adders /\ task \in Tasks \ enqueued
  /\ \E x \in IndexesOf(lgrp) : index' = [index EXCEPT ![t] = x]
  /\ qe' = [qe EXCEPT ![t] = task]
  /\ enqueued' = enqueued \cup {task}
  /\ Goto(t, "elock")
  /\ UNCHANGED <<listVars, holder, mainVars, i, snap, got, seen>>

PushRead(t) ==
  /\ pc[t] = "eread"
  /\ snap' = [snap EXCEPT ![t] = queues[index[t]]]
  /\ Goto(t, "ewrite")
  /\ UNCHANGED <<listVars, holder, mainVars, index, i, qe, histVars>>

PushWrite(t) ==
  /\ pc[t] = "ewrite"
  /\ queues' = [queues EXCEPT ![index[t]] = Append(snap[t], qe[t])]
  /\ snap' = [snap EXCEPT ![t] = << >>]
  /\ Goto(t, "eunlock")
  /\ UNCHANGED <<free_queues, holder, mainVars, index, i, qe, histVars>>

(***************************************************************************)
(* A worker in tq_dequeue.  Decisions of the code are preceded by a faulty *)
(* variant, which shows what the properties tell apart; no specification   *)
(* uses the variants.                                                      *)
(***************************************************************************)
(* tq_dequeue_normal_internal up to its first call of tq_elem_into_free.     *)
tq_dequeue(t, lgrp) ==
  /\ pc[t] = "idle"
  /\ \E x \in IndexesOf(lgrp) : /\ index' = [index EXCEPT ![t] = x]
                                /\ i' = [i EXCEPT ![t] = x]
  /\ seen' = [seen EXCEPT ![t] = Added]
  /\ Goto(t, "dlock")
  /\ UNCHANGED <<listVars, holder, mainVars, qe, snap, enqueued, got>>

(* The queue a worker works on.                                             *)
Current(t) == IF pc[t] \in {"elock", "eread", "ewrite", "eunlock"}
              THEN index[t] ELSE i[t]

LockIsIgnored(t) == TRUE

LockIsFree(t) == holder[Current(t)] = NONE

lock_acquire(t) ==
  /\ pc[t] \in {"elock", "dlock"} /\ LockIsFree(t)
  /\ holder' = [holder EXCEPT ![Current(t)] = t]
  /\ Goto(t, IF pc[t] = "elock" THEN "eread" ELSE "dread")
  /\ UNCHANGED <<listVars, mainVars, workVars, histVars>>

(* tq_elem_into_free_seq: queue_pop_front, in two steps.                     *)
PopRead(t) ==
  /\ pc[t] = "dread"
  /\ \/ /\ queues[i[t]] = << >>
        /\ Goto(t, "dunlock") /\ UNCHANGED <<snap, qe>>
     \/ /\ queues[i[t]] # << >>
        /\ snap' = [snap EXCEPT ![t] = queues[i[t]]]
        /\ qe' = [qe EXCEPT ![t] = Head(queues[i[t]])]
        /\ Goto(t, "dwrite")
  /\ UNCHANGED <<listVars, holder, mainVars, index, i, histVars>>

PopWrite(t) ==
  /\ pc[t] = "dwrite"
  /\ queues' = [queues EXCEPT ![i[t]] = Tail(snap[t])]
  /\ snap' = [snap EXCEPT ![t] = << >>]
  /\ Goto(t, "dfree")
  /\ UNCHANGED <<free_queues, holder, mainVars, index, i, qe, histVars>>

(* queue_push_back on the free queue of the same index.                      *)
PushFree(t) ==
  /\ pc[t] = "dfree"
  /\ free_queues' = [free_queues EXCEPT ![i[t]] = Append(@, qe[t])]
  /\ Goto(t, "dunlock")
  /\ UNCHANGED <<queues, holder, mainVars, workVars, histVars>>

(* The queue after the one just tried.                                      *)
NextIndex(t) == (i[t] + 1) % NumQueues

StealStopsShort(t) == i[t] # NumQueues - 1

StealForEver(t) == TRUE

(* The loop's condition: not all queues have been tried.                     *)
StealGoesOn(t) == NextIndex(t) # index[t]

(* The local variables of a call end with it.                                *)
Return(t) == /\ index' = [index EXCEPT ![t] = 0]
             /\ i' = [i EXCEPT ![t] = 0]
             /\ qe' = [qe EXCEPT ![t] = NONE]

(* lock_release, and what the caller does next: return from tq_enqueue, hand
   out the task, steal from the next queue, or return 0.                     *)
lock_release(t) ==
  /\ pc[t] \in {"eunlock", "dunlock"}
  /\ holder' = [holder EXCEPT ![Current(t)] = NONE]
  /\ \/ /\ pc[t] = "eunlock"
        /\ Goto(t, "idle") /\ Return(t) /\ UNCHANGED got
     \/ /\ pc[t] = "dunlock" /\ qe[t] # NONE
        /\ got' = [got EXCEPT ![t] = @ \cup {qe[t]}]
        /\ Goto(t, "idle") /\ Return(t)
     \/ /\ pc[t] = "dunlock" /\ qe[t] = NONE /\ StealGoesOn(t)
        /\ i' = [i EXCEPT ![t] = NextIndex(t)]
        /\ Goto(t, "dlock") /\ UNCHANGED <<index, qe, got>>
     \/ /\ pc[t] = "dunlock" /\ qe[t] = NONE /\ ~StealGoesOn(t)
        /\ Goto(t, "done") /\ Return(t) /\ UNCHANGED got
  /\ UNCHANGED <<listVars, mainVars, snap, enqueued, seen>>

Phase   == (\E task \in Tasks, l \in Hints : tq_enqueue_seq(task, l))
           \/ StartWorkers \/ NextPhase \/ tq_finalize
Enqueue(t) == (\E task \in Tasks, l \in Hints : tq_enqueue(t, task, l))
Working(t) == \/ PushRead(t) \/ PushWrite(t) \/ lock_acquire(t) \/ lock_release(t)
              \/ PopRead(t) \/ PopWrite(t) \/ PushFree(t)
              \/ (\E l \in Hints : tq_dequeue(t, l))

Stopped == main = "freed" /\ UNCHANGED vars

Next == Phase \/ (\E t \in Tids : Enqueue(t) \/ Working(t)) \/ Stopped

Spec == Init /\ [][Next]_vars

(* Workers run, and the filling thread gets to an end; nothing is assumed of  *)
(* the order in which a lock that several wait for is granted.                *)
FairSpec == /\ Spec
            /\ WF_vars(StartWorkers) /\ WF_vars(NextPhase \/ tq_finalize)
            /\ \A t \in Tids : WF_vars(Working(t))

(***************************************************************************)
(* Properties.                                                             *)
(***************************************************************************)
(* The places an entry may be: a position of a list, or a worker's hands
   between two list operations (taskQ.c:322, 366-368).                       *)
QueuePlaces(e) ==
  UNION {{<<"queue", x, k>> : k \in {n \in DOMAIN queues[x] : queues[x][n] = e}} : x \in Indexes}
FreePlaces(e) ==
  UNION {{<<"free", x, k>> : k \in {n \in DOMAIN free_queues[x] : free_queues[x][n] = e}} : x \in Indexes}
HandPlaces(e) == {<<"hand", t, 0>> : t \in {u \in Tids : qe[u] = e
                              /\ pc[u] \in {"elock", "eread", "ewrite", "dfree"}}}
Places(e) == QueuePlaces(e) \cup FreePlaces(e) \cup HandPlaces(e)

(* Every task enqueued is in exactly one place: no list operation loses or
   doubles an entry, and tq_finalize frees each entry once (taskQ.c:253-291).  *)
OnePlace ==
  main # "freed" => \A e \in enqueued : \E p \in Places(e) : Places(e) = {p}

(* "There really is no more work" (taskQ.c:433): when tq_dequeue returns 0, what
   was enqueued before the call has been handed out, whatever was added since. *)
NoMoreWork == \A t \in Tids : pc[t] = "done" => seen[t] \cap Queued = {}

(* When every worker of a phase has been told that there is no more work, all
   queues are empty, also if workers added tasks: nothing waits for tq_finalize
   or for the workers of another kind of phase.                               *)
PhaseComplete == main = "run" /\ WorkersDone => Queued = {} /\ UNION {got[t] : t \in Tids} = enqueued

(* Every phase comes to its end (map_reduce.c:757, 963: workers loop until
   there is no more task).                                                    *)
PhaseEnds == main = "run" ~> WorkersDone

(* tq_elem_into_free's comment, "@return nonzero if normal queue was empty"
   (taskQ.c:380): a worker that found the queue empty comes out with nonzero.
   The code returns queue_pop_front's result, which is 0 then.                *)
NonzeroIfEmpty ==
  \A t \in Tids : pc[t] = "dunlock" /\ queues[i[t]] = << >> => qe[t] # NONE

=============================================================================
