----------------------------- MODULE TaskQ_proof ----------------------------
(***************************************************************************)
(* Proofs about TaskQ, for every number of threads, queues, tasks, hints   *)
(* and phases, workers that add tasks included: no entry is lost or        *)
(* doubled (OnePlace), a worker is sent away only when what was there      *)
(* before its call is gone (NoMoreWork), and a phase leaves nothing behind *)
(* (PhaseComplete).                                                        *)
(***************************************************************************)
EXTENDS TaskQ, SequenceTheorems, TLAPS

-----------------------------------------------------------------------------
(* The inductive invariant.                                                  *)

Typed ==
  /\ queues \in [Indexes -> Seq(Tasks)] /\ free_queues \in [Indexes -> Seq(Tasks)]
  /\ holder \in [Indexes -> Tids \cup {NONE}]
  /\ main \in {"fill", "run", "freed"}
  /\ pc \in [Tids -> Locations]
  /\ index \in [Tids -> Indexes] /\ i \in [Tids -> Indexes]
  /\ qe \in [Tids -> Tasks \cup {NONE}] /\ snap \in [Tids -> Seq(Tasks)]
  /\ enqueued \subseteq Tasks
  /\ got \in [Tids -> SUBSET Tasks] /\ seen \in [Tids -> SUBSET Tasks]

(* Workers are started by the filling thread, and awaited by it.             *)
PhasesInv == \A t \in Tids : /\ main = "fill" => pc[t] = "off"
                             /\ main = "run" => pc[t] # "off"
                             /\ main = "freed" => pc[t] = "done"

(* The lock of a queue is held by the worker that works on it.               *)
Holding(t) == pc[t] \in {"eread", "ewrite", "eunlock", "dread", "dwrite", "dfree", "dunlock"}
LocksInv == \A t \in Tids, x \in Indexes : holder[x] = t <=> Holding(t) /\ Current(t) = x

(* What a worker has read of a list is still true when it writes the list.   *)
LocalsInv ==
  \A t \in Tids :
    /\ pc[t] \in {"ewrite", "dwrite"} => snap[t] = queues[Current(t)]
    /\ pc[t] = "dwrite" => snap[t] # << >> /\ qe[t] = Head(snap[t])
    /\ pc[t] \in {"elock", "eread", "ewrite", "dfree"} => qe[t] # NONE
    /\ pc[t] \in {"off", "idle", "dlock", "dread", "done"} => qe[t] = NONE

(* No entry is twice on the lists q.                                          *)
Content(q)  == UNION {Elements(q[x]) : x \in Indexes}
Distinct(q) == \A x, y \in Indexes : \A k \in DOMAIN q[x], l \in DOMAIN q[y] :
                 q[x][k] = q[y][l] => x = y /\ k = l

InHand(t) == pc[t] \in {"elock", "eread", "ewrite", "dfree"}
Hands     == {qe[t] : t \in {u \in Tids : InHand(u)}}

PlacesInv ==
  /\ Distinct(queues) /\ Distinct(free_queues)
  /\ Queued \cap Freed = {} /\ Hands \cap (Queued \cup Freed) = {}
  /\ \A t, u \in Tids : InHand(t) /\ InHand(u) /\ qe[t] = qe[u] => t = u
  /\ Queued \cup Freed \cup Hands \subseteq enqueued
  /\ main # "freed" => enqueued \subseteq Queued \cup Freed \cup Hands

(* An entry that was taken off its queue has been handed out, or is about to. *)
GotInv ==
  main # "freed" =>
    \A e \in Freed : \E t \in Tids : e \in got[t] \/ (pc[t] = "dunlock" /\ qe[t] = e)
GotKnown == \A t \in Tids : /\ got[t] \subseteq enqueued
                            /\ pc[t] = "dunlock" /\ qe[t] # NONE => qe[t] \in enqueued

(* The queues tq_dequeue has tried, round from its first one; with the one it
   just found empty, when it is about to release its lock without an entry.   *)
Dequeuing(t) == pc[t] \in {"dlock", "dread", "dwrite", "dfree", "dunlock"}
Before(a, x, b) == IF a <= b THEN a <= x /\ x < b ELSE a <= x \/ x < b
Tried(t, x) == \/ Before(index[t], x, i[t])
               \/ x = i[t] /\ pc[t] = "dunlock" /\ qe[t] = NONE

TriedOf(t) ==
  /\ Dequeuing(t) \/ pc[t] = "done" => seen[t] \subseteq Added
  /\ Dequeuing(t) => \A x \in Indexes : Tried(t, x) => seen[t] \cap Elements(queues[x]) = {}
  /\ pc[t] = "done" => seen[t] \cap Queued = {}
TriedInv == \A t \in Tids : TriedOf(t)

(* Whatever waits in a queue was there before the last call of some worker: of
   the one that added it, and of all if the filling thread did.               *)
SeenInv == \A e \in Queued : \E t \in Tids : Dequeuing(t) \/ pc[t] = "done" => e \in seen[t]

IInv == /\ Typed /\ PhasesInv /\ LocksInv /\ LocalsInv /\ PlacesInv
        /\ GotInv /\ GotKnown /\ TriedInv /\ SeenInv

-----------------------------------------------------------------------------
(* Queue numbers and lists.                                                   *)
USE TaskQAssumption

LEMMA IndexNumbers ==
  /\ NumQueues \in Nat /\ NumQueues > 0
  /\ 0 \in Indexes
  /\ \A l \in Hints : IndexesOf(l) \subseteq Indexes
  /\ \A x \in Indexes : /\ x \in Int
                        /\ (x + 1) % NumQueues = IF x + 1 = NumQueues THEN 0 ELSE x + 1
<1>1. NumThreads \div LgrpSize \in Nat
  BY SMT
<1>2. NumQueues \in Nat /\ NumQueues > 0
  BY <1>1 DEF NumQueues
<1>3. \A l \in Int : l % NumQueues \in 0 .. NumQueues - 1
  BY <1>2
<1>4. ASSUME NEW x \in Indexes
      PROVE  (x + 1) % NumQueues = IF x + 1 = NumQueues THEN 0 ELSE x + 1
  <2>1. x \in Nat /\ x + 1 <= NumQueues
    BY <1>2 DEF Indexes
  <2>2. \A n, d \in Nat : n < d => n % d = n
    BY SMT
  <2>3. \A d \in Nat : d > 0 => d % d = 0
    BY SMT
  <2> QED
    BY <1>2, <2>1, <2>2, <2>3
<1> QED
  BY <1>2, <1>3, <1>4 DEF Indexes, IndexesOf

LEMMA ElementsOfAppend ==
  ASSUME NEW s \in Seq(Tasks), NEW e \in Tasks
  PROVE  Elements(Append(s, e)) = Elements(s) \cup {e}
<1>1. /\ Append(s, e) \in Seq(Tasks) /\ Len(Append(s, e)) = Len(s) + 1
      /\ \A k \in 1 .. Len(s) : Append(s, e)[k] = s[k]
      /\ Append(s, e)[Len(s) + 1] = e
  BY AppendProperties
<1>2. /\ DOMAIN Append(s, e) = 1 .. Len(s) + 1 /\ DOMAIN s = 1 .. Len(s) /\ Len(s) \in Nat
  BY <1>1, LenProperties
<1> QED
  BY <1>1, <1>2 DEF Elements

LEMMA ElementsOfTail ==
  ASSUME NEW s \in Seq(Tasks), s # << >>
  PROVE  Elements(Tail(s)) \subseteq Elements(s)
<1>1. /\ Tail(s) \in Seq(Tasks) /\ Len(Tail(s)) = Len(s) - 1
      /\ \A k \in 1 .. Len(Tail(s)) : Tail(s)[k] = s[k + 1]
  BY HeadTailProperties
<1>2. DOMAIN Tail(s) = 1 .. Len(s) - 1 /\ DOMAIN s = 1 .. Len(s) /\ Len(s) \in Nat
  BY <1>1, LenProperties
<1> QED
  BY <1>1, <1>2 DEF Elements

LEMMA AppendOne ==
  ASSUME NEW q \in [Indexes -> Seq(Tasks)], Distinct(q),
         NEW x \in Indexes, NEW e \in Tasks, e \notin Content(q),
         NEW r, r = [q EXCEPT ![x] = Append(q[x], e)]
  PROVE  /\ r \in [Indexes -> Seq(Tasks)]
         /\ Distinct(r)
         /\ Content(r) = Content(q) \cup {e}
<1>1. /\ r[x] \in Seq(Tasks) /\ Len(r[x]) = Len(q[x]) + 1
      /\ \A k \in 1 .. Len(q[x]) : r[x][k] = q[x][k]
      /\ r[x][Len(q[x]) + 1] = e
  BY AppendProperties
<1>2. \A y \in Indexes : y # x => r[y] = q[y]
  OBVIOUS
<1>3. /\ DOMAIN r[x] = 1 .. Len(q[x]) + 1 /\ DOMAIN q[x] = 1 .. Len(q[x]) /\ Len(q[x]) \in Nat
  BY <1>1, LenProperties
<1>4. r \in [Indexes -> Seq(Tasks)]
  BY <1>1
<1>5. Elements(r[x]) = Elements(q[x]) \cup {e}
  <2>1. q[x] \in Seq(Tasks) /\ r[x] = Append(q[x], e)
    OBVIOUS
  <2> QED
    BY <2>1, ElementsOfAppend
<1>7. Content(r) = Content(q) \cup {e}
  <2>1. ASSUME NEW f \in Content(r) PROVE f \in Content(q) \cup {e}
    <3>1. PICK y \in Indexes : f \in Elements(r[y])
      BY DEF Content
    <3>2. CASE y = x
      BY <1>5, <3>1, <3>2 DEF Content
    <3>3. CASE y # x
      BY <1>2, <3>1, <3>3 DEF Content
    <3> QED
      BY <3>2, <3>3
  <2>2. ASSUME NEW f \in Content(q) PROVE f \in Content(r)
    <3>1. PICK y \in Indexes : f \in Elements(q[y])
      BY DEF Content
    <3>2. f \in Elements(r[y])
      BY <1>2, <1>5, <3>1
    <3> QED
      BY <3>2 DEF Content
  <2>3. e \in Content(r)
    BY <1>5 DEF Content
  <2> QED
    BY <2>1, <2>2, <2>3
<1>8. \A y \in Indexes : \A k \in DOMAIN q[y] : q[y][k] # e
  BY DEF Content, Elements
<1>9. Distinct(r)
  <2> SUFFICES ASSUME NEW y \in Indexes, NEW z \in Indexes,
                      NEW k \in DOMAIN r[y], NEW l \in DOMAIN r[z], r[y][k] = r[z][l]
               PROVE  y = z /\ k = l
    BY DEF Distinct
  <2>1. \/ k \in DOMAIN q[y] /\ r[y][k] = q[y][k]
        \/ y = x /\ k = Len(q[x]) + 1 /\ r[y][k] = e
    BY <1>1, <1>2, <1>3
  <2>2. \/ l \in DOMAIN q[z] /\ r[z][l] = q[z][l]
        \/ z = x /\ l = Len(q[x]) + 1 /\ r[z][l] = e
    BY <1>1, <1>2, <1>3
  <2> QED
    BY <2>1, <2>2, <1>8 DEF Distinct
<1> QED
  BY <1>4, <1>7, <1>9

LEMMA RemoveHead ==
  ASSUME NEW q \in [Indexes -> Seq(Tasks)], Distinct(q),
         NEW x \in Indexes, q[x] # << >>,
         NEW r, r = [q EXCEPT ![x] = Tail(q[x])]
  PROVE  /\ r \in [Indexes -> Seq(Tasks)] /\ Distinct(r)
         /\ Head(q[x]) \in Tasks /\ Head(q[x]) \in Content(q)
         /\ Content(r) = Content(q) \ {Head(q[x])}
<1>1. /\ Head(q[x]) \in Tasks /\ r[x] \in Seq(Tasks) /\ Len(r[x]) = Len(q[x]) - 1
      /\ \A k \in 1 .. Len(r[x]) : r[x][k] = q[x][k + 1]
  BY HeadTailProperties
<1>2. \A y \in Indexes : y # x => r[y] = q[y]
  OBVIOUS
<1>3. /\ DOMAIN r[x] = 1 .. Len(q[x]) - 1 /\ DOMAIN q[x] = 1 .. Len(q[x])
      /\ Len(q[x]) \in Nat /\ Len(q[x]) > 0
      /\ Head(q[x]) = q[x][1]
  BY <1>1, LenProperties, EmptySeq
<1>4. r \in [Indexes -> Seq(Tasks)]
  BY <1>1
<1>5. Elements(r[x]) = Elements(q[x]) \ {Head(q[x])}
  <2>1. \A k \in DOMAIN q[x] : k # 1 => q[x][k] # Head(q[x])
    BY <1>3 DEF Distinct
  <2>2. \A k \in DOMAIN q[x] : k # 1 => k - 1 \in DOMAIN r[x] /\ r[x][k - 1] = q[x][k]
    BY <1>1, <1>3
  <2>3. \A k \in DOMAIN r[x] : k + 1 \in DOMAIN q[x] /\ k + 1 # 1 /\ r[x][k] = q[x][k + 1]
    BY <1>1, <1>3
  <2>4. ASSUME NEW v \in Elements(r[x])
        PROVE  v \in Elements(q[x]) /\ v # Head(q[x])
    <3>1. PICK k \in DOMAIN r[x] : v = r[x][k]
      BY DEF Elements
    <3> QED
      BY <3>1, <2>1, <2>3 DEF Elements
  <2>5. ASSUME NEW v \in Elements(q[x]), v # Head(q[x])
        PROVE  v \in Elements(r[x])
    <3>1. PICK k \in DOMAIN q[x] : v = q[x][k]
      BY DEF Elements
    <3>2. k # 1
      BY <3>1, <2>5, <1>3
    <3> QED
      BY <3>1, <3>2, <2>2 DEF Elements
  <2> QED
    BY <2>4, <2>5
<1>6. \A y \in Indexes : y # x => Head(q[x]) \notin Elements(q[y])
  BY <1>3 DEF Distinct, Elements
<1>7. Head(q[x]) \in Elements(q[x])
  BY <1>3 DEF Elements
<1>8. Content(r) = Content(q) \ {Head(q[x])}
  BY <1>2, <1>5, <1>6 DEF Content
<1>9. Distinct(r)
  <2> SUFFICES ASSUME NEW y \in Indexes, NEW z \in Indexes,
                      NEW k \in DOMAIN r[y], NEW l \in DOMAIN r[z], r[y][k] = r[z][l]
               PROVE  y = z /\ k = l
    BY DEF Distinct
  <2>1. IF y = x THEN k \in Int /\ k + 1 \in DOMAIN q[y] /\ r[y][k] = q[y][k + 1]
                 ELSE k \in DOMAIN q[y] /\ r[y][k] = q[y][k]
    BY <1>1, <1>2, <1>3
  <2>2. IF z = x THEN l \in Int /\ l + 1 \in DOMAIN q[z] /\ r[z][l] = q[z][l + 1]
                 ELSE l \in DOMAIN q[z] /\ r[z][l] = q[z][l]
    BY <1>1, <1>2, <1>3
  <2> QED
    BY <2>1, <2>2 DEF Distinct
<1> QED
  BY <1>1, <1>4, <1>7, <1>8, <1>9 DEF Content

-----------------------------------------------------------------------------
(* What an action leaves alone.                                               *)
LEMMA NoneIsNobody == NONE \notin Tids /\ 0 \in Tids
  BY DEF Tids

LEMMA QueuedIsContent == Queued = Content(queues) /\ Freed = Content(free_queues)
  BY DEF Queued, Freed, Content

LEMMA CurrentIsIndex == ASSUME Typed, NEW t \in Tids PROVE Current(t) \in Indexes
  BY DEF Typed, Current

LEMMA TriedStays ==
  ASSUME TriedInv, NEW t \in Tids,
         pc'[t] = pc[t], index'[t] = index[t], i'[t] = i[t], qe'[t] = qe[t], seen'[t] = seen[t],
         Added \subseteq Added',
         \A x \in Indexes : Elements(queues[x])' \cap Added \subseteq Elements(queues[x])
  PROVE  TriedOf(t)'
<1>1. TriedOf(t)
  BY DEF TriedInv
<1>2. Queued' \cap Added \subseteq Queued
  BY DEF Queued
<1>3. /\ Dequeuing(t)' <=> Dequeuing(t)
      /\ \A x \in Indexes : Tried(t, x)' <=> Tried(t, x)
  BY DEF Dequeuing, Tried, Before
<1> QED
  BY <1>1, <1>2, <1>3 DEF TriedOf

(* When the step of one worker t leaves the queues alone.                      *)
LEMMA OthersTried ==
  ASSUME TriedInv, NEW t \in Tids, queues' = queues, Added \subseteq Added',
         \A u \in Tids \ {t} : /\ pc'[u] = pc[u] /\ index'[u] = index[u] /\ i'[u] = i[u]
                               /\ qe'[u] = qe[u] /\ seen'[u] = seen[u],
         TriedOf(t)'
  PROVE  TriedInv'
<1> SUFFICES ASSUME NEW u \in Tids, u # t PROVE TriedOf(u)'
  BY DEF TriedInv
<1> QED
  BY TriedStays

LEMMA SeenStays ==
  ASSUME SeenInv, Queued' \subseteq Queued,
         \A t \in Tids : (Dequeuing(t) \/ pc[t] = "done")' =>
                           (Dequeuing(t) \/ pc[t] = "done") /\ seen'[t] = seen[t]
  PROVE  SeenInv'
  BY DEF SeenInv

-----------------------------------------------------------------------------
(* The thread that runs the phases.                                           *)
LEMMA InitInv == Init => IInv
<1> SUFFICES ASSUME Init PROVE IInv
  OBVIOUS
<1>1. \A x \in Indexes : queues[x] = << >> /\ free_queues[x] = << >>
  BY DEF Init
<1>2. Queued = {} /\ Freed = {} /\ Distinct(queues) /\ Distinct(free_queues)
  BY <1>1 DEF Queued, Freed, Elements, Distinct
<1>3. \A t \in Tids : pc[t] = "off"
  BY DEF Init
<1>4. Typed
  BY IndexNumbers DEF Init, Typed, Locations
<1>5. PhasesInv /\ LocksInv /\ LocalsInv
  BY NoneIsNobody DEF Init, PhasesInv, LocksInv, LocalsInv, Holding
<1>6. PlacesInv
  BY <1>2, <1>3 DEF Init, PlacesInv, Hands, InHand
<1>7. GotInv /\ GotKnown /\ TriedInv /\ SeenInv
  BY <1>2, <1>3 DEF Init, GotInv, GotKnown, TriedInv, TriedOf, SeenInv, Dequeuing
<1> QED
  BY <1>4, <1>5, <1>6, <1>7 DEF IInv

LEMMA FillStep ==
  ASSUME IInv, NEW task \in Tasks, NEW l \in Hints, tq_enqueue_seq(task, l)
  PROVE  IInv'
<1> USE DEF IInv
<1>1. PICK x \in Indexes : queues' = [queues EXCEPT ![x] = Append(queues[x], task)]
  BY IndexNumbers DEF tq_enqueue_seq
<1>2. main = "fill" /\ \A t \in Tids : pc[t] = "off"
  BY DEF tq_enqueue_seq, PhasesInv
<1>3. task \notin Queued
  BY DEF tq_enqueue_seq, PlacesInv
<1>4. /\ queues' \in [Indexes -> Seq(Tasks)] /\ Distinct(queues')
      /\ Content(queues') = Content(queues) \cup {task}
  <2>1. queues \in [Indexes -> Seq(Tasks)] /\ Distinct(queues) /\ task \notin Content(queues)
    BY <1>3, QueuedIsContent DEF Typed, PlacesInv
  <2> QED
    BY <1>1, <2>1, AppendOne, Zenon
<1>5. /\ enqueued' = enqueued \cup {task} /\ task \notin enqueued
      /\ UNCHANGED <<free_queues, holder, main, pc, index, i, qe, snap, got, seen>>
  BY DEF tq_enqueue_seq, mainVars, workVars
<1>6. Queued' = Queued \cup {task} /\ Freed' = Freed /\ Hands' = {} /\ Hands = {}
  BY <1>2, <1>4, <1>5 DEF Queued, Freed, Content, Hands, InHand
<1>7. Typed'
  BY <1>4, <1>5 DEF Typed
<1>8. PhasesInv' /\ LocksInv' /\ LocalsInv'
  BY <1>2, <1>5 DEF PhasesInv, LocksInv, LocalsInv, Holding, Current
<1>9. PlacesInv'
  BY <1>2, <1>4, <1>5, <1>6 DEF PlacesInv, InHand, Distinct
<1>10. GotInv' /\ GotKnown'
  BY <1>5, <1>6 DEF GotInv, GotKnown
<1>11. TriedInv' /\ SeenInv'
  BY <1>2, <1>5, NoneIsNobody DEF TriedInv, TriedOf, SeenInv, Dequeuing
<1> QED
  BY <1>7, <1>8, <1>9, <1>10, <1>11

LEMMA StartStep ==
  ASSUME IInv, StartWorkers
  PROVE  IInv'
<1> USE DEF IInv
<1>1. \A t \in Tids : pc[t] = "off" /\ pc'[t] = "idle"
  BY DEF StartWorkers, PhasesInv
<1>2. UNCHANGED <<queues, free_queues, holder, index, i, qe, snap, enqueued, got, seen>>
  BY DEF StartWorkers, listVars, workVars, histVars
<1>3. Queued' = Queued /\ Freed' = Freed /\ Hands' = {} /\ Hands = {}
  BY <1>1, <1>2 DEF Queued, Freed, Hands, InHand
<1>4. Typed' /\ PhasesInv'
  BY <1>1, <1>2 DEF StartWorkers, Typed, PhasesInv, Locations
<1>5. LocksInv' /\ LocalsInv'
  BY <1>1, <1>2 DEF LocksInv, LocalsInv, Holding, Current
<1>6. PlacesInv'
  BY <1>1, <1>2, <1>3 DEF StartWorkers, PlacesInv, InHand, Distinct
<1>7. GotInv' /\ GotKnown'
  BY <1>1, <1>2, <1>3 DEF StartWorkers, GotInv, GotKnown
<1>8. TriedInv' /\ SeenInv'
  BY <1>1, NoneIsNobody DEF TriedInv, TriedOf, SeenInv, Dequeuing
<1> QED
  BY <1>4, <1>5, <1>6, <1>7, <1>8

LEMMA NextPhaseStep ==
  ASSUME IInv, NextPhase
  PROVE  IInv'
<1> USE DEF IInv
<1>1. \A t \in Tids : pc[t] = "done" /\ pc'[t] = "off"
  BY DEF NextPhase, WorkersDone
<1>2. UNCHANGED <<queues, free_queues, holder, index, i, qe, snap, enqueued, got, seen>>
  BY DEF NextPhase, listVars, workVars, histVars
<1>3. Queued' = Queued /\ Freed' = Freed /\ Hands' = {} /\ Hands = {}
  BY <1>1, <1>2 DEF Queued, Freed, Hands, InHand
<1>4. Typed' /\ PhasesInv'
  BY <1>1, <1>2 DEF NextPhase, Typed, PhasesInv, Locations
<1>5. LocksInv' /\ LocalsInv'
  BY <1>1, <1>2 DEF LocksInv, LocalsInv, Holding, Current
<1>6. PlacesInv'
  BY <1>1, <1>2, <1>3 DEF NextPhase, PlacesInv, InHand, Distinct
<1>7. GotInv' /\ GotKnown'
  BY <1>1, <1>2, <1>3 DEF NextPhase, GotInv, GotKnown
<1>8. TriedInv' /\ SeenInv'
  BY <1>1, NoneIsNobody DEF TriedInv, TriedOf, SeenInv, Dequeuing
<1> QED
  BY <1>4, <1>5, <1>6, <1>7, <1>8

LEMMA FinalizeStep ==
  ASSUME IInv, tq_finalize
  PROVE  IInv'
<1> USE DEF IInv
<1>1. \A t \in Tids : pc[t] = "done" /\ pc'[t] = "done"
  BY DEF tq_finalize, WorkersDone
<1>2. UNCHANGED <<holder, pc, index, i, qe, snap, enqueued, got, seen>> /\ main' = "freed"
  BY DEF tq_finalize, workVars, histVars
<1>3. \A x \in Indexes : queues'[x] = << >> /\ free_queues'[x] = << >>
  BY DEF tq_finalize
<1>4. /\ Queued' = {} /\ Freed' = {} /\ Hands' = {}
      /\ Distinct(queues') /\ Distinct(free_queues')
  BY <1>1, <1>3 DEF Queued, Freed, Hands, InHand, Elements, Distinct
<1>5. Added' = Added
  BY <1>2 DEF Added
<1>6. Typed' /\ PhasesInv'
  BY <1>1, <1>2 DEF tq_finalize, Typed, PhasesInv
<1>7. LocksInv' /\ LocalsInv'
  BY <1>1, <1>2 DEF LocksInv, LocalsInv, Holding, Current
<1>8. PlacesInv'
  BY <1>1, <1>2, <1>4 DEF PlacesInv, InHand, Distinct
<1>9. GotInv' /\ GotKnown'
  BY <1>2 DEF GotInv, GotKnown
<1>10. TriedInv' /\ SeenInv'
  BY <1>1, <1>2, <1>4, <1>5 DEF TriedInv, TriedOf, SeenInv, Dequeuing
<1> QED
  BY <1>6, <1>7, <1>8, <1>9, <1>10

-----------------------------------------------------------------------------
(* A worker in tq_enqueue.                                                     *)
LEMMA EnqueueStep ==
  ASSUME IInv, NEW t \in Tids, NEW task \in Tasks, NEW l \in Hints, tq_enqueue(t, task, l)
  PROVE  IInv'
<1> USE DEF IInv
<1>1. PICK x \in Indexes : index' = [index EXCEPT ![t] = x]
  BY IndexNumbers DEF tq_enqueue
<1>2. /\ pc[t] = "idle" /\ pc' = [pc EXCEPT ![t] = "elock"] /\ qe' = [qe EXCEPT ![t] = task]
      /\ enqueued' = enqueued \cup {task} /\ task \notin enqueued
      /\ UNCHANGED <<queues, free_queues, holder, main, i, snap, got, seen>>
  BY DEF tq_enqueue, Goto, listVars, mainVars
<1>3. task \notin Queued /\ task \notin Freed /\ task \notin Hands
  BY <1>2 DEF PlacesInv
<1>4. Queued' = Queued /\ Freed' = Freed
  BY <1>2 DEF Queued, Freed
<1>5. Hands' = Hands \cup {task}
  BY <1>2 DEF Hands, InHand, Typed
<1>6. Added' = Added
  <2> DEFINE Adding == {u \in Tids : pc[u] \in {"elock", "eread", "ewrite"}}
  <2>1. Adding' = Adding \cup {t} /\ t \notin Adding
    BY <1>2 DEF Typed
  <2>2. qe'[t] = task /\ \A u \in Adding : qe'[u] = qe[u]
    BY <1>2, <2>1 DEF Typed
  <2>3. Added = enqueued \ {qe[u] : u \in Adding}
    BY DEF Added
  <2>4. Added' = (enqueued \cup {task}) \ {qe'[u] : u \in Adding'}
    BY <1>2 DEF Added
  <2> HIDE DEF Adding
  <2>5. {qe'[u] : u \in Adding'} = {qe[u] : u \in Adding} \cup {task}
    BY <2>1, <2>2
  <2> QED
    BY <1>2, <2>3, <2>4, <2>5
<1>7. Typed' /\ PhasesInv'
  BY <1>1, <1>2 DEF Typed, PhasesInv, Locations
<1>8. LocksInv'
  BY <1>1, <1>2 DEF LocksInv, Typed, Holding, Current
<1>9. LocalsInv'
  BY <1>1, <1>2 DEF LocalsInv, Typed, Current
<1>10. PlacesInv'
  <2>1. \A u \in Tids : u # t /\ InHand(u)' => InHand(u) /\ qe'[u] = qe[u] /\ qe[u] # task
    BY <1>2, <1>3 DEF InHand, Typed, Hands
  <2>2. Distinct(queues)' /\ Distinct(free_queues)'
    BY <1>2 DEF PlacesInv, Distinct
  <2>3. (Queued \cap Freed = {} /\ Hands \cap (Queued \cup Freed) = {})'
    BY <1>3, <1>4, <1>5 DEF PlacesInv
  <2>4. qe'[t] = task
    BY <1>2 DEF Typed
  <2>5. ASSUME NEW u \in Tids, NEW v \in Tids, InHand(u)', InHand(v)', qe'[u] = qe'[v]
        PROVE  u = v
    <3>1. CASE u = t
      BY <2>1, <2>4, <2>5, <3>1
    <3>2. CASE v = t
      BY <2>1, <2>4, <2>5, <3>2
    <3>3. CASE u # t /\ v # t
      BY <2>1, <2>5, <3>3 DEF PlacesInv
    <3> QED
      BY <3>1, <3>2, <3>3
  <2>6. (Queued \cup Freed \cup Hands \subseteq enqueued)'
    BY <1>2, <1>4, <1>5 DEF PlacesInv
  <2>7. (main # "freed" => enqueued \subseteq Queued \cup Freed \cup Hands)'
    BY <1>2, <1>4, <1>5 DEF PlacesInv
  <2> QED
    BY <2>2, <2>3, <2>5, <2>6, <2>7 DEF PlacesInv
<1>11. GotInv' /\ GotKnown'
  BY <1>2, <1>4 DEF GotInv, GotKnown, Typed
<1>12. TriedInv'
  <2>1. TriedOf(t)'
    BY <1>2 DEF TriedOf, Dequeuing, Typed
  <2> QED
    BY <1>1, <1>2, <1>6, <2>1, OthersTried DEF Typed
<1>13. SeenInv'
  BY <1>2, <1>4, SeenStays DEF Dequeuing, Typed
<1> QED
  BY <1>7, <1>8, <1>9, <1>10, <1>11, <1>12, <1>13

LEMMA PushReadStep ==
  ASSUME IInv, NEW t \in Tids, PushRead(t)
  PROVE  IInv'
<1> USE DEF IInv
<1>1. /\ pc[t] = "eread" /\ pc' = [pc EXCEPT ![t] = "ewrite"]
      /\ snap' = [snap EXCEPT ![t] = queues[index[t]]]
      /\ UNCHANGED <<queues, free_queues, holder, main, index, i, qe, enqueued, got, seen>>
  BY DEF PushRead, Goto, listVars, mainVars, histVars
<1>2. Queued' = Queued /\ Freed' = Freed
  BY <1>1 DEF Queued, Freed
<1>3. Hands' = Hands /\ \A u \in Tids : InHand(u)' <=> InHand(u)
  BY <1>1 DEF Hands, InHand, Typed
<1>4. Added' = Added
  BY <1>1 DEF Added, Typed
<1>5. Typed' /\ PhasesInv'
  BY <1>1 DEF Typed, PhasesInv, Locations
<1>6. LocksInv' /\ LocalsInv'
  BY <1>1 DEF LocksInv, LocalsInv, Typed, Holding, Current
<1>7. PlacesInv'
  BY <1>1, <1>2, <1>3 DEF PlacesInv, Distinct
<1>8. GotInv' /\ GotKnown'
  BY <1>1, <1>2 DEF GotInv, GotKnown, Typed
<1>9. TriedInv'
  <2>1. TriedOf(t)'
    BY <1>1 DEF TriedOf, Dequeuing, Typed
  <2> QED
    BY <1>1, <1>4, <2>1, OthersTried DEF Typed
<1>10. SeenInv'
  BY <1>1, <1>2, SeenStays DEF Dequeuing, Typed
<1> QED
  BY <1>5, <1>6, <1>7, <1>8, <1>9, <1>10

(* Only the holder of a queue's lock changes the queue.                        *)
LEMMA OneHolder ==
  ASSUME IInv, NEW t \in Tids, NEW u \in Tids, Holding(t), Holding(u), Current(t) = Current(u)
  PROVE  t = u
  BY CurrentIsIndex, NoneIsNobody DEF IInv, LocksInv, Typed

LEMMA PushWriteStep ==
  ASSUME IInv, NEW t \in Tids, PushWrite(t)
  PROVE  IInv'
<1> USE DEF IInv
<1> DEFINE x == index[t]
           e == qe[t]
<1>1. /\ pc[t] = "ewrite" /\ pc' = [pc EXCEPT ![t] = "eunlock"]
      /\ snap' = [snap EXCEPT ![t] = << >>]
      /\ UNCHANGED <<free_queues, holder, main, index, i, qe, enqueued, got, seen>>
  BY DEF PushWrite, Goto, mainVars, histVars
<1>2. /\ x \in Indexes /\ e \in Tasks /\ e # NONE /\ Current(t) = x
      /\ queues' = [queues EXCEPT ![x] = Append(queues[x], e)]
  <2>1. Current(t) = x /\ snap[t] = queues[x]
    BY <1>1 DEF LocalsInv, Current
  <2>2. x \in Indexes /\ e \in Tasks \cup {NONE} /\ e # NONE
    BY <1>1 DEF Typed, LocalsInv
  <2>3. queues' = [queues EXCEPT ![x] = Append(snap[t], e)]
    BY DEF PushWrite
  <2> QED
    BY <2>1, <2>2, <2>3
<1>3. e \in Hands /\ e \notin Queued /\ e \notin Freed
  BY <1>1 DEF Hands, InHand, PlacesInv
<1>4. /\ queues' \in [Indexes -> Seq(Tasks)] /\ Distinct(queues')
      /\ Content(queues') = Content(queues) \cup {e}
  <2> HIDE DEF x, e
  <2>1. queues \in [Indexes -> Seq(Tasks)] /\ Distinct(queues) /\ e \notin Content(queues)
    BY <1>3, QueuedIsContent DEF Typed, PlacesInv
  <2> QED
    BY <1>2, <2>1, AppendOne, Zenon
<1>5. Queued' = Queued \cup {e} /\ Freed' = Freed
  BY <1>1, <1>4 DEF Queued, Freed, Content
<1>6. \A y \in Indexes : Elements(queues'[y]) \subseteq Elements(queues[y]) \cup {e}
  <2> HIDE DEF x, e
  <2>1. queues[x] \in Seq(Tasks) /\ queues'[x] = Append(queues[x], e)
    BY <1>2 DEF Typed
  <2>2. Elements(queues'[x]) = Elements(queues[x]) \cup {e}
    BY <1>2, <2>1, ElementsOfAppend
  <2>3. \A y \in Indexes : y # x => queues'[y] = queues[y]
    BY <1>2 DEF Typed
  <2> QED
    BY <2>2, <2>3
<1>7. \A u \in Tids : InHand(u)' <=> InHand(u) /\ u # t
  BY <1>1 DEF InHand, Typed
<1>8. Hands' = Hands \ {e}
  BY <1>1, <1>7 DEF Hands, InHand, PlacesInv
<1>9. Added' = Added \cup {e} /\ e \notin Added
  BY <1>1, <1>3 DEF Added, Typed, PlacesInv, InHand
<1>10. Typed' /\ PhasesInv'
  BY <1>1, <1>4 DEF Typed, PhasesInv, Locations
<1>11. LocksInv'
  BY <1>1 DEF LocksInv, Typed, Holding, Current
<1>12. LocalsInv'
  <2> SUFFICES ASSUME NEW u \in Tids, u # t, pc[u] \in {"ewrite", "dwrite"}
               PROVE  queues'[Current(u)] = queues[Current(u)]
    BY <1>1 DEF LocalsInv, Typed, Current
  <2>1. Current(u) # x
    BY <1>1, <1>2, OneHolder DEF Holding
  <2> QED
    BY <1>2, <2>1, CurrentIsIndex DEF Typed
<1>13. PlacesInv'
  <2>1. Distinct(queues)' /\ Distinct(free_queues)'
    BY <1>1, <1>4 DEF PlacesInv, Distinct
  <2> QED
    BY <1>1, <1>3, <1>5, <1>7, <1>8, <2>1 DEF PlacesInv
<1>14. GotInv' /\ GotKnown'
  BY <1>1, <1>5 DEF GotInv, GotKnown, Typed
<1>15. TriedInv'
  <2>1. \A y \in Indexes : Elements(queues[y])' \cap Added \subseteq Elements(queues[y])
    BY <1>6, <1>9
  <2>2. TriedOf(t)'
    BY <1>1 DEF TriedOf, Dequeuing, Typed
  <2>3. \A u \in Tids : u # t => TriedOf(u)'
    BY <1>1, <1>9, <2>1, TriedStays DEF Typed
  <2> QED
    BY <2>2, <2>3 DEF TriedInv
<1>16. SeenInv'
  <2>1. \A u \in Tids : (Dequeuing(u) \/ pc[u] = "done")' <=> Dequeuing(u) \/ pc[u] = "done"
    BY <1>1 DEF Dequeuing, Typed
  <2>2. ~(Dequeuing(t) \/ pc[t] = "done")
    BY <1>1 DEF Dequeuing
  <2> QED
    BY <1>1, <1>5, <2>1, <2>2 DEF SeenInv
<1> QED
  BY <1>10, <1>11, <1>12, <1>13, <1>14, <1>15, <1>16

-----------------------------------------------------------------------------
(* A worker in tq_dequeue.                                                     *)
LEMMA DequeueStep ==
  ASSUME IInv, NEW t \in Tids, NEW l \in Hints, tq_dequeue(t, l)
  PROVE  IInv'
<1> USE DEF IInv
<1>1. PICK x \in Indexes : index' = [index EXCEPT ![t] = x] /\ i' = [i EXCEPT ![t] = x]
  BY IndexNumbers DEF tq_dequeue
<1>2. /\ pc[t] = "idle" /\ pc' = [pc EXCEPT ![t] = "dlock"]
      /\ seen' = [seen EXCEPT ![t] = Added]
      /\ UNCHANGED <<queues, free_queues, holder, main, qe, snap, enqueued, got>>
  BY DEF tq_dequeue, Goto, listVars, mainVars
<1>3. Queued' = Queued /\ Freed' = Freed
  BY <1>2 DEF Queued, Freed
<1>4. Hands' = Hands /\ \A u \in Tids : InHand(u)' <=> InHand(u)
  BY <1>2 DEF Hands, InHand, Typed
<1>5. Added' = Added /\ Added \subseteq Tasks
  BY <1>2 DEF Added, Typed
<1>6. Typed' /\ PhasesInv'
  BY <1>1, <1>2, <1>5 DEF Typed, PhasesInv, Locations
<1>7. LocksInv' /\ LocalsInv'
  BY <1>1, <1>2 DEF LocksInv, LocalsInv, Typed, Holding, Current
<1>8. PlacesInv'
  BY <1>2, <1>3, <1>4 DEF PlacesInv, Distinct
<1>9. GotInv' /\ GotKnown'
  BY <1>2, <1>3 DEF GotInv, GotKnown, Typed
<1>10. TriedInv'
  <2>1. \A y \in Indexes : ~Tried(t, y)'
    <3>1. pc'[t] = "dlock" /\ index'[t] = x /\ i'[t] = x
      BY <1>1, <1>2 DEF Typed
    <3>2. \A y \in Indexes : y \in Int
      BY IndexNumbers
    <3> QED
      BY <3>1, <3>2 DEF Tried, Before
  <2>2. TriedOf(t)'
    BY <1>2, <1>5, <2>1 DEF TriedOf, Dequeuing, Typed
  <2> QED
    BY <1>1, <1>2, <1>5, <2>2, OthersTried DEF Typed
<1>11. SeenInv'
  <2>1. Queued \subseteq Added
    BY DEF PlacesInv, Added, Hands, InHand
  <2> SUFFICES ASSUME NEW e \in Queued
               PROVE  \E u \in Tids : (Dequeuing(u) \/ pc[u] = "done")' => e \in seen'[u]
    BY <1>3 DEF SeenInv
  <2>2. PICK u \in Tids : Dequeuing(u) \/ pc[u] = "done" => e \in seen[u]
    BY DEF SeenInv
  <2> QED
    BY <1>2, <2>1, <2>2 DEF Dequeuing, Typed
<1> QED
  BY <1>6, <1>7, <1>8, <1>9, <1>10, <1>11

LEMMA AcquireStep ==
  ASSUME IInv, NEW t \in Tids, lock_acquire(t)
  PROVE  IInv'
<1> USE DEF IInv
<1>1. /\ pc[t] \in {"elock", "dlock"}
      /\ pc' = [pc EXCEPT ![t] = IF pc[t] = "elock" THEN "eread" ELSE "dread"]
      /\ holder[Current(t)] = NONE /\ holder' = [holder EXCEPT ![Current(t)] = t]
      /\ UNCHANGED <<queues, free_queues, main, index, i, qe, snap, enqueued, got, seen>>
  BY DEF lock_acquire, LockIsFree, Goto, listVars, mainVars, workVars, histVars
<1>2. Queued' = Queued /\ Freed' = Freed
  BY <1>1 DEF Queued, Freed
<1>3. Hands' = Hands /\ \A u \in Tids : InHand(u)' <=> InHand(u)
  BY <1>1 DEF Hands, InHand, Typed
<1>4. Added' = Added
  BY <1>1 DEF Added, Typed
<1>5. Typed' /\ PhasesInv'
  BY <1>1, CurrentIsIndex DEF Typed, PhasesInv, Locations
<1>6. LocksInv'
  <2>1. Current(t) \in Indexes /\ \A u \in Tids : Current(u)' = Current(u)
    BY <1>1, CurrentIsIndex DEF Current, Typed
  <2>2. \A u \in Tids : Holding(u)' <=> Holding(u) \/ u = t
    BY <1>1 DEF Holding, Typed
  <2>3. ~Holding(t)
    BY <1>1 DEF Holding
  <2>4. /\ holder'[Current(t)] = t
        /\ \A x \in Indexes : x # Current(t) => holder'[x] = holder[x]
    BY <1>1, <2>1 DEF Typed
  <2>5. \A u \in Tids : u # NONE
    BY NoneIsNobody
  <2> SUFFICES ASSUME NEW u \in Tids, NEW x \in Indexes
               PROVE  holder'[x] = u <=> (Holding(u) \/ u = t) /\ Current(u) = x
    BY <2>1, <2>2 DEF LocksInv
  <2>6. holder[x] = u <=> Holding(u) /\ Current(u) = x
    BY DEF LocksInv
  <2>7. CASE x = Current(t)
    BY <1>1, <2>4, <2>5, <2>6, <2>7
  <2>8. CASE x # Current(t)
    BY <2>3, <2>4, <2>6, <2>8
  <2> QED
    BY <2>7, <2>8
<1>7. LocalsInv'
  BY <1>1 DEF LocalsInv, Typed, Current
<1>8. PlacesInv'
  BY <1>1, <1>2, <1>3 DEF PlacesInv, Distinct
<1>9. GotInv' /\ GotKnown'
  BY <1>1, <1>2 DEF GotInv, GotKnown, Typed
<1>10. TriedInv'
  <2>1. \A y \in Indexes : Tried(t, y)' <=> Tried(t, y)
    BY <1>1 DEF Tried, Before, Typed
  <2>2. TriedOf(t)'
    BY <1>1, <1>4, <2>1 DEF TriedInv, TriedOf, Dequeuing, Typed
  <2> QED
    BY <1>1, <1>4, <2>2, OthersTried DEF Typed
<1>11. SeenInv'
  BY <1>1, <1>2, SeenStays DEF Dequeuing, Typed
<1> QED
  BY <1>5, <1>6, <1>7, <1>8, <1>9, <1>10, <1>11

LEMMA PopReadStep ==
  ASSUME IInv, NEW t \in Tids, PopRead(t)
  PROVE  IInv'
<1> USE DEF IInv
<1> DEFINE x == i[t]
           h == Head(queues[x])
<1>1. /\ pc[t] = "dread" /\ qe[t] = NONE
      /\ UNCHANGED <<queues, free_queues, holder, main, index, i, enqueued, got, seen>>
  BY DEF PopRead, listVars, mainVars, histVars, LocalsInv
<1>e. ASSUME queues[x] = << >>
      PROVE  pc' = [pc EXCEPT ![t] = "dunlock"] /\ snap' = snap /\ qe' = qe
  BY <1>e DEF PopRead, Goto
<1>n. ASSUME queues[x] # << >>
      PROVE  /\ pc' = [pc EXCEPT ![t] = "dwrite"]
             /\ snap' = [snap EXCEPT ![t] = queues[x]] /\ qe' = [qe EXCEPT ![t] = h]
  BY <1>n DEF PopRead, Goto
<1>2. x \in Indexes /\ queues[x] \in Seq(Tasks) /\ (queues[x] # << >> => h \in Tasks)
  BY HeadTailProperties DEF Typed
<1> HIDE DEF x, h
<1>3. Queued' = Queued /\ Freed' = Freed
  BY <1>1 DEF Queued, Freed
<1>4. \A u \in Tids : u # t => pc'[u] = pc[u] /\ snap'[u] = snap[u] /\ qe'[u] = qe[u]
  BY <1>e, <1>n DEF Typed
<1>5. \/ queues[x] = << >> /\ pc'[t] = "dunlock" /\ snap'[t] = snap[t] /\ qe'[t] = NONE
      \/ queues[x] # << >> /\ pc'[t] = "dwrite" /\ snap'[t] = queues[x] /\ qe'[t] = h
  BY <1>1, <1>e, <1>n DEF Typed
<1>i. \A u \in Tids : InHand(u)' <=> InHand(u)
  BY <1>1, <1>4, <1>5 DEF InHand
<1>h. Hands' = Hands /\ ~InHand(t)
  BY <1>1, <1>4, <1>i DEF Hands, InHand
<1>6. Added' = Added
  <2>1. \A u \in Tids : pc'[u] \in {"elock", "eread", "ewrite"} <=>
                        pc[u] \in {"elock", "eread", "ewrite"}
    BY <1>1, <1>4, <1>5
  <2> QED
    BY <1>1, <1>4, <2>1 DEF Added
<1>7. Typed' /\ PhasesInv'
  <2>1. pc' \in [Tids -> Locations]
    BY <1>e, <1>n DEF Typed, Locations
  <2>2. snap' \in [Tids -> Seq(Tasks)] /\ qe' \in [Tids -> Tasks \cup {NONE}]
    <3>1. CASE queues[x] = << >>
      BY <1>e, <3>1 DEF Typed
    <3>2. CASE queues[x] # << >>
      <4>1. h \in Tasks /\ queues[x] \in Seq(Tasks)
        BY <1>2, <3>2
      <4>2. snap' = [snap EXCEPT ![t] = queues[x]] /\ qe' = [qe EXCEPT ![t] = h]
        BY <1>n, <3>2
      <4>3. snap \in [Tids -> Seq(Tasks)] /\ qe \in [Tids -> Tasks \cup {NONE}]
        BY DEF Typed
      <4> QED
        BY <4>1, <4>2, <4>3
    <3> QED
      BY <3>1, <3>2
  <2>3. PhasesInv'
    BY <1>1, <1>4, <1>5 DEF PhasesInv
  <2> QED
    BY <1>1, <2>1, <2>2, <2>3 DEF Typed
<1>8. LocksInv' /\ LocalsInv'
  <2>1. \A u \in Tids : Holding(u)' <=> Holding(u)
    BY <1>1, <1>4, <1>5 DEF Holding
  <2>2. \A u \in Tids : Current(u)' = Current(u)
    BY <1>1, <1>4, <1>5 DEF Current
  <2>3. LocksInv'
    BY <1>1, <2>1, <2>2 DEF LocksInv
  <2>4. Current(t) = x
    BY <1>1 DEF Current, x
  <2>5. LocalsInv'
    BY <1>1, <1>2, <1>4, <1>5, <2>2, <2>4 DEF LocalsInv, h
  <2> QED
    BY <2>3, <2>5
<1>9. PlacesInv'
  BY <1>1, <1>3, <1>4, <1>i, <1>h DEF PlacesInv, Distinct
<1>10. GotInv' /\ GotKnown'
  BY <1>1, <1>3, <1>4, <1>5 DEF GotInv, GotKnown
<1>11. TriedInv'
  <2>1. queues[x] = << >> => Elements(queues[x]) = {}
    BY DEF Elements
  <2>2. \A y \in Indexes : Tried(t, y)' => Tried(t, y) \/ (y = x /\ queues[x] = << >>)
    BY <1>1, <1>5 DEF Tried, Before, x
  <2>3. TriedOf(t)'
    BY <1>1, <1>5, <1>6, <2>1, <2>2 DEF TriedInv, TriedOf, Dequeuing
  <2> QED
    BY <1>1, <1>4, <1>6, <2>3, OthersTried
<1>12. SeenInv'
  <2>1. \A u \in Tids : (Dequeuing(u) \/ pc[u] = "done")' => Dequeuing(u) \/ pc[u] = "done"
    BY <1>1, <1>4 DEF Dequeuing
  <2> QED
    BY <1>1, <1>3, <2>1, SeenStays
<1> QED
  BY <1>7, <1>8, <1>9, <1>10, <1>11, <1>12

LEMMA PopWriteStep ==
  ASSUME IInv, NEW t \in Tids, PopWrite(t)
  PROVE  IInv'
<1> USE DEF IInv
<1> DEFINE x == i[t]
           e == qe[t]
<1>1. /\ pc[t] = "dwrite" /\ pc' = [pc EXCEPT ![t] = "dfree"]
      /\ snap' = [snap EXCEPT ![t] = << >>]
      /\ UNCHANGED <<free_queues, holder, main, index, i, qe, enqueued, got, seen>>
  BY DEF PopWrite, Goto, mainVars, histVars
<1>2. /\ x \in Indexes /\ Current(t) = x /\ queues[x] # << >> /\ e = Head(queues[x])
      /\ queues' = [queues EXCEPT ![x] = Tail(queues[x])]
  BY <1>1 DEF PopWrite, Typed, LocalsInv, Current
<1>3. /\ queues' \in [Indexes -> Seq(Tasks)] /\ Distinct(queues')
      /\ e \in Tasks /\ e \in Content(queues) /\ Content(queues') = Content(queues) \ {e}
  <2> HIDE DEF x, e
  <2>1. queues \in [Indexes -> Seq(Tasks)] /\ Distinct(queues)
    BY DEF Typed, PlacesInv
  <2> QED
    BY <1>2, <2>1, RemoveHead, Zenon
<1>4. Queued' = Queued \ {e} /\ Freed' = Freed /\ e \in Queued
  BY <1>1, <1>3 DEF Queued, Freed, Content
<1>5. \A y \in Indexes : Elements(queues'[y]) \subseteq Elements(queues[y])
  <2> HIDE DEF x, e
  <2>1. queues[x] \in Seq(Tasks) /\ queues'[x] = Tail(queues[x])
    BY <1>2 DEF Typed
  <2>2. Elements(queues'[x]) \subseteq Elements(queues[x])
    BY <1>2, <2>1, ElementsOfTail
  <2>3. \A y \in Indexes : y # x => queues'[y] = queues[y]
    BY <1>2 DEF Typed
  <2> QED
    BY <2>2, <2>3
<1>6. e # NONE /\ e \notin Freed /\ e \notin Hands
  BY <1>3, <1>4 DEF PlacesInv
<1>7. \A u \in Tids : InHand(u)' <=> InHand(u) \/ u = t
  BY <1>1 DEF InHand, Typed
<1>8. Hands' = Hands \cup {e}
  BY <1>1, <1>7 DEF Hands
<1>9. Added' = Added
  BY <1>1 DEF Added, Typed
<1>10. Typed' /\ PhasesInv'
  BY <1>1, <1>3 DEF Typed, PhasesInv, Locations
<1>11. LocksInv'
  BY <1>1 DEF LocksInv, Typed, Holding, Current
<1>12. LocalsInv'
  <2> SUFFICES ASSUME NEW u \in Tids, u # t, pc[u] \in {"ewrite", "dwrite"}
               PROVE  queues'[Current(u)] = queues[Current(u)]
    BY <1>1, <1>6 DEF LocalsInv, Typed, Current
  <2>1. Current(u) # x
    BY <1>1, <1>2, OneHolder DEF Holding
  <2> QED
    BY <1>2, <2>1, CurrentIsIndex DEF Typed
<1>13. PlacesInv'
  <2>1. Distinct(queues)' /\ Distinct(free_queues)'
    BY <1>1, <1>3 DEF PlacesInv, Distinct
  <2>2. \A u \in Tids : InHand(u) => qe[u] \in Hands
    BY DEF Hands
  <2> QED
    BY <1>1, <1>4, <1>6, <1>7, <1>8, <2>1, <2>2 DEF PlacesInv
<1>14. GotInv' /\ GotKnown'
  BY <1>1, <1>4 DEF GotInv, GotKnown, Typed
<1>15. TriedInv'
  <2>1. \A y \in Indexes : Tried(t, y)' => Tried(t, y)
    BY <1>1 DEF Tried, Before, Typed
  <2>2. TriedOf(t)'
    BY <1>1, <1>5, <1>9, <2>1 DEF TriedInv, TriedOf, Dequeuing, Typed
  <2>3. \A u \in Tids : u # t => TriedOf(u)'
    BY <1>1, <1>5, <1>9, TriedStays DEF Typed
  <2> QED
    BY <2>2, <2>3 DEF TriedInv
<1>16. SeenInv'
  BY <1>1, <1>4, SeenStays DEF Dequeuing, Typed
<1> QED
  BY <1>10, <1>11, <1>12, <1>13, <1>14, <1>15, <1>16

LEMMA PushFreeStep ==
  ASSUME IInv, NEW t \in Tids, PushFree(t)
  PROVE  IInv'
<1> USE DEF IInv
<1> DEFINE x == i[t]
           e == qe[t]
<1>1. /\ pc[t] = "dfree" /\ pc' = [pc EXCEPT ![t] = "dunlock"]
      /\ UNCHANGED <<queues, holder, main, index, i, qe, snap, enqueued, got, seen>>
  BY DEF PushFree, Goto, mainVars, workVars, histVars
<1>2. /\ x \in Indexes /\ e \in Tasks /\ e # NONE
      /\ free_queues' = [free_queues EXCEPT ![x] = Append(free_queues[x], e)]
  BY <1>1 DEF PushFree, Typed, LocalsInv
<1>3. e \in Hands /\ e \notin Queued /\ e \notin Freed
  BY <1>1 DEF Hands, InHand, PlacesInv
<1>4. /\ free_queues' \in [Indexes -> Seq(Tasks)] /\ Distinct(free_queues')
      /\ Content(free_queues') = Content(free_queues) \cup {e}
  <2> HIDE DEF x, e
  <2>1. free_queues \in [Indexes -> Seq(Tasks)] /\ Distinct(free_queues)
        /\ e \notin Content(free_queues)
    BY <1>3, QueuedIsContent DEF Typed, PlacesInv
  <2> QED
    BY <1>2, <2>1, AppendOne, Zenon
<1>5. Queued' = Queued /\ Freed' = Freed \cup {e}
  BY <1>1, <1>4 DEF Queued, Freed, Content
<1>6. \A u \in Tids : InHand(u)' <=> InHand(u) /\ u # t
  BY <1>1 DEF InHand, Typed
<1>7. Hands' = Hands \ {e}
  BY <1>1, <1>6 DEF Hands, InHand, PlacesInv
<1>8. Added' = Added
  BY <1>1 DEF Added, Typed
<1>9. Typed' /\ PhasesInv'
  BY <1>1, <1>4 DEF Typed, PhasesInv, Locations
<1>10. LocksInv' /\ LocalsInv'
  BY <1>1 DEF LocksInv, LocalsInv, Typed, Holding, Current
<1>11. PlacesInv'
  <2>1. Distinct(queues)' /\ Distinct(free_queues)'
    BY <1>1, <1>4 DEF PlacesInv, Distinct
  <2> QED
    BY <1>1, <1>3, <1>5, <1>6, <1>7, <2>1 DEF PlacesInv
<1>12. GotInv' /\ GotKnown'
  <2>1. pc'[t] = "dunlock" /\ qe'[t] = e /\ \A u \in Tids : pc[u] = "dunlock" => pc'[u] = "dunlock"
    BY <1>1 DEF Typed
  <2>2. e \in enqueued
    BY <1>3 DEF PlacesInv
  <2> QED
    BY <1>1, <1>5, <2>1, <2>2 DEF GotInv, GotKnown, Typed
<1>13. TriedInv'
  <2>1. \A y \in Indexes : Tried(t, y)' <=> Tried(t, y)
    BY <1>1, <1>2 DEF Tried, Before, Typed
  <2>2. TriedOf(t)'
    BY <1>1, <1>8, <2>1 DEF TriedInv, TriedOf, Dequeuing, Typed
  <2> QED
    BY <1>1, <1>8, <2>2, OthersTried DEF Typed
<1>14. SeenInv'
  BY <1>1, <1>5, SeenStays DEF Dequeuing, Typed
<1> QED
  BY <1>9, <1>10, <1>11, <1>12, <1>13, <1>14

-----------------------------------------------------------------------------
(* The end of an attempt.  When the search has come round, every queue was tried. *)
LEMMA RoundTried ==
  ASSUME Typed, NEW t \in Tids, pc[t] = "dunlock", qe[t] = NONE, ~StealGoesOn(t),
         NEW x \in Indexes
  PROVE  Tried(t, x)
<1> DEFINE a == index[t]
           b == i[t]
<1>1. a \in Indexes /\ b \in Indexes
  BY DEF Typed
<1>2. a = IF b + 1 = NumQueues THEN 0 ELSE b + 1
  BY <1>1, IndexNumbers DEF StealGoesOn, NextIndex
<1>3. /\ x \in Int /\ a \in Int /\ b \in Int
      /\ 0 <= x /\ x < NumQueues /\ 0 <= b /\ b < NumQueues
  BY <1>1, IndexNumbers DEF Indexes
<1> HIDE DEF a, b
<1>4. Before(a, x, b) \/ x = b
  BY <1>2, <1>3, IndexNumbers DEF Before
<1> QED
  BY <1>4 DEF Tried, a, b

(* When the search goes on, what it had tried and the queue just left are tried. *)
LEMMA StealTried ==
  ASSUME Typed, NEW t \in Tids, StealGoesOn(t), NEW x \in Indexes,
         Before(index[t], x, NextIndex(t))
  PROVE  Before(index[t], x, i[t]) \/ x = i[t]
<1> DEFINE a == index[t]
           b == i[t]
           n == NextIndex(t)
<1>1. a \in Indexes /\ b \in Indexes
  BY DEF Typed
<1>2. n # a /\ n = IF b + 1 = NumQueues THEN 0 ELSE b + 1
  BY <1>1, IndexNumbers DEF StealGoesOn, NextIndex
<1>3. /\ x \in Int /\ a \in Int /\ b \in Int
      /\ 0 <= x /\ x < NumQueues /\ 0 <= b /\ b < NumQueues /\ 0 <= a /\ a < NumQueues
  BY <1>1, IndexNumbers DEF Indexes
<1>4. Before(a, x, n)
  OBVIOUS
<1> HIDE DEF a, b, n
<1>5. Before(a, x, b) \/ x = b
  BY <1>2, <1>3, <1>4, IndexNumbers DEF Before
<1> QED
  BY <1>5 DEF a, b

(* What is the same in the four ways a release may go on.                        *)
LEMMA ReleaseFrame ==
  ASSUME IInv, NEW t \in Tids, lock_release(t)
  PROVE  /\ pc[t] \in {"eunlock", "dunlock"}
         /\ holder' = [holder EXCEPT ![Current(t)] = NONE]
         /\ UNCHANGED <<queues, free_queues, main, snap, enqueued, seen>>
         /\ Queued' = Queued /\ Freed' = Freed
         /\ \A u \in Tids : u # t => /\ pc'[u] = pc[u] /\ qe'[u] = qe[u]
                                     /\ index'[u] = index[u] /\ i'[u] = i[u] /\ got'[u] = got[u]
<1> USE DEF IInv
<1>1. /\ pc[t] \in {"eunlock", "dunlock"} /\ holder' = [holder EXCEPT ![Current(t)] = NONE]
      /\ UNCHANGED <<queues, free_queues, main, snap, enqueued, seen>>
  BY DEF lock_release, listVars, mainVars
<1>2. Queued' = Queued /\ Freed' = Freed
  BY <1>1 DEF Queued, Freed
<1>3. /\ \E l \in Locations : pc' = [pc EXCEPT ![t] = l]
      /\ qe' = qe \/ qe' = [qe EXCEPT ![t] = NONE]
      /\ index' = index \/ index' = [index EXCEPT ![t] = 0]
      /\ i' = [i EXCEPT ![t] = 0] \/ i' = [i EXCEPT ![t] = NextIndex(t)]
      /\ got' = got \/ got' = [got EXCEPT ![t] = @ \cup {qe[t]}]
  BY DEF lock_release, Goto, Return, Locations
<1>4. \A u \in Tids : u # t => pc'[u] = pc[u] /\ qe'[u] = qe[u]
  BY <1>3 DEF Typed
<1>5. \A u \in Tids : u # t => index'[u] = index[u] /\ i'[u] = i[u] /\ got'[u] = got[u]
  BY <1>3 DEF Typed
<1> QED
  BY <1>1, <1>2, <1>4, <1>5

LEMMA ReleaseCases ==
  ASSUME IInv, NEW t \in Tids, lock_release(t)
  PROVE  \/ /\ pc[t] = "eunlock" /\ pc'[t] = "idle" /\ qe'[t] = NONE
            /\ index'[t] = 0 /\ i'[t] = 0 /\ got' = got
         \/ /\ pc[t] = "dunlock" /\ qe[t] # NONE /\ pc'[t] = "idle" /\ qe'[t] = NONE
            /\ index'[t] = 0 /\ i'[t] = 0 /\ got'[t] = got[t] \cup {qe[t]}
         \/ /\ pc[t] = "dunlock" /\ qe[t] = NONE /\ pc'[t] = "dlock" /\ qe'[t] = NONE
            /\ StealGoesOn(t) /\ index'[t] = index[t] /\ i'[t] = NextIndex(t) /\ got' = got
         \/ /\ pc[t] = "dunlock" /\ qe[t] = NONE /\ pc'[t] = "done" /\ qe'[t] = NONE
            /\ ~StealGoesOn(t) /\ index'[t] = 0 /\ i'[t] = 0 /\ got' = got
<1>1. Typed
  BY DEF IInv
<1>2. CASE pc[t] = "eunlock" /\ Goto(t, "idle") /\ Return(t) /\ UNCHANGED got
  BY <1>1, <1>2 DEF Typed, Goto, Return
<1>3. CASE /\ pc[t] = "dunlock" /\ qe[t] # NONE
           /\ got' = [got EXCEPT ![t] = @ \cup {qe[t]}]
           /\ Goto(t, "idle") /\ Return(t)
  BY <1>1, <1>3 DEF Typed, Goto, Return
<1>4. CASE /\ pc[t] = "dunlock" /\ qe[t] = NONE /\ StealGoesOn(t)
           /\ i' = [i EXCEPT ![t] = NextIndex(t)]
           /\ Goto(t, "dlock") /\ UNCHANGED <<index, qe, got>>
  BY <1>1, <1>4 DEF Typed, Goto
<1>5. CASE /\ pc[t] = "dunlock" /\ qe[t] = NONE /\ ~StealGoesOn(t)
           /\ Goto(t, "done") /\ Return(t) /\ UNCHANGED got
  BY <1>1, <1>5 DEF Typed, Goto, Return
<1> QED
  BY <1>2, <1>3, <1>4, <1>5 DEF lock_release

LEMMA ReleaseStep ==
  ASSUME IInv, NEW t \in Tids, lock_release(t)
  PROVE  IInv'
<1> USE DEF IInv
<1>1. /\ pc[t] \in {"eunlock", "dunlock"}
      /\ holder' = [holder EXCEPT ![Current(t)] = NONE]
      /\ UNCHANGED <<queues, free_queues, main, snap, enqueued, seen>>
      /\ Queued' = Queued /\ Freed' = Freed
  BY ReleaseFrame
<1>2. \A u \in Tids : u # t => /\ pc'[u] = pc[u] /\ qe'[u] = qe[u]
                               /\ index'[u] = index[u] /\ i'[u] = i[u] /\ got'[u] = got[u]
  BY ReleaseFrame
<1>3. pc'[t] \in {"idle", "dlock", "done"} /\ qe'[t] = NONE /\ qe[t] \in Tasks \cup {NONE}
  BY ReleaseCases DEF Typed
<1>4. \A u \in Tids : InHand(u)' <=> InHand(u)
  BY <1>1, <1>2, <1>3 DEF InHand
<1>5. Hands' = Hands /\ ~InHand(t)
  BY <1>1, <1>2, <1>4 DEF Hands, InHand
<1>6. Added' = Added
  <2>1. \A u \in Tids : pc'[u] \in {"elock", "eread", "ewrite"} <=>
                        pc[u] \in {"elock", "eread", "ewrite"}
    BY <1>1, <1>2, <1>3
  <2>2. pc[t] \notin {"elock", "eread", "ewrite"}
    BY <1>1
  <2> QED
    BY <1>1, <1>2, <2>1, <2>2 DEF Added
<1>7. Typed'
  <2>1. NextIndex(t) \in Indexes /\ 0 \in Indexes
    <3>1. i[t] \in Indexes
      BY DEF Typed
    <3>2. NextIndex(t) = IF i[t] + 1 = NumQueues THEN 0 ELSE i[t] + 1
      BY <3>1, IndexNumbers DEF NextIndex
    <3>3. NumQueues \in Nat /\ 0 \in Indexes
      BY IndexNumbers
    <3> QED
      BY <3>1, <3>2, <3>3 DEF Indexes
  <2>2. /\ \E l \in Locations : pc' = [pc EXCEPT ![t] = l]
        /\ qe' = qe \/ qe' = [qe EXCEPT ![t] = NONE]
        /\ index' = index \/ index' = [index EXCEPT ![t] = 0]
        /\ i' = [i EXCEPT ![t] = 0] \/ i' = [i EXCEPT ![t] = NextIndex(t)]
    BY DEF lock_release, Goto, Return, Locations
  <2>3. pc' \in [Tids -> Locations] /\ qe' \in [Tids -> Tasks \cup {NONE}]
    <3>1. /\ pc \in [Tids -> Locations] /\ qe \in [Tids -> Tasks \cup {NONE}]
          /\ NONE \in Tasks \cup {NONE}
      BY DEF Typed
    <3>2. pc' \in [Tids -> Locations]
      BY <2>2, <3>1
    <3>3. qe' \in [Tids -> Tasks \cup {NONE}]
      BY <2>2, <3>1
    <3> QED
      BY <3>2, <3>3
  <2>4. index' \in [Tids -> Indexes] /\ i' \in [Tids -> Indexes]
    <3>1. index \in [Tids -> Indexes] /\ i \in [Tids -> Indexes]
      BY DEF Typed
    <3>2. index' \in [Tids -> Indexes]
      BY <2>1, <2>2, <3>1
    <3>3. i' \in [Tids -> Indexes]
      BY <2>1, <2>2, <3>1
    <3> QED
      BY <3>2, <3>3
  <2>5. got' \in [Tids -> SUBSET Tasks]
    <3>1. got' = got \/ (qe[t] # NONE /\ got' = [got EXCEPT ![t] = got[t] \cup {qe[t]}])
      BY DEF lock_release
    <3>2. got \in [Tids -> SUBSET Tasks] /\ got[t] \in SUBSET Tasks
      BY DEF Typed
    <3>3. qe[t] # NONE => got[t] \cup {qe[t]} \in SUBSET Tasks
      BY <1>3, <3>2
    <3> QED
      BY <3>1, <3>2, <3>3
  <2>6. holder' \in [Indexes -> Tids \cup {NONE}]
    BY <1>1, CurrentIsIndex DEF Typed
  <2> QED
    BY <1>1, <2>3, <2>4, <2>5, <2>6 DEF Typed
<1>8. PhasesInv'
  BY <1>1, <1>2, <1>3 DEF PhasesInv
<1>9. LocksInv'
  <2>1. \A u \in Tids : u # t => (Holding(u)' <=> Holding(u)) /\ Current(u)' = Current(u)
    BY <1>2 DEF Holding, Current
  <2>2. ~Holding(t)' /\ Holding(t)
    BY <1>1, <1>3 DEF Holding
  <2>3. \A u \in Tids : u # t => ~(Holding(u) /\ Current(u) = Current(t))
    BY <2>2, OneHolder
  <2>4. Current(t) \in Indexes /\ NONE \notin Tids
    BY CurrentIsIndex, NoneIsNobody
  <2>5. \A y \in Indexes : holder'[y] = IF y = Current(t) THEN NONE ELSE holder[y]
    BY <1>1 DEF Typed
  <2>6. \A y \in Indexes : holder'[y] # t
    BY <2>2, <2>4, <2>5 DEF LocksInv
  <2>7. ASSUME NEW u \in Tids, u # t, NEW y \in Indexes
        PROVE  holder'[y] = u <=> Holding(u) /\ Current(u) = y
    BY <2>3, <2>4, <2>5, <2>7 DEF LocksInv
  <2> QED
    BY <2>1, <2>2, <2>6, <2>7 DEF LocksInv
<1>10. LocalsInv'
  BY <1>1, <1>2, <1>3 DEF LocalsInv, Current
<1>11. PlacesInv'
  BY <1>1, <1>2, <1>4, <1>5 DEF PlacesInv, Distinct
<1>12. GotInv' /\ GotKnown'
  <2>1. \A u \in Tids : got[u] \subseteq got'[u]
    BY <1>2, ReleaseCases
  <2>2. pc[t] = "dunlock" /\ qe[t] # NONE => qe[t] \in got'[t]
    BY ReleaseCases
  <2>3. NONE \notin Freed
    BY DEF PlacesInv, Typed
  <2>4. GotInv'
    <3> SUFFICES ASSUME main # "freed", NEW e \in Freed
                 PROVE  \E u \in Tids : e \in got'[u] \/ (pc'[u] = "dunlock" /\ qe'[u] = e)
      BY <1>1 DEF GotInv
    <3>1. PICK u \in Tids : e \in got[u] \/ (pc[u] = "dunlock" /\ qe[u] = e)
      BY DEF GotInv
    <3> QED
      BY <1>2, <2>1, <2>2, <2>3, <3>1
  <2>5. \A u \in Tids : got'[u] \subseteq got[u] \/ (pc[t] = "dunlock" /\ qe[t] # NONE /\ u = t
                                          /\ got'[u] = got[u] \cup {qe[t]})
    BY <1>2, ReleaseCases
  <2>6. pc[t] = "dunlock" /\ qe[t] # NONE => qe[t] \in enqueued
    BY DEF GotKnown
  <2>7. \A u \in Tids : got'[u] \subseteq enqueued
    BY <2>5, <2>6 DEF GotKnown
  <2>8. \A u \in Tids : pc'[u] = "dunlock" /\ qe'[u] # NONE => qe'[u] \in enqueued
    BY <1>2, <1>3 DEF GotKnown
  <2> QED
    BY <1>1, <2>4, <2>7, <2>8 DEF GotKnown
<1>13. TriedInv'
  <2>1. CASE pc'[t] = "idle"
    <3>1. TriedOf(t)'
      BY <2>1 DEF TriedOf, Dequeuing
    <3> QED
      BY <1>1, <1>2, <1>6, <3>1, OthersTried
  <2>2. CASE pc'[t] = "dlock"
    <3>1. /\ pc[t] = "dunlock" /\ qe[t] = NONE /\ StealGoesOn(t)
          /\ index'[t] = index[t] /\ i'[t] = NextIndex(t)
      BY <2>2, ReleaseCases
    <3>2. \A y \in Indexes : Tried(t, y)' => Tried(t, y)
      BY <2>2, <3>1, StealTried DEF Tried, Before
    <3>3. TriedOf(t)'
      BY <1>1, <1>6, <2>2, <3>1, <3>2 DEF TriedInv, TriedOf, Dequeuing
    <3> QED
      BY <1>1, <1>2, <1>6, <3>3, OthersTried
  <2>3. CASE pc'[t] = "done"
    <3>1. pc[t] = "dunlock" /\ qe[t] = NONE /\ ~StealGoesOn(t)
      BY <2>3, ReleaseCases
    <3>2. \A y \in Indexes : Tried(t, y)
      BY <3>1, RoundTried
    <3>3. seen[t] \subseteq Added /\ \A y \in Indexes : seen[t] \cap Elements(queues[y]) = {}
      BY <3>1, <3>2 DEF TriedInv, TriedOf, Dequeuing
    <3>4. seen[t] \cap Queued = {}
      BY <3>3 DEF Queued
    <3>5. TriedOf(t)'
      BY <1>1, <1>6, <2>3, <3>3, <3>4 DEF TriedOf, Dequeuing
    <3> QED
      BY <1>1, <1>2, <1>6, <3>5, OthersTried
  <2> QED
    BY <1>3, <2>1, <2>2, <2>3
<1>14. SeenInv'
  <2>1. \A u \in Tids : (Dequeuing(u) \/ pc[u] = "done")' => Dequeuing(u) \/ pc[u] = "done"
    BY <1>1, <1>2, ReleaseCases DEF Dequeuing
  <2> QED
    BY <1>1, <2>1, SeenStays
<1> QED
  BY <1>7, <1>8, <1>9, <1>10, <1>11, <1>12, <1>13, <1>14

(* Steps that change nothing.                                                     *)
LEMMA StutterStep == ASSUME IInv, UNCHANGED vars PROVE IInv'
<1> USE DEF vars, listVars, mainVars, workVars, histVars
<1>1. Queued' = Queued /\ Freed' = Freed /\ Hands' = Hands /\ Added' = Added
  BY DEF Queued, Freed, Hands, InHand, Added
<1>2. Typed' /\ PhasesInv' /\ LocksInv' /\ LocalsInv'
  BY DEF IInv, Typed, PhasesInv, LocksInv, LocalsInv, Holding, Current
<1>3. PlacesInv' /\ GotInv' /\ GotKnown'
  BY <1>1 DEF IInv, PlacesInv, Distinct, InHand, GotInv, GotKnown
<1>4. TriedInv' /\ SeenInv'
  BY <1>1 DEF IInv, TriedInv, TriedOf, Tried, Before, SeenInv, Dequeuing
<1> QED
  BY <1>2, <1>3, <1>4 DEF IInv

LEMMA Inductive == IInv /\ [Next]_vars => IInv'
<1> SUFFICES ASSUME IInv, [Next]_vars PROVE IInv'
  OBVIOUS
<1>1. CASE Phase
  BY <1>1, FillStep, StartStep, NextPhaseStep, FinalizeStep DEF Phase
<1>2. ASSUME NEW t \in Tids, Enqueue(t) PROVE IInv'
  BY <1>2, EnqueueStep DEF Enqueue
<1>3. ASSUME NEW t \in Tids, Working(t) PROVE IInv'
  <2>1. CASE PushRead(t) \/ PushWrite(t)
    BY <2>1, PushReadStep, PushWriteStep
  <2>2. CASE lock_acquire(t) \/ lock_release(t)
    BY <2>2, AcquireStep, ReleaseStep
  <2>3. CASE PopRead(t) \/ PopWrite(t) \/ PushFree(t)
    BY <2>3, PopReadStep, PopWriteStep, PushFreeStep
  <2>4. CASE \E l \in Hints : tq_dequeue(t, l)
    BY <2>4, DequeueStep
  <2> QED
    BY <1>3, <2>1, <2>2, <2>3, <2>4 DEF Working
<1>4. CASE UNCHANGED vars
  BY <1>4, StutterStep
<1> QED
  BY <1>1, <1>2, <1>3, <1>4 DEF Next, Stopped

-----------------------------------------------------------------------------
(* The queues keep the invariant on which the three results rest.                *)
THEOREM Invariance == Spec => []IInv
<1>1. Init => IInv
  BY InitInv
<1>2. IInv /\ [Next]_vars => IInv'
  BY Inductive
<1> QED
  BY <1>1, <1>2, PTL DEF Spec

(* A task enqueued is always in exactly one place, a position of one list or the
   hands of one worker, until tq_finalize frees it: the reads and writes of the
   list operations of several workers never lose or double an entry.             *)
THEOREM OnePlaceHolds == Spec => []OnePlace
<1>1. ASSUME IInv PROVE OnePlace
  <2> SUFFICES ASSUME main # "freed", NEW e \in enqueued
               PROVE  \E p \in Places(e) : Places(e) = {p}
    BY DEF OnePlace
  <2> USE <1>1 DEF IInv
  <2>1. e \in Queued \/ e \in Freed \/ e \in Hands
    BY DEF PlacesInv
  <2>2. Hands = {qe[t] : t \in {u \in Tids : InHand(u)}}
    BY DEF Hands
  <2> DEFINE Q == QueuePlaces(e)
             F == FreePlaces(e)
             H == HandPlaces(e)
  <2>3. Places(e) = Q \cup F \cup H
    BY DEF Places
  <2>4. CASE e \in Queued
    <3>1. PICK x \in Indexes : \E n \in DOMAIN queues[x] : queues[x][n] = e
      BY <2>4 DEF Queued, Elements
    <3>k. PICK k \in DOMAIN queues[x] : queues[x][k] = e
      BY <3>1
    <3>2. F = {} /\ H = {}
      BY <2>2, <2>4 DEF PlacesInv, InHand, Freed, Elements, FreePlaces, HandPlaces
    <3>3. Q = {<<"queue", x, k>>}
      BY <3>k DEF PlacesInv, Distinct, QueuePlaces
    <3> QED
      BY <2>3, <3>2, <3>3
  <2>5. CASE e \in Freed
    <3>1. PICK x \in Indexes : \E n \in DOMAIN free_queues[x] : free_queues[x][n] = e
      BY <2>5 DEF Freed, Elements
    <3>k. PICK k \in DOMAIN free_queues[x] : free_queues[x][k] = e
      BY <3>1
    <3>2. Q = {} /\ H = {}
      BY <2>2, <2>5 DEF PlacesInv, InHand, Queued, Elements, QueuePlaces, HandPlaces
    <3>3. F = {<<"free", x, k>>}
      BY <3>k DEF PlacesInv, Distinct, FreePlaces
    <3> QED
      BY <2>3, <3>2, <3>3
  <2>6. CASE e \in Hands
    <3>1. PICK t \in Tids : InHand(t) /\ qe[t] = e
      BY <2>2, <2>6
    <3>2. Q = {} /\ F = {}
      BY <2>6 DEF PlacesInv, Queued, Freed, Elements, QueuePlaces, FreePlaces
    <3>3. H = {<<"hand", t, 0>>}
      BY <3>1 DEF PlacesInv, InHand, HandPlaces
    <3> QED
      BY <2>3, <3>2, <3>3
  <2> QED
    BY <2>1, <2>4, <2>5, <2>6
<1> QED
  BY <1>1, Invariance, PTL

(* When tq_dequeue has returned 0 to a worker, every task put on a queue before
   its call is off the queues, however other workers move and add tasks while it
   goes round the queues one lock at a time.                                     *)
THEOREM NoMoreWorkHolds == Spec => []NoMoreWork
<1>1. IInv => NoMoreWork
  BY DEF IInv, TriedInv, TriedOf, NoMoreWork
<1> QED
  BY <1>1, Invariance, PTL

(* When all workers of a phase have returned, its queues are empty and every task
   ever enqueued was handed out, though each worker only knows of the tasks that
   were there before its last call.                                              *)
THEOREM PhaseCompleteHolds == Spec => []PhaseComplete
<1>1. ASSUME IInv, main = "run", WorkersDone
      PROVE  Queued = {} /\ UNION {got[t] : t \in Tids} = enqueued
  <2> USE <1>1 DEF IInv
  <2>1. \A t \in Tids : pc[t] = "done" /\ seen[t] \cap Queued = {}
    BY DEF WorkersDone, TriedInv, TriedOf
  <2>2. Queued = {}
    BY <2>1 DEF SeenInv
  <2>3. Hands = {}
    BY <2>1 DEF Hands, InHand
  <2>4. enqueued = Freed
    BY <2>2, <2>3 DEF PlacesInv
  <2>5. \A e \in Freed : \E t \in Tids : e \in got[t]
    BY <2>1 DEF GotInv
  <2>6. \A t \in Tids : got[t] \subseteq enqueued
    BY DEF GotKnown
  <2> QED
    BY <2>2, <2>4, <2>5, <2>6
<1>2. IInv => PhaseComplete
  BY <1>1 DEF PhaseComplete
<1> QED
  BY <1>2, Invariance, PTL

=============================================================================
