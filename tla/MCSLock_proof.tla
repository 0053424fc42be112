---------------------------- MODULE MCSLock_proof ----------------------------
(***************************************************************************)
(* Proofs about MCSLock, for every set of threads: the queue of the        *)
(* exchanges is what the linked list through next stands for.              *)
(***************************************************************************)
EXTENDS MCMCSLock, SequenceTheorems, TLAPS

USE MCSAssumption

-----------------------------------------------------------------------------
(* A thread that holds the lock is the first of the queue.                  *)
LEMMA HolderIsFirst ==
  ASSUME TypeOK, QueueInv, WaitInv, NEW t \in Threads, Holds(t)
  PROVE  Len(queue) > 0 /\ queue[1] = t
<1>1. PICK k \in Position : queue[k] = t
  BY DEF QueueInv, InQueue
<1>2. Len(queue) \in Nat /\ k \in Nat /\ 1 <= k /\ k <= Len(queue)
  BY <1>1 DEF TypeOK, Position
<1>3. ~Waits(t)
  BY DEF Holds, Waits
<1>4. k = 1
  BY <1>1, <1>2, <1>3 DEF WaitInv
<1>5. QED
  BY <1>1, <1>2, <1>4

(* A waiting thread is in the queue.                                        *)
LEMMA WaiterIsQueued ==
  ASSUME TypeOK, QueueInv, NEW t \in Threads, Waits(t)
  PROVE  \E k \in Position : queue[k] = t
BY DEF QueueInv, InQueue

LEMMA QueueElements ==
  ASSUME TypeOK
  PROVE  /\ Len(queue) \in Nat
         /\ \A k \in Position : queue[k] \in Threads /\ k \in Nat /\ k >= 1 /\ k <= Len(queue)
         /\ queue = << >> <=> Len(queue) = 0
BY DEF TypeOK, Position

-----------------------------------------------------------------------------
LEMMA InitIInv == Init => IInv
<1> SUFFICES ASSUME Init PROVE IInv
  OBVIOUS
<1>1. TypeOK
  BY DEF Init, TypeOK, Locations
<1>2. Len(queue) = 0 /\ Position = {}
  BY DEF Init, Position
<1>3. \A t \in Threads : ~InQueue(t)
  BY DEF Init, InQueue, Holds, Waits
<1>4. QED
  BY <1>1, <1>2, <1>3 DEF Init, IInv, QueueInv, FirstInv, WaitInv, LastInv, IdleInv

(* A thread outside the queue clears its own next. *)
LEMMA ClearNextKeeps ==
  ASSUME IInv, NEW t \in Threads, ClearNext(t)
  PROVE  IInv'
<1> USE DEF IInv
<1>q. queue' = queue /\ Position' = Position /\ Len(queue') = Len(queue)
  BY DEF ClearNext, Position
<1>e. /\ Len(queue) \in Nat
      /\ \A k \in Position : queue[k] \in Threads /\ k \in Nat /\ k >= 1 /\ k <= Len(queue)
      /\ queue = << >> <=> Len(queue) = 0
  BY QueueElements
<1>k. \A k \in Position : k > 1 => k - 1 \in Position
  BY <1>e DEF Position
<1>i. \A u \in Threads : InQueue(u)' <=> InQueue(u)
  BY DEF ClearNext, TypeOK, Goto, InQueue, Holds, Waits
<1>o. \A k \in Position : queue[k] # t
  BY <1>e DEF ClearNext, QueueInv, InQueue, Holds, Waits
<1>1. TypeOK'
  BY <1>q, <1>e, <1>i, <1>o, <1>k DEF ClearNext, TypeOK, Goto, Locations
<1>2. QueueInv'
  BY <1>q, <1>e, <1>i, <1>o, <1>k DEF ClearNext, TypeOK, QueueInv, Goto, Holds, Waits, InQueue
<1>3. FirstInv'
  BY <1>q, <1>e, <1>i, <1>o, <1>k DEF ClearNext, TypeOK, FirstInv, Goto, Holds, Waits, InQueue
<1>4. WaitInv'
  BY <1>q, <1>e, <1>i, <1>o, <1>k DEF ClearNext, TypeOK, WaitInv, Goto, Holds, Waits, InQueue
<1>5. LastInv'
  BY <1>q, <1>e, <1>i, <1>o, <1>k DEF ClearNext, TypeOK, LastInv, Goto, Holds, Waits, InQueue
<1>6. IdleInv'
  BY <1>q, <1>e, <1>i, <1>o, <1>k DEF ClearNext, TypeOK, IdleInv, Goto, Holds, Waits, InQueue
<1>7. QED
  BY <1>1, <1>2, <1>3, <1>4, <1>5, <1>6

(* The thread whose locked was cleared is the first of the queue. *)
LEMMA GrantedKeeps ==
  ASSUME IInv, NEW t \in Threads, Granted(t)
  PROVE  IInv'
<1> USE DEF IInv
<1>q. queue' = queue /\ Position' = Position /\ Len(queue') = Len(queue)
  BY DEF Granted, Position
<1>e. /\ Len(queue) \in Nat
      /\ \A k \in Position : queue[k] \in Threads /\ k \in Nat /\ k >= 1 /\ k <= Len(queue)
      /\ queue = << >> <=> Len(queue) = 0
  BY QueueElements
<1>k. \A k \in Position : k > 1 => k - 1 \in Position
  BY <1>e DEF Position
<1>i. \A u \in Threads : InQueue(u)' <=> InQueue(u)
  BY DEF Granted, TypeOK, Goto, InQueue, Holds, Waits
<1>1. TypeOK'
  BY <1>q, <1>e, <1>i, <1>k DEF Granted, TypeOK, Goto, Locations
<1>2. QueueInv'
  BY <1>q, <1>e, <1>i, <1>k DEF Granted, TypeOK, QueueInv, Goto, Holds, Waits, InQueue
<1>3. FirstInv'
  BY <1>q, <1>e, <1>i, <1>k DEF Granted, TypeOK, FirstInv, Goto, Holds, Waits, InQueue
<1>4. WaitInv'
  BY <1>q, <1>e, <1>i, <1>k DEF Granted, TypeOK, WaitInv, Goto, Holds, Waits, InQueue
<1>5. LastInv'
  BY <1>q, <1>e, <1>i, <1>k DEF Granted, TypeOK, LastInv, Goto, Holds, Waits, InQueue
<1>6. IdleInv'
  BY <1>q, <1>e, <1>i, <1>k DEF Granted, TypeOK, IdleInv, Goto, Holds, Waits, InQueue
<1>7. QED
  BY <1>1, <1>2, <1>3, <1>4, <1>5, <1>6

(* A holder reads its own next. *)
LEMMA ReadNextKeeps ==
  ASSUME IInv, NEW t \in Threads, ReadNext(t)
  PROVE  IInv'
<1> USE DEF IInv
<1>q. queue' = queue /\ Position' = Position /\ Len(queue') = Len(queue)
  BY DEF ReadNext, Position
<1>e. /\ Len(queue) \in Nat
      /\ \A k \in Position : queue[k] \in Threads /\ k \in Nat /\ k >= 1 /\ k <= Len(queue)
      /\ queue = << >> <=> Len(queue) = 0
  BY QueueElements
<1>k. \A k \in Position : k > 1 => k - 1 \in Position
  BY <1>e DEF Position
<1>i. \A u \in Threads : InQueue(u)' <=> InQueue(u)
  BY DEF ReadNext, TypeOK, Goto, InQueue, Holds, Waits
<1>1. TypeOK'
  BY <1>q, <1>e, <1>i, <1>k DEF ReadNext, TypeOK, Goto, Locations
<1>2. QueueInv'
  BY <1>q, <1>e, <1>i, <1>k DEF ReadNext, TypeOK, QueueInv, Goto, Holds, Waits, InQueue
<1>3. FirstInv'
  BY <1>q, <1>e, <1>i, <1>k DEF ReadNext, TypeOK, FirstInv, Goto, Holds, Waits, InQueue
<1>4. WaitInv'
  BY <1>q, <1>e, <1>i, <1>k DEF ReadNext, TypeOK, WaitInv, Goto, Holds, Waits, InQueue
<1>5. LastInv'
  BY <1>q, <1>e, <1>i, <1>k DEF ReadNext, TypeOK, LastInv, Goto, Holds, Waits, InQueue
<1>6. IdleInv'
  BY <1>q, <1>e, <1>i, <1>k DEF ReadNext, TypeOK, IdleInv, Goto, Holds, Waits, InQueue
<1>7. QED
  BY <1>1, <1>2, <1>3, <1>4, <1>5, <1>6

(* A holder waits for its successor's link. *)
LEMMA WaitForNextKeeps ==
  ASSUME IInv, NEW t \in Threads, WaitForNext(t)
  PROVE  IInv'
<1> USE DEF IInv
<1>q. queue' = queue /\ Position' = Position /\ Len(queue') = Len(queue)
  BY DEF WaitForNext, Position
<1>e. /\ Len(queue) \in Nat
      /\ \A k \in Position : queue[k] \in Threads /\ k \in Nat /\ k >= 1 /\ k <= Len(queue)
      /\ queue = << >> <=> Len(queue) = 0
  BY QueueElements
<1>k. \A k \in Position : k > 1 => k - 1 \in Position
  BY <1>e DEF Position
<1>i. \A u \in Threads : InQueue(u)' <=> InQueue(u)
  BY DEF WaitForNext, TypeOK, Goto, InQueue, Holds, Waits
<1>1. TypeOK'
  BY <1>q, <1>e, <1>i, <1>k DEF WaitForNext, TypeOK, Goto, Locations
<1>2. QueueInv'
  BY <1>q, <1>e, <1>i, <1>k DEF WaitForNext, TypeOK, QueueInv, Goto, Holds, Waits, InQueue
<1>3. FirstInv'
  BY <1>q, <1>e, <1>i, <1>k DEF WaitForNext, TypeOK, FirstInv, Goto, Holds, Waits, InQueue
<1>4. WaitInv'
  BY <1>q, <1>e, <1>i, <1>k DEF WaitForNext, TypeOK, WaitInv, Goto, Holds, Waits, InQueue
<1>5. LastInv'
  BY <1>q, <1>e, <1>i, <1>k DEF WaitForNext, TypeOK, LastInv, Goto, Holds, Waits, InQueue
<1>6. IdleInv'
  BY <1>q, <1>e, <1>i, <1>k DEF WaitForNext, TypeOK, IdleInv, Goto, Holds, Waits, InQueue
<1>7. QED
  BY <1>1, <1>2, <1>3, <1>4, <1>5, <1>6

(* A waiter locks itself, then links itself behind its predecessor. *)
LEMMA LockThenLinkKeeps ==
  ASSUME IInv, NEW t \in Threads, LockThenLink(t)
  PROVE  IInv'
<1> USE DEF IInv
<1>q. queue' = queue /\ Position' = Position /\ Len(queue') = Len(queue)
  BY DEF LockThenLink, Position
<1>e. /\ Len(queue) \in Nat
      /\ \A k \in Position : queue[k] \in Threads /\ k \in Nat /\ k >= 1 /\ k <= Len(queue)
      /\ queue = << >> <=> Len(queue) = 0
  BY QueueElements
<1>k. \A k \in Position : k > 1 => k - 1 \in Position
  BY <1>e DEF Position
<1>i. \A u \in Threads : InQueue(u)' <=> InQueue(u)
  BY DEF LockThenLink, TypeOK, Goto, InQueue, Holds, Waits
<1>w. Waits(t) /\ (pc[t] = "setlocked" \/ pc[t] = "link")
  BY DEF LockThenLink, Waits
<1>p. PICK p \in Position : queue[p] = t
  BY <1>w, WaiterIsQueued
<1>r. p > 1
  <2>1. p = 1 => FALSE
    BY <1>e, <1>p, <1>w DEF FirstInv, Holds
  <2>2. QED
    BY <2>1, <1>e, <1>p
<1>s. p - 1 \in Position /\ prev[t] = queue[p - 1] /\ prev[t] \in Threads /\ prev[t] # t
  <2>1. p - 1 \in Position /\ p - 1 # p
    BY <1>e, <1>r DEF Position
  <2>2. prev[t] = queue[p - 1]
    BY <1>p, <1>r DEF WaitInv
  <2>3. QED
    BY <1>e, <1>p, <2>1, <2>2 DEF QueueInv
<1>1. TypeOK'
  BY <1>q, <1>e, <1>i, <1>w, <1>p, <1>r, <1>s, <1>k DEF LockThenLink, TypeOK, Goto, Locations
<1>2. QueueInv'
  BY <1>q, <1>e, <1>i, <1>w, <1>p, <1>r, <1>s, <1>k DEF LockThenLink, TypeOK, QueueInv, Goto, Holds, Waits, InQueue
<1>3. FirstInv'
  BY <1>q, <1>e, <1>i, <1>w, <1>p, <1>r, <1>s, <1>k DEF LockThenLink, TypeOK, FirstInv, Goto, Holds, Waits, InQueue
<1>4. WaitInv'
  <2> SUFFICES ASSUME NEW k \in Position, k > 1
               PROVE  /\ Waits(queue[k])'
                      /\ prev'[queue[k]] = queue[k - 1]
                      /\ pc'[queue[k]] \in {"link", "spin"} => locked'[queue[k]] = 1
                      /\ next'[queue[k - 1]] = IF pc'[queue[k]] = "spin" THEN queue[k] ELSE NULL
    BY <1>q DEF WaitInv
  <2>1. k - 1 \in Position /\ queue[k] \in Threads /\ queue[k - 1] \in Threads /\ prev' = prev
    BY <1>e, <1>k DEF LockThenLink
  <2>2. /\ Waits(queue[k]) /\ prev[queue[k]] = queue[k - 1]
        /\ pc[queue[k]] \in {"link", "spin"} => locked[queue[k]] = 1
        /\ next[queue[k - 1]] = IF pc[queue[k]] = "spin" THEN queue[k] ELSE NULL
    BY DEF WaitInv
  <2>3. CASE k = p
    BY <1>p, <1>s, <2>1, <2>2, <2>3 DEF LockThenLink, Goto, Waits, TypeOK
  <2>4. CASE k # p
    <3>1. queue[k] # t /\ queue[k - 1] # prev[t]
      <4>1. k - 1 # p - 1
        BY <1>e, <1>p, <2>4
      <4>2. QED
        BY <1>p, <1>s, <2>1, <2>4, <4>1 DEF QueueInv
    <3>2. /\ pc'[queue[k]] = pc[queue[k]] /\ locked'[queue[k]] = locked[queue[k]]
          /\ next'[queue[k - 1]] = next[queue[k - 1]]
      BY <2>1, <3>1 DEF LockThenLink, Goto, TypeOK
    <3>3. QED
      BY <1>q, <2>1, <2>2, <3>2 DEF Waits
  <2>5. QED
    BY <2>3, <2>4
<1>5. LastInv'
  <2>1. queue # << >> /\ Len(queue) \in Position /\ queue[Len(queue)] # prev[t]
    <3>1. Len(queue) \in Position /\ Len(queue) # p - 1
      BY <1>e, <1>p, <1>r DEF Position
    <3>2. QED
      BY <1>e, <1>p, <1>s, <3>1 DEF QueueInv
  <2>2. \A u \in Threads : u # prev[t] => next'[u] = next[u]
    BY DEF LockThenLink, TypeOK
  <2>3. \A u \in Threads : u # t => pc'[u] = pc[u]
    BY DEF LockThenLink, Goto, TypeOK
  <2>4. head' = head /\ pc'[t] \in {"link", "spin"}
    BY DEF LockThenLink, Goto, TypeOK
  <2>5. pc[prev[t]] # "xchg"
    BY <1>s, <2>1 DEF QueueInv, InQueue, Holds, Waits
  <2>6. next'[prev[t]] \in {next[prev[t]], t}
    BY <1>s DEF LockThenLink, TypeOK
  <2>7. queue[Len(queue)] \in Threads /\ t # NULL
    BY <1>e, <2>1
  <2>8. queue # << >> => next'[queue[Len(queue)]] = NULL
    BY <2>1, <2>2, <2>7 DEF LastInv
  <2>9. \A u \in Threads : pc'[u] = "xchg" => next'[u] = NULL
    BY <2>2, <2>3, <2>4, <2>5 DEF LastInv
  <2>10. \A u \in Threads : pc'[u] = "unlock" => next'[u] # NULL
    BY <2>2, <2>3, <2>4, <2>6, <2>7 DEF LastInv
  <2>11. \A u \in Threads : pc'[u] = "waitnext" => head' # u
    BY <2>3, <2>4 DEF LastInv
  <2>12. QED
    BY <1>q, <2>8, <2>9, <2>10, <2>11 DEF LastInv
<1>6. IdleInv'
  BY <1>q, <1>e, <1>i, <1>w, <1>p, <1>r, <1>s, <1>k DEF LockThenLink, TypeOK, IdleInv, Goto, Holds, Waits, InQueue
<1>7. QED
  BY <1>1, <1>2, <1>3, <1>4, <1>5, <1>6

(* The exchange appends the thread to the queue.                            *)
LEMMA ExchangeKeeps ==
  ASSUME IInv, NEW t \in Threads, Exchange(t)
  PROVE  IInv'
<1> USE DEF IInv
<1>e. /\ Len(queue) \in Nat
      /\ \A k \in Position : queue[k] \in Threads /\ k \in Nat /\ k >= 1 /\ k <= Len(queue)
      /\ queue = << >> <=> Len(queue) = 0
  BY QueueElements
<1>a. /\ queue' \in Seq(Threads) /\ queue' # << >>
      /\ Len(queue') = Len(queue) + 1
      /\ \A k \in Position : queue'[k] = queue[k]
      /\ queue'[Len(queue) + 1] = t
  BY AppendProperties DEF Exchange, TypeOK, Position
<1>b. /\ Position' = Position \cup {Len(queue) + 1}
      /\ Len(queue) + 1 \notin Position
      /\ \A k \in Position' : k \in Nat /\ k >= 1
      /\ \A k \in Position : k > 1 => k - 1 \in Position
      /\ Len(queue) > 0 => Len(queue) \in Position /\ 1 \in Position
  BY <1>e, <1>a DEF Position
<1>o. \A k \in Position : queue[k] # t
  BY <1>e DEF Exchange, QueueInv, InQueue, Holds, Waits
<1>h. head = NULL <=> Len(queue) = 0
  BY <1>e, <1>b DEF QueueInv
<1>c. /\ pc' = [pc EXCEPT ![t] = IF head = NULL THEN "cs" ELSE "setlocked"]
      /\ prev' = [prev EXCEPT ![t] = head] /\ head' = t
      /\ next' = next /\ locked' = locked /\ pc[t] = "xchg"
  BY DEF Exchange, Goto
<1>i. /\ \A u \in Threads : u # t => pc'[u] = pc[u] /\ (InQueue(u)' <=> InQueue(u))
                              /\ (Holds(u)' <=> Holds(u)) /\ (Waits(u)' <=> Waits(u))
      /\ InQueue(t)' /\ (Waits(t)' <=> head # NULL) /\ (Holds(t)' <=> head = NULL)
      /\ pc'[t] \in {"cs", "setlocked"}
  BY <1>c DEF TypeOK, InQueue, Holds, Waits
<1>1. TypeOK'
  BY <1>a, <1>c DEF TypeOK, Locations
<1>2. QueueInv'
  <2>1. \A u \in Threads : InQueue(u)' <=> \E k \in Position' : queue'[k] = u
    BY <1>a, <1>b, <1>i, <1>o DEF QueueInv
  <2>2. \A j, k \in Position' : queue'[j] = queue'[k] => j = k
    BY <1>a, <1>b, <1>o DEF QueueInv
  <2>3. QED
    BY <1>a, <1>c, <2>1, <2>2 DEF QueueInv
<1>3. FirstInv'
  BY <1>a, <1>b, <1>c, <1>e, <1>h, <1>i, <1>o DEF FirstInv
<1>4. WaitInv'
  <2> SUFFICES ASSUME NEW k \in Position', k > 1
               PROVE  /\ Waits(queue[k])'
                      /\ prev'[queue'[k]] = queue'[k - 1]
                      /\ pc'[queue'[k]] \in {"link", "spin"} => locked'[queue'[k]] = 1
                      /\ next'[queue'[k - 1]] = IF pc'[queue'[k]] = "spin" THEN queue'[k] ELSE NULL
    BY DEF WaitInv
  <2>1. CASE k \in Position
    <3>1. /\ queue'[k] = queue[k] /\ queue'[k - 1] = queue[k - 1]
          /\ queue[k] \in Threads /\ queue[k] # t
      BY <1>a, <1>b, <1>e, <1>o, <2>1
    <3>2. QED
      BY <1>c, <1>i, <2>1, <3>1 DEF WaitInv, TypeOK
  <2>2. CASE k = Len(queue) + 1
    <3>1. Len(queue) > 0 /\ k - 1 = Len(queue)
      BY <1>e, <2>2
    <3>2. queue'[k] = t /\ queue'[k - 1] = queue[Len(queue)] /\ head = queue[Len(queue)]
      BY <1>a, <1>b, <1>e, <2>2, <3>1 DEF QueueInv
    <3>3. next[queue[Len(queue)]] = NULL
      BY <1>e, <3>1 DEF LastInv
    <3>4. QED
      BY <1>c, <1>h, <1>i, <3>1, <3>2, <3>3 DEF TypeOK
  <2>3. QED
    BY <1>b, <2>1, <2>2
<1>5. LastInv'
  BY <1>a, <1>c, <1>i DEF LastInv, TypeOK
<1>6. IdleInv'
  BY <1>c, <1>i DEF IdleInv, InQueue, Holds, Waits
<1>7. QED
  BY <1>1, <1>2, <1>3, <1>4, <1>5, <1>6

(* The swap succeeds when the thread is alone in the queue.                 *)
LEMMA CompareAndSwapKeeps ==
  ASSUME IInv, NEW t \in Threads, CompareAndSwap(t)
  PROVE  IInv'
<1> USE DEF IInv
<1>e. /\ Len(queue) \in Nat
      /\ \A k \in Position : queue[k] \in Threads /\ k \in Nat /\ k >= 1 /\ k <= Len(queue)
      /\ queue = << >> <=> Len(queue) = 0
  BY QueueElements
<1>f. Holds(t) /\ Len(queue) > 0 /\ queue[1] = t
  <2>1. Holds(t)
    BY DEF CompareAndSwap, Holds
  <2>2. QED
    BY <2>1, HolderIsFirst
<1>1. CASE head # t
  <2>1. /\ queue' = queue /\ Position' = Position /\ head' = head
        /\ next' = next /\ locked' = locked /\ prev' = prev
        /\ pc' = [pc EXCEPT ![t] = "waitnext"] /\ pc[t] = "swap"
    BY <1>1 DEF CompareAndSwap, Goto, Position
  <2>0. pc'[t] = "waitnext" /\ \A u \in Threads : u # t => pc'[u] = pc[u]
    BY <2>1 DEF TypeOK
  <2>2. \A u \in Threads : (InQueue(u)' <=> InQueue(u)) /\ (Holds(u)' <=> Holds(u))
                            /\ (Waits(u)' <=> Waits(u))
    BY <2>0, <2>1 DEF InQueue, Holds, Waits
  <2>3. TypeOK'
    BY <2>1 DEF TypeOK, Locations
  <2>4. QueueInv' /\ IdleInv'
    BY <2>1, <2>2 DEF QueueInv, IdleInv
  <2>6. LastInv'
    BY <1>1, <2>0, <2>1 DEF LastInv
  <2>7. FirstInv'
    BY <1>f, <2>1, <2>2 DEF FirstInv
  <2>8. WaitInv'
    <3>1. \A k \in Position : k > 1 => queue[k] \in Threads /\ queue[k] # t
      BY <1>e, <1>f DEF WaitInv, Holds, Waits
    <3>2. QED
      BY <2>0, <2>1, <2>2, <3>1 DEF WaitInv
  <2>9. QED
    BY <2>3, <2>4, <2>6, <2>7, <2>8
<1>2. CASE head = t
  <2>1. Len(queue) = 1
    <3>1. 1 \in Position /\ Len(queue) \in Position
      BY <1>e, <1>f DEF Position
    <3>2. queue[Len(queue)] = queue[1]
      BY <1>2, <1>e, <1>f DEF QueueInv
    <3>3. QED
      BY <3>1, <3>2 DEF QueueInv
  <2>2. /\ queue' = Tail(queue) /\ queue' \in Seq(Threads) /\ Len(queue') = 0
        /\ queue' = << >> /\ Position' = {}
    BY <1>2, <1>e, <2>1, HeadTailProperties, EmptySeq DEF CompareAndSwap, TypeOK, Position
  <2>3. /\ head' = NULL /\ next' = next /\ locked' = locked /\ prev' = prev
        /\ pc' = [pc EXCEPT ![t] = "idle"]
    BY <1>2 DEF CompareAndSwap, Goto
  <2>4. \A u \in Threads : u # t => ~InQueue(u)
    <3>1. Position = {1}
      BY <2>1 DEF Position
    <3>2. QED
      BY <1>f, <3>1 DEF QueueInv
  <2>5. \A u \in Threads : ~InQueue(u)' /\ (u # t => pc'[u] = pc[u]) /\ pc'[t] = "idle"
    BY <2>3, <2>4 DEF TypeOK, InQueue, Holds, Waits
  <2>6. TypeOK' /\ QueueInv' /\ FirstInv' /\ WaitInv'
    BY <2>2, <2>3, <2>5 DEF TypeOK, Locations, QueueInv, FirstInv, WaitInv
  <2>7. LastInv' /\ IdleInv'
    BY <1>f, <2>2, <2>3, <2>4, <2>5 DEF LastInv, IdleInv, InQueue, Holds, Waits
  <2>8. QED
    BY <2>6, <2>7
<1>3. QED
  BY <1>1, <1>2

(* A thread that hands over has a successor, which spins on its locked.     *)
LEMMA SuccessorSpins ==
  ASSUME IInv, NEW t \in Threads, pc[t] = "unlock"
  PROVE  /\ Len(queue) > 1 /\ queue[1] = t /\ queue[2] = next[t]
         /\ queue[2] \in Threads
         /\ pc[queue[2]] = "spin" /\ locked[queue[2]] = 1
<1> USE DEF IInv
<1>e. /\ Len(queue) \in Nat
      /\ \A k \in Position : queue[k] \in Threads
      /\ queue = << >> <=> Len(queue) = 0
  BY QueueElements
<1>1. Len(queue) > 0 /\ queue[1] = t
  BY HolderIsFirst DEF Holds
<1>2. next[t] # NULL
  BY DEF LastInv
<1>3. Len(queue) > 1
  BY <1>e, <1>1, <1>2 DEF LastInv
<1>4. 2 \in Position /\ 2 > 1 /\ 2 - 1 = 1
  BY <1>e, <1>3 DEF Position
<1>5. next[t] = IF pc[queue[2]] = "spin" THEN queue[2] ELSE NULL
  BY <1>1, <1>4 DEF WaitInv
<1>6. pc[queue[2]] = "spin" /\ next[t] = queue[2]
  BY <1>2, <1>5
<1>7. QED
  BY <1>e, <1>1, <1>3, <1>4, <1>6 DEF WaitInv

(* The hand-over makes the second of the queue its first, granted.          *)
LEMMA UnlockKeeps ==
  ASSUME IInv, NEW t \in Threads, Unlock(t)
  PROVE  IInv'
<1> USE DEF IInv
<1>e. /\ Len(queue) \in Nat
      /\ \A k \in Position : queue[k] \in Threads /\ k \in Nat /\ k >= 1 /\ k <= Len(queue)
      /\ queue = << >> <=> Len(queue) = 0
  BY QueueElements
<1>f. Holds(t) /\ Len(queue) > 0 /\ queue[1] = t
  <2>1. Holds(t)
    BY DEF Unlock, Holds
  <2>2. QED
    BY <2>1, HolderIsFirst
<1>t. /\ queue' = Tail(queue) /\ queue' \in Seq(Threads)
      /\ Len(queue') = Len(queue) - 1
      /\ \A k \in 1 .. Len(queue') : queue'[k] = queue[k + 1]
  BY <1>e, <1>f, HeadTailProperties DEF Unlock, TypeOK
<1>b. /\ \A k \in Position' : k \in Nat /\ k >= 1 /\ k + 1 \in Position /\ queue'[k] = queue[k + 1]
      /\ \A k \in Position : k > 1 => k - 1 \in Position' /\ (k - 1) + 1 = k
      /\ 1 \in Position
  BY <1>e, <1>f, <1>t DEF Position
<1>s. /\ Len(queue) > 1 /\ queue[2] = next[t] /\ queue[2] \in Threads
      /\ pc[queue[2]] = "spin" /\ locked[queue[2]] = 1
  BY SuccessorSpins DEF Unlock
<1>c. /\ locked' = [locked EXCEPT ![queue[2]] = 0] /\ pc' = [pc EXCEPT ![t] = "idle"]
      /\ head' = head /\ next' = next /\ prev' = prev /\ pc[t] = "unlock"
  BY <1>s DEF Unlock, Goto
<1>d. /\ \A k \in Position' : queue'[k] # t /\ queue'[k] \in Threads
      /\ \A k \in Position' : k > 1 => queue'[k] # queue[2] /\ k - 1 \in Position'
                                      /\ queue'[k - 1] = queue[k]
      /\ 1 \in Position' /\ queue'[1] = queue[2]
      /\ queue' # << >> /\ queue'[Len(queue')] = queue[Len(queue)] /\ Len(queue') \in Position'
  <2>1. \A k \in Position : k # 1 => queue[k] # t
    BY <1>b, <1>f DEF QueueInv
  <2>2. 2 \in Position /\ \A k \in Position : k # 2 => queue[k] # queue[2]
    <3>1. 2 \in Position
      BY <1>e, <1>s DEF Position
    <3>2. QED
      BY <3>1 DEF QueueInv
  <2>3. 1 \in Position' /\ Len(queue') \in Position' /\ Len(queue') + 1 = Len(queue)
        /\ \A k \in Position' : k > 1 => k - 1 \in Position' /\ (k - 1) + 1 = k
    BY <1>e, <1>s, <1>t DEF Position
  <2>4. \A k \in Position' : k + 1 # 1 /\ (k > 1 => k + 1 # 2)
    BY <1>b
  <2>5. 1 + 1 = 2 /\ queue' # << >>
    BY <1>t, <1>s, <1>e, EmptySeq
  <2>6. \A k \in Position' : queue'[k] # t /\ queue'[k] \in Threads
    BY <1>b, <1>e, <2>1, <2>4
  <2>7. \A k \in Position' : k > 1 => queue'[k] # queue[2] /\ k - 1 \in Position'
                                      /\ queue'[k - 1] = queue[k]
    BY <1>b, <2>2, <2>3, <2>4
  <2>8. QED
    BY <1>b, <2>3, <2>5, <2>6, <2>7
<1>i. /\ \A u \in Threads : u # t => pc'[u] = pc[u] /\ (InQueue(u)' <=> InQueue(u))
                              /\ (Holds(u)' <=> Holds(u)) /\ (Waits(u)' <=> Waits(u))
      /\ ~InQueue(t)' /\ pc'[t] = "idle"
  BY <1>c DEF TypeOK, InQueue, Holds, Waits
<1>1. TypeOK'
  BY <1>t, <1>c DEF TypeOK, Locations
<1>2. QueueInv'
  <2>1. ASSUME NEW u \in Threads
        PROVE  InQueue(u)' <=> \E k \in Position' : queue'[k] = u
    <3>1. CASE u = t
      BY <1>d, <1>i, <3>1
    <3>2. CASE u # t
      <4>1. InQueue(u) <=> \E k \in Position : queue[k] = u
        BY DEF QueueInv
      <4>2. (\E k \in Position : queue[k] = u) => \E k \in Position' : queue'[k] = u
        <5> SUFFICES ASSUME NEW k \in Position, queue[k] = u
                     PROVE  \E j \in Position' : queue'[j] = u
          OBVIOUS
        <5>1. k > 1
          BY <1>e, <1>f, <3>2
        <5>2. k - 1 \in Position' /\ queue'[k - 1] = queue[(k - 1) + 1] /\ (k - 1) + 1 = k
          BY <1>b, <5>1
        <5>3. QED
          BY <5>2
      <4>3. (\E k \in Position' : queue'[k] = u) => \E k \in Position : queue[k] = u
        BY <1>b
      <4>4. QED
        BY <1>i, <3>2, <4>1, <4>2, <4>3
    <3>3. QED
      BY <3>1, <3>2
  <2>2. \A j, k \in Position' : queue'[j] = queue'[k] => j = k
    <3>1. \A j, k \in Position' : queue[j + 1] = queue[k + 1] => j + 1 = k + 1
      BY <1>b DEF QueueInv
    <3>2. QED
      BY <1>b, <3>1
  <2>3. head' = queue'[Len(queue')]
    BY <1>c, <1>d, <1>e, <1>f DEF QueueInv
  <2>4. QED
    BY <1>d, <2>1, <2>2, <2>3 DEF QueueInv
<1>3. FirstInv'
  <2>1. queue'[1] = queue[2] /\ queue[2] # t
    BY <1>d
  <2>2. pc'[queue'[1]] = "spin" /\ locked'[queue'[1]] = 0
    BY <1>c, <1>s, <2>1 DEF TypeOK
  <2>3. QED
    BY <2>2 DEF FirstInv
<1>4. WaitInv'
  <2> SUFFICES ASSUME NEW k \in Position', k > 1
               PROVE  /\ Waits(queue[k])'
                      /\ prev'[queue'[k]] = queue'[k - 1]
                      /\ pc'[queue'[k]] \in {"link", "spin"} => locked'[queue'[k]] = 1
                      /\ next'[queue'[k - 1]] = IF pc'[queue'[k]] = "spin" THEN queue'[k] ELSE NULL
    BY DEF WaitInv
  <2>a. /\ k + 1 \in Position /\ k + 1 > 1 /\ (k + 1) - 1 = k
        /\ queue'[k] = queue[k + 1] /\ queue'[k - 1] = queue[k]
    <3>1. k \in Nat /\ k + 1 \in Position /\ queue'[k] = queue[k + 1]
      BY <1>b
    <3>2. queue'[k - 1] = queue[k]
      BY <1>d
    <3>3. k + 1 > 1 /\ (k + 1) - 1 = k
      BY <3>1
    <3> QED
      BY <3>1, <3>2, <3>3
  <2>b. queue'[k] \in Threads /\ queue'[k] # t
    BY <1>d
  <2>c. queue'[k] # queue[2]
    BY <1>b, <1>d, <2>a
  <2>1. /\ k + 1 \in Position /\ k + 1 > 1 /\ (k + 1) - 1 = k
        /\ queue'[k] = queue[k + 1] /\ queue'[k - 1] = queue[k]
        /\ queue'[k] \in Threads /\ queue'[k] # t /\ queue'[k] # queue[2]
    BY <2>a, <2>b, <2>c
  <2>2. /\ Waits(queue[k + 1])
        /\ prev[queue[k + 1]] = queue[k]
        /\ pc[queue[k + 1]] \in {"link", "spin"} => locked[queue[k + 1]] = 1
        /\ next[queue[k]] = IF pc[queue[k + 1]] = "spin" THEN queue[k + 1] ELSE NULL
    BY <2>1 DEF WaitInv
  <2>3. /\ pc'[queue'[k]] = pc[queue[k + 1]] /\ locked'[queue'[k]] = locked[queue[k + 1]]
        /\ Waits(queue[k])'
    BY <1>c, <1>i, <1>s, <2>1, <2>2 DEF TypeOK, Waits
  <2>4. QED
    BY <1>c, <2>1, <2>2, <2>3
<1>5. LastInv'
  BY <1>c, <1>d, <1>e, <1>f, <1>i DEF LastInv
<1>6. IdleInv'
  <2>1. \A u \in Threads : u # queue[2] => locked'[u] = locked[u]
    BY <1>c DEF TypeOK
  <2>2. locked'[queue[2]] = 0
    BY <1>c, <1>s DEF TypeOK
  <2>3. \A u \in Threads : ~InQueue(u)' \/ Holds(u)' => ~InQueue(u) \/ Holds(u)
    BY <1>f, <1>i
  <2>4. QED
    BY <2>1, <2>2, <2>3 DEF IdleInv
<1>7. QED
  BY <1>1, <1>2, <1>3, <1>4, <1>5, <1>6

-----------------------------------------------------------------------------
(* Every step preserves the inductive invariant, for every set of threads.  *)
THEOREM Invariance == Spec => []IInv
<1>1. Init => IInv
  BY InitIInv
<1>2. IInv /\ [Next]_vars => IInv'
  <2>1. ASSUME IInv, NEW t \in Threads, ClearNext(t) \/ Step(t)
        PROVE  IInv'
    BY <2>1, ClearNextKeeps, ExchangeKeeps, LockThenLinkKeeps, GrantedKeeps, ReadNextKeeps,
       CompareAndSwapKeeps, WaitForNextKeeps, UnlockKeeps DEF Step, Acquire, Release
  <2>2. ASSUME IInv, UNCHANGED vars PROVE IInv'
    BY <2>2 DEF vars, IInv, TypeOK, QueueInv, FirstInv, WaitInv, LastInv, IdleInv,
                InQueue, Holds, Waits, Position
  <2>3. QED
    BY <2>1, <2>2 DEF Next
<1>3. QED
  BY <1>1, <1>2, PTL DEF Spec

(* At most one thread holds the MCS lock.                                   *)
THEOREM MutexCorrect == Spec => []MutualExclusion
<1>1. IInv => MutualExclusion
  BY HolderIsFirst DEF IInv, MutualExclusion
<1>2. QED
  BY <1>1, Invariance, PTL

(* mcs_acquire's assertion (mcs.c:85) never fails.                           *)
THEOREM AssertCorrect == Spec => []AssertUnlocked
<1>1. IInv => AssertUnlocked
  BY DEF IInv, IdleInv, AssertUnlocked, InQueue, Holds, Waits
<1>2. QED
  BY <1>1, Invariance, PTL

(* mcs_release hands the lock to a thread that spins for it.                 *)
THEOREM HandOverCorrect == Spec => []HandsOverToAWaiter
<1>1. IInv => HandsOverToAWaiter
  BY SuccessorSpins DEF HandsOverToAWaiter
<1>2. QED
  BY <1>1, Invariance, PTL

(* The values of the lock's words have their types.                          *)
THEOREM TypeCorrect == Spec => []TypeOK
BY Invariance, PTL DEF IInv

-----------------------------------------------------------------------------
(* A thread outside the lock is not in the queue.                           *)
LEMMA OutsideIsNotQueued ==
  ASSUME TypeOK, QueueInv, NEW t \in Threads, ~InQueue(t)
  PROVE  \A k \in DOMAIN queue : queue[k] # t
<1>1. DOMAIN queue = Position
  BY DEF TypeOK, Position
<1>2. QED
  BY <1>1 DEF QueueInv

(* A step of the lock is a step of the first-come-first-served lock: the
   exchange asks, the end of the spin enters, the swap or the unlock leaves,
   and every other step changes neither the order nor who is inside.        *)
LEMMA StepSimulates ==
  ASSUME IInv, IInv', NEW t \in Threads, ClearNext(t) \/ Step(t)
  PROVE  [FL!FNext]_(FL!fvars)
<1> DEFINE Inside == {u \in Threads : Holds(u)}
<1> USE DEF IInv
<1>1. CASE ClearNext(t) \/ LockThenLink(t) \/ ReadNext(t) \/ WaitForNext(t)
           \/ (CompareAndSwap(t) /\ head # t)
  <2>1. queue' = queue
    BY <1>1 DEF ClearNext, LockThenLink, ReadNext, WaitForNext, CompareAndSwap
  <2>2. \A u \in Threads : Holds(u)' <=> Holds(u)
    BY <1>1 DEF ClearNext, LockThenLink, ReadNext, WaitForNext, CompareAndSwap,
                Goto, Holds, TypeOK
  <2>3. Inside' = Inside
    BY <2>2
  <2>4. QED
    BY <2>1, <2>3 DEF FL!fvars
<1>2. CASE Exchange(t)
  <2>1. \A k \in DOMAIN queue : queue[k] # t
    BY <1>2, OutsideIsNotQueued DEF Exchange, InQueue, Holds, Waits
  <2>2. queue' = Append(queue, t)
    BY <1>2 DEF Exchange
  <2>3. \A u \in Threads : Holds(u)' <=> Holds(u) \/ (u = t /\ head = NULL)
    BY <1>2 DEF Exchange, Goto, Holds, TypeOK
  <2>4. queue = << >> => Inside' = {t}
    <3>1. queue = << >> => head = NULL /\ \A u \in Threads : ~Holds(u)
      BY HolderIsFirst, QueueElements DEF QueueInv
    <3>2. QED
      BY <2>3, <3>1
  <2>5. queue # << >> => Inside' = Inside
    <3>1. queue # << >> => head # NULL
      BY QueueElements DEF QueueInv, Position
    <3>2. QED
      BY <2>3, <3>1
  <2>6. FL!Ask(t)
    BY <2>1, <2>2, <2>4, <2>5 DEF FL!Ask
  <2>7. QED
    BY <2>6 DEF FL!FNext
<1>3. CASE Granted(t)
  <2>1. queue' = queue
    BY <1>3 DEF Granted
  <2>2. \A u \in Threads : Holds(u)' <=> Holds(u) \/ u = t
    BY <1>3 DEF Granted, Goto, Holds, TypeOK
  <2>3. Holds(t)' /\ ~Holds(t)
    BY <1>3, <2>2 DEF Granted, Holds
  <2>4. Len(queue) > 0 /\ queue[1] = t
    <3>1. PICK k \in Position : queue[k] = t
      BY <1>3, WaiterIsQueued DEF Granted, Waits
    <3>2. ~(k > 1)
      BY <1>3, <3>1 DEF Granted, WaitInv
    <3>3. QED
      BY <3>1, <3>2, QueueElements
  <2>5. queue # << >> /\ t = Head(queue)
    BY <2>4, QueueElements DEF TypeOK
  <2>6. Inside = {}
    BY <2>3, <2>4, HolderIsFirst
  <2>7. Inside' = {t}
    BY <2>2, <2>6
  <2>8. FL!Enter(t)
    BY <2>1, <2>5, <2>6, <2>7 DEF FL!Enter
  <2>9. QED
    BY <2>8 DEF FL!FNext
<1>4. CASE Unlock(t) \/ (CompareAndSwap(t) /\ head = t)
  <2>1. queue' = Tail(queue)
    BY <1>4 DEF Unlock, CompareAndSwap
  <2>2. Holds(t) /\ \A u \in Threads : Holds(u)' <=> Holds(u) /\ u # t
    BY <1>4 DEF Unlock, CompareAndSwap, Goto, Holds, TypeOK
  <2>3. Inside = {t}
    BY <2>2, HolderIsFirst
  <2>4. Inside' = {}
    BY <2>2, <2>3
  <2>5. FL!Leave(t)
    BY <2>1, <2>3, <2>4 DEF FL!Leave
  <2>6. QED
    BY <2>5 DEF FL!FNext
<1>5. QED
  BY <1>1, <1>2, <1>3, <1>4 DEF Step, Acquire, Release

(* The MCS lock serves its threads one at a time in the order of their
   exchanges on head: the safety part of ImplementsFifoLock.                 *)
THEOREM Refinement == Spec => FL!FSafe
<1>1. Init => FL!FInit
  BY DEF Init, FL!FInit, Holds
<1>2. IInv /\ IInv' /\ [Next]_vars => [FL!FNext]_(FL!fvars)
  <2>1. ASSUME UNCHANGED vars PROVE UNCHANGED FL!fvars
    BY <2>1 DEF vars, FL!fvars, Holds
  <2>2. QED
    BY <2>1, StepSimulates DEF Next
<1>3. QED
  BY <1>1, <1>2, Invariance, PTL DEF Spec, FL!FSafe

=============================================================================
