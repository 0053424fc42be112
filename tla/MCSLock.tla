------------------------------ MODULE MCSLock ------------------------------
(***************************************************************************)
(* The MCS queue lock of Phoenix (phoenix-2.0/phoenix/mcs.c), the lock     *)
(* behind lock_acquire and lock_release when MR_LOCK_MCS is defined.       *)
(*                                                                         *)
(* Every action is one access to memory the threads share, in program      *)
(* order: set_and_flush keeps the compiler from reordering the stores and  *)
(* x86-64 keeps them in order; atomic_xchg and cmp_and_swp are locked      *)
(* instructions.  A thread stands for its mcs_lock_priv.                   *)
(***************************************************************************)
EXTENDS Integers, Sequences

CONSTANTS Threads, NULL

ASSUME MCSAssumption == NULL \notin Threads

VARIABLES head,            (* mcs_lock: the last thread of the queue, or NULL   *)
          next, locked,    (* mcs_lock_priv of each thread                      *)
          prev,            (* the local variable of mcs_acquire                 *)
          pc,
          queue            (* history: the threads between their exchange and
                              their release, in the order of the exchanges      *)

vars == <<head, next, locked, prev, pc, queue>>

(* mcs_acquire: idle, xchg, setlocked, link, spin; then cs; mcs_release: swap,
   waitnext, unlock.                                                        *)
Locations == {"idle", "xchg", "setlocked", "link", "spin",
              "cs", "swap", "waitnext", "unlock"}

Goto(t, l) == pc' = [pc EXCEPT ![t] = l]

(* mcs_alloc, and mcs_alloc_per_thread for each thread.                      *)
Init ==
  /\ head = NULL
  /\ next = [t \in Threads |-> NULL]
  /\ locked = [t \in Threads |-> 0]
  /\ prev = [t \in Threads |-> NULL]
  /\ pc = [t \in Threads |-> "idle"]
  /\ queue = << >>

(***************************************************************************)
(* mcs_acquire.  Some actions are preceded by a faulty variant, which shows *)
(* what the properties tell apart; no specification uses the variants.     *)
(***************************************************************************)
ClearNextForgotten(t) ==
  /\ pc[t] = "idle"
  /\ Goto(t, "xchg")
  /\ UNCHANGED <<head, next, locked, prev, queue>>

(* The call, and the store of NULL into the thread's own next.              *)
ClearNext(t) ==
  /\ pc[t] = "idle"
  /\ next' = [next EXCEPT ![t] = NULL]
  /\ Goto(t, "xchg")
  /\ UNCHANGED <<head, locked, prev, queue>>

Exchange(t) ==
  /\ pc[t] = "xchg"
  /\ prev' = [prev EXCEPT ![t] = head]
  /\ head' = t
  /\ queue' = Append(queue, t)
  /\ Goto(t, IF head = NULL THEN "cs" ELSE "setlocked")
  /\ UNCHANGED <<next, locked>>

LinkFirst(t) ==
  /\ \/ /\ pc[t] = "setlocked"
        /\ next' = [next EXCEPT ![prev[t]] = t]
        /\ Goto(t, "link")
        /\ UNCHANGED locked
     \/ /\ pc[t] = "link"
        /\ locked' = [locked EXCEPT ![t] = 1]
        /\ Goto(t, "spin")
        /\ UNCHANGED next
  /\ UNCHANGED <<head, prev, queue>>

LinkOnly(t) ==
  /\ \/ pc[t] = "setlocked" /\ Goto(t, "link") /\ UNCHANGED next
     \/ /\ pc[t] = "link"
        /\ next' = [next EXCEPT ![prev[t]] = t]
        /\ Goto(t, "spin")
  /\ UNCHANGED <<head, locked, prev, queue>>

(* "this ordering is important": first locked, then the link.               *)
LockThenLink(t) ==
  /\ \/ /\ pc[t] = "setlocked"
        /\ locked' = [locked EXCEPT ![t] = 1]
        /\ Goto(t, "link")
        /\ UNCHANGED next
     \/ /\ pc[t] = "link"
        /\ next' = [next EXCEPT ![prev[t]] = t]
        /\ Goto(t, "spin")
        /\ UNCHANGED locked
  /\ UNCHANGED <<head, prev, queue>>

Granted(t) ==
  /\ pc[t] = "spin"
  /\ locked[t] = 0
  /\ Goto(t, "cs")
  /\ UNCHANGED <<head, next, locked, prev, queue>>

(***************************************************************************)
(* mcs_release                                                             *)
(***************************************************************************)
(* The first read of the thread's own next.                                 *)
ReadNext(t) ==
  /\ pc[t] = "cs"
  /\ Goto(t, IF next[t] = NULL THEN "swap" ELSE "unlock")
  /\ UNCHANGED <<head, next, locked, prev, queue>>

StoreNotSwap(t) ==
  /\ pc[t] = "swap"
  /\ head' = NULL /\ queue' = Tail(queue) /\ Goto(t, "idle")
  /\ UNCHANGED <<next, locked, prev>>

(* cmp_and_swp of the lock's head from the thread itself to NULL.           *)
CompareAndSwap(t) ==
  /\ pc[t] = "swap"
  /\ \/ head = t /\ head' = NULL /\ queue' = Tail(queue) /\ Goto(t, "idle")
     \/ head # t /\ Goto(t, "waitnext") /\ UNCHANGED <<head, queue>>
  /\ UNCHANGED <<next, locked, prev>>

WaitForNext(t) ==
  /\ pc[t] = "waitnext"
  /\ next[t] # NULL
  /\ Goto(t, "unlock")
  /\ UNCHANGED <<head, next, locked, prev, queue>>

Unlock(t) ==
  /\ pc[t] = "unlock"
  /\ locked' = [locked EXCEPT ![next[t]] = 0]
  /\ queue' = Tail(queue)
  /\ Goto(t, "idle")
  /\ UNCHANGED <<head, next, prev>>

Acquire(t) == Exchange(t) \/ LockThenLink(t) \/ Granted(t)
Release(t) == ReadNext(t) \/ CompareAndSwap(t) \/ WaitForNext(t) \/ Unlock(t)
Step(t)    == Acquire(t) \/ Release(t)

Next == \E t \in Threads : ClearNext(t) \/ Step(t)

Spec == Init /\ [][Next]_vars

(* A thread need not ask for the lock; once it asked it is scheduled, and its
   critical section ends.                                                   *)
FairSpec == Spec /\ \A t \in Threads : WF_vars(Step(t))

(***************************************************************************)
(* Properties.                                                             *)
(***************************************************************************)
(* Every variable holds what its C declaration lets it hold.                *)
TypeOK ==
  /\ head \in Threads \cup {NULL}
  /\ next \in [Threads -> Threads \cup {NULL}]
  /\ locked \in [Threads -> {0, 1}]
  /\ prev \in [Threads -> Threads \cup {NULL}]
  /\ pc \in [Threads -> Locations]
  /\ queue \in Seq(Threads)

Holds(t) == pc[t] \in {"cs", "swap", "waitnext", "unlock"}

(* Two threads never are between mcs_acquire's return and the hand-over in
   mcs_release at the same time (mcs.c:77-128).                             *)
MutualExclusion == \A t, u \in Threads : Holds(t) /\ Holds(u) => t = u

(* assert (priv->locked == 0) (mcs.c:85): nobody has left a thread locked, and
   nobody will lock it, once it released.                                   *)
AssertUnlocked == \A t \in Threads : pc[t] \in {"idle", "xchg"} => locked[t] = 0

(* The node Unlock (mcs.c:127) writes to is that of a thread that still waits
   for this hand-over, never that of one that has moved on.                 *)
HandsOverToAWaiter ==
  \A t \in Threads : pc[t] = "unlock" =>
    next[t] \in Threads /\ pc[next[t]] = "spin" /\ locked[next[t]] = 1

(* A thread that asked for the lock gets it (mcs.c:97: no "schedule that will
   spin forever").                                                          *)
NoStarvation == \A t \in Threads : pc[t] = "xchg" ~> pc[t] = "cs"

(***************************************************************************)
(* The inductive invariant: the linked list read off the queue.            *)
(***************************************************************************)
Waits(t)  == pc[t] \in {"setlocked", "link", "spin"}
InQueue(t) == Holds(t) \/ Waits(t)
Position  == 1 .. Len(queue)

(* The queue holds each acquiring or holding thread once, its last is head.  *)
QueueInv ==
  /\ \A t \in Threads : InQueue(t) <=> \E k \in Position : queue[k] = t
  /\ \A j, k \in Position : queue[j] = queue[k] => j = k
  /\ head = IF queue = << >> THEN NULL ELSE queue[Len(queue)]

(* The first of the queue holds the lock or has been granted it.            *)
FirstInv ==
  queue # << >> =>
    Holds(queue[1]) \/ (pc[queue[1]] = "spin" /\ locked[queue[1]] = 0)

(* The others wait behind their predecessor, linked to it once they spin.   *)
WaitInv ==
  \A k \in Position : k > 1 =>
    /\ Waits(queue[k])
    /\ prev[queue[k]] = queue[k - 1]
    /\ pc[queue[k]] \in {"link", "spin"} => locked[queue[k]] = 1
    /\ next[queue[k - 1]] = IF pc[queue[k]] = "spin" THEN queue[k] ELSE NULL

(* Nobody follows the last; a thread that releases with a successor has one. *)
LastInv ==
  /\ queue # << >> => next[queue[Len(queue)]] = NULL
  /\ \A t \in Threads : pc[t] = "xchg" => next[t] = NULL
  /\ \A t \in Threads : pc[t] = "unlock" => next[t] # NULL
  /\ \A t \in Threads : pc[t] = "waitnext" => head # t

IdleInv == \A t \in Threads : ~InQueue(t) \/ Holds(t) => locked[t] = 0

IInv == TypeOK /\ QueueInv /\ FirstInv /\ WaitInv /\ LastInv /\ IdleInv

=============================================================================
