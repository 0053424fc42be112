----------------------------- MODULE FifoLock ------------------------------
(***************************************************************************)
(* What a queueing lock promises: at most one thread inside, the threads   *)
(* enter in the order in which they asked, and a thread that asked enters. *)
(***************************************************************************)
EXTENDS Sequences

CONSTANT Threads

VARIABLES queue,     (* the threads that asked and have not released, in order *)
          inside     (* the threads in their critical section                  *)

fvars == <<queue, inside>>

FInit == queue = << >> /\ inside = {}

(* An idle thread asks; if the lock is free it is inside at once.           *)
Ask(t) ==
  /\ \A k \in DOMAIN queue : queue[k] # t
  /\ queue' = Append(queue, t)
  /\ inside' = IF queue = << >> THEN {t} ELSE inside

Enter(t) ==
  /\ queue # << >> /\ t = Head(queue)
  /\ inside = {}
  /\ inside' = {t}
  /\ UNCHANGED queue

Leave(t) ==
  /\ inside = {t}
  /\ queue' = Tail(queue)
  /\ inside' = {}

FNext == \E t \in Threads : Ask(t) \/ Enter(t) \/ Leave(t)

FSafe == FInit /\ [][FNext]_fvars

FSpec == /\ FSafe
         /\ \A t \in Threads : WF_fvars(Enter(t)) /\ WF_fvars(Leave(t))

=============================================================================
