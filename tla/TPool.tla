------------------------------- MODULE TPool -------------------------------
(***************************************************************************)
(* The thread pool of the Phoenix MapReduce runtime                        *)
(* (phoenix-2.0/phoenix/tpool.c), driven by one client thread the way      *)
(* start_workers, map_reduce and env_fini (map_reduce.c) drive it: create, *)
(* then any number of dispatches (tpool_set, tpool_begin, tpool_wait,      *)
(* tpool_get_results), then destroy.                                       *)
(*                                                                         *)
(* Every atomic action is one access to memory two threads share: the      *)
(* counter num_workers_done is incremented in one step and compared with   *)
(* num_workers in another, as thread_loop does.  What a job computes is    *)
(* abstracted to the number of the dispatch it belongs to.                 *)
(***************************************************************************)
EXTENDS Integers, FiniteSets

CONSTANTS NumThreads,    (* the argument of tpool_create                    *)
          MaxPhases      (* bound: how often the client dispatches the pool *)

ASSUME TPoolAssumption == /\ NumThreads \in Nat \ {0}
                          /\ MaxPhases \in Nat

Threads == 0 .. NumThreads - 1
Phases  == 1 .. MaxPhases

NoPhase == 0     (* what a word of uninitialised memory stands for          *)
Freed   == -1    (* the content of a block given back to the allocator      *)

VARIABLES
  (* tpool_t *)
  num_workers, num_workers_done, sem_all_workers_done,
  die, thread_func, args,
  (* thread_arg_t, one per thread *)
  sem_run, ret,
  (* the client thread: where it is, its loop index, its dispatch number,
     its copy of the results *)
  main, i, phase, rets,
  (* the pool threads: location, <<thread_func, thread_func_arg>> read, the
     local copy of num_workers_done, a pending pthread_cancel *)
  pc, job, count, cancelled,
  (* history: the largest num_workers dispatched, and whether every later
     dispatch used at least as many workers (or none) *)
  peak, steady

poolVars == <<num_workers, die, thread_func, args>>
semVars  == <<sem_run, sem_all_workers_done>>
mainVars == <<main, i, phase, rets>>
workVars == <<pc, job, count>>
histVars == <<peak, steady>>
vars == <<poolVars, semVars, num_workers_done, ret, mainVars, workVars,
          cancelled, histVars>>

MainLocations == {"create", "cancel", "idle", "args", "begin", "post", "wait",
                  "joined", "kill", "await", "destroyed", "failed"}
Locations == {"absent", "wait", "fetch", "run", "inc", "compare",
              "leave", "lastcompare", "exit"}

(* thread_args, args and the pool itself have been given back.              *)
released == main \in {"destroyed", "failed"}

(***************************************************************************)
(* The decisions of the code that its synchronisation hangs on.  Most are  *)
(* preceded by a faulty variant, which shows what the properties tell      *)
(* apart; no specification uses the variants.                              *)
(***************************************************************************)
LastOneRereads(t) == num_workers_done = num_workers

(* Thread t's increment was the one that completed the dispatch.            *)
LastOne(t) == count[t] = num_workers

MorePostsOffByOne == i + 1 <= num_workers

(* tpool_begin has another worker to wake after worker i.                   *)
MorePosts == i + 1 < num_workers

(* The count tpool_begin starts a dispatch with.                            *)
DoneAtBegin == 0

DoneAtDestroyKept == num_workers_done

(* The count tpool_destroy starts the shutdown with.                        *)
DoneAtDestroy == 0

WorkersAtDestroyKept == num_workers

(* The number of threads tpool_destroy waits for.                           *)
WorkersAtDestroy == NumThreads

(***************************************************************************)
(* The client: tpool_create.                                               *)
(***************************************************************************)
Init ==
  /\ num_workers = NumThreads
  /\ num_workers_done = 0
  /\ sem_all_workers_done = 0
  /\ die = FALSE
  /\ thread_func = NoPhase
  /\ args = [t \in Threads |-> NoPhase]
  /\ sem_run = [t \in Threads |-> 0]
  /\ ret = [t \in Threads |-> NoPhase]
  /\ main = "create" /\ i = 0 /\ phase = 0
  /\ rets = [t \in Threads |-> NoPhase]
  /\ pc = [t \in Threads |-> "absent"]
  /\ job = [t \in Threads |-> <<NoPhase, NoPhase>>]
  /\ count = [t \in Threads |-> 0]
  /\ cancelled = {}
  /\ peak = 0
  /\ steady = TRUE

(* pthread_create of thread i succeeds; after the last one the pool is ready. *)
CreateThread ==
  /\ main = "create"
  /\ pc' = [pc EXCEPT ![i] = "wait"]
  /\ i' = i + 1
  /\ main' = IF i + 1 = NumThreads THEN "idle" ELSE "create"
  /\ UNCHANGED <<poolVars, semVars, num_workers_done, ret, phase, rets, job,
                 count, cancelled, histVars>>

(* pthread_create of thread i fails: cancel the earlier ones.               *)
CreateFails ==
  /\ main = "create"
  /\ main' = "cancel"
  /\ i' = i - 1
  /\ UNCHANGED <<poolVars, semVars, num_workers_done, ret, phase, rets,
                 workVars, cancelled, histVars>>

(* pthread_cancel is a request; the threads are detached and nobody waits
   for them before the blocks they use are freed.                           *)
CancelThread ==
  /\ main = "cancel"
  /\ \/ /\ i >= 0
        /\ cancelled' = cancelled \cup {i}
        /\ i' = i - 1
        /\ UNCHANGED main
     \/ /\ i < 0
        /\ main' = "failed"
        /\ UNCHANGED <<cancelled, i>>
  /\ UNCHANGED <<poolVars, semVars, num_workers_done, ret, phase, rets,
                 workVars, histVars>>

(***************************************************************************)
(* The client: one dispatch (start_workers).                               *)
(***************************************************************************)
(* tpool_set, the assignments to thread_func and num_workers.               *)
tpool_set(w) ==
  /\ main = "idle"
  /\ phase < MaxPhases
  /\ phase' = phase + 1
  /\ thread_func' = phase + 1
  /\ num_workers' = w
  /\ main' = "args"
  /\ steady' = (steady /\ (w = 0 \/ w >= peak))
  /\ peak' = IF w > peak THEN w ELSE peak
  /\ UNCHANGED <<die, args, semVars, num_workers_done, ret, i, rets, workVars,
                 cancelled>>

(* tpool_set, the loop over args: only the first num_workers are written.   *)
SetArgs ==
  /\ main = "args"
  /\ args' = [t \in Threads |-> IF t < num_workers THEN phase ELSE args[t]]
  /\ main' = "begin"
  /\ UNCHANGED <<num_workers, die, thread_func, semVars, num_workers_done, ret,
                 i, phase, rets, workVars, cancelled, histVars>>

(* tpool_begin up to its loop.                                              *)
tpool_begin ==
  /\ main = "begin"
  /\ \/ /\ num_workers = 0
        /\ main' = "wait"
        /\ UNCHANGED <<num_workers_done, i>>
     \/ /\ num_workers # 0
        /\ main' = "post"
        /\ num_workers_done' = DoneAtBegin
        /\ i' = 0
  /\ UNCHANGED <<poolVars, semVars, ret, phase, rets, workVars, cancelled,
                 histVars>>

(* One sem_post of tpool_begin's loop.  After the last one the client does
   its own share of the dispatch and goes to tpool_wait.                    *)
BeginPost ==
  /\ main = "post"
  /\ sem_run' = [sem_run EXCEPT ![i] = @ + 1]
  /\ i' = i + 1
  /\ main' = IF MorePosts THEN "post" ELSE "wait"
  /\ UNCHANGED <<poolVars, sem_all_workers_done, num_workers_done, ret, phase,
                 rets, workVars, cancelled, histVars>>

tpool_wait ==
  /\ main = "wait"
  /\ \/ /\ num_workers = 0
        /\ UNCHANGED sem_all_workers_done
     \/ /\ num_workers # 0
        /\ sem_all_workers_done > 0
        /\ sem_all_workers_done' = sem_all_workers_done - 1
  /\ main' = "joined"
  /\ UNCHANGED <<poolVars, sem_run, num_workers_done, ret, i, phase, rets,
                 workVars, cancelled, histVars>>

(* The results of all num_threads threads are copied, busy or not.          *)
tpool_get_results ==
  /\ main = "joined"
  /\ rets' = ret
  /\ main' = "idle"
  /\ UNCHANGED <<poolVars, semVars, num_workers_done, ret, i, phase, workVars,
                 cancelled, histVars>>

(***************************************************************************)
(* The client: tpool_destroy.                                              *)
(***************************************************************************)
tpool_destroy ==
  /\ main = "idle"
  /\ num_workers' = WorkersAtDestroy
  /\ num_workers_done' = DoneAtDestroy
  /\ i' = 0
  /\ main' = "kill"
  /\ UNCHANGED <<die, thread_func, args, semVars, ret, phase, rets, workVars,
                 cancelled, histVars>>

KillThread ==
  /\ main = "kill"
  /\ ret' = [ret EXCEPT ![i] = Freed]
  /\ die' = TRUE
  /\ sem_run' = [sem_run EXCEPT ![i] = @ + 1]
  /\ i' = i + 1
  /\ main' = IF i + 1 < NumThreads THEN "kill" ELSE "await"
  /\ UNCHANGED <<num_workers, thread_func, args, sem_all_workers_done,
                 num_workers_done, phase, rets, workVars, cancelled, histVars>>

DestroyWait ==
  /\ main = "await"
  /\ sem_all_workers_done > 0
  /\ sem_all_workers_done' = sem_all_workers_done - 1
  /\ main' = "destroyed"
  /\ UNCHANGED <<poolVars, sem_run, num_workers_done, ret, i, phase, rets,
                 workVars, cancelled, histVars>>

(***************************************************************************)
(* A pool thread: thread_loop.                                             *)
(***************************************************************************)
Goto(t, l) == pc' = [pc EXCEPT ![t] = l]

SemWaitRun(t) ==
  /\ pc[t] = "wait" /\ ~released
  /\ sem_run[t] > 0
  /\ sem_run' = [sem_run EXCEPT ![t] = @ - 1]
  /\ Goto(t, "fetch")
  /\ UNCHANGED <<poolVars, sem_all_workers_done, num_workers_done, ret,
                 mainVars, job, count, cancelled, histVars>>

(* The test of *die and the reads of thread_func and thread_func_arg.       *)
Fetch(t) ==
  /\ pc[t] = "fetch" /\ ~released
  /\ \/ /\ die
        /\ Goto(t, "leave")
        /\ UNCHANGED job
     \/ /\ ~die
        /\ job' = [job EXCEPT ![t] = <<thread_func, args[t]>>]
        /\ Goto(t, "run")
  /\ UNCHANGED <<poolVars, semVars, num_workers_done, ret, mainVars, count,
                 cancelled, histVars>>

(* The job returns and its result is stored through ret.                    *)
Run(t) ==
  /\ pc[t] = "run" /\ ~released
  /\ ret' = [ret EXCEPT ![t] = job[t][2]]
  /\ Goto(t, "inc")
  /\ UNCHANGED <<poolVars, semVars, num_workers_done, mainVars, job, count,
                 cancelled, histVars>>

(* fetch_and_inc, in the loop and once more on the way out.                 *)
FetchAndInc(t) ==
  /\ pc[t] \in {"inc", "leave"} /\ ~released
  /\ num_workers_done' = num_workers_done + 1
  /\ count' = [count EXCEPT ![t] = num_workers_done + 1]
  /\ Goto(t, IF pc[t] = "inc" THEN "compare" ELSE "lastcompare")
  /\ UNCHANGED <<poolVars, semVars, ret, mainVars, job, cancelled, histVars>>

(* The read of *num_workers and, when the counts agree, the sem_post.       *)
Compare(t) ==
  /\ pc[t] \in {"compare", "lastcompare"} /\ ~released
  /\ sem_all_workers_done' = IF LastOne(t)
                             THEN sem_all_workers_done + 1
                             ELSE sem_all_workers_done
  /\ Goto(t, IF pc[t] = "compare" THEN "wait" ELSE "exit")
  /\ UNCHANGED <<poolVars, sem_run, num_workers_done, ret, mainVars, job, count,
                 cancelled, histVars>>

(* sem_wait is a cancellation point.                                        *)
ActOnCancel(t) ==
  /\ pc[t] = "wait" /\ t \in cancelled
  /\ Goto(t, "exit")
  /\ UNCHANGED <<poolVars, semVars, num_workers_done, ret, mainVars, job, count,
                 cancelled, histVars>>

(* A thread that goes on after the pool was freed reads memory that is not
   the pool's: it may leave its loop wherever it is, or never run again.    *)
Stray(t) ==
  /\ released /\ pc[t] \notin {"absent", "exit"}
  /\ Goto(t, "exit")
  /\ UNCHANGED <<poolVars, semVars, num_workers_done, ret, mainVars, job, count,
                 cancelled, histVars>>

Create   == CreateThread \/ CreateFails \/ CancelThread
Dispatch == SetArgs \/ tpool_begin \/ BeginPost \/ tpool_wait \/ tpool_get_results
Destroy  == tpool_destroy \/ KillThread \/ DestroyWait
Main     == Create \/ (\E w \in 0 .. NumThreads : tpool_set(w)) \/ Dispatch \/ Destroy
Worker(t) == \/ SemWaitRun(t) \/ Fetch(t) \/ Run(t) \/ FetchAndInc(t)
             \/ Compare(t) \/ ActOnCancel(t) \/ Stray(t)

(* Everything has stopped: the pool is gone and no thread is left in it.    *)
Stopped == /\ released
           /\ \A t \in Threads : pc[t] \in {"absent", "exit"}
           /\ UNCHANGED vars

Next == Main \/ (\E t \in Threads : Worker(t)) \/ Stopped

(* The operating system schedules the client and every pool thread.         *)
Fairness == /\ WF_vars(Main)
            /\ \A t \in Threads : WF_vars(Worker(t))

Spec == Init /\ [][Next]_vars

FairSpec == Spec /\ Fairness

(***************************************************************************)
(* Properties.                                                             *)
(***************************************************************************)
(* Every variable has the type the C declaration gives it; a worker's two
   job words are dispatch numbers.                                          *)
TypeOK ==
  /\ num_workers \in 0 .. NumThreads
  /\ num_workers_done \in Nat
  /\ sem_all_workers_done \in Nat
  /\ die \in BOOLEAN
  /\ thread_func \in 0 .. MaxPhases
  /\ args \in [Threads -> 0 .. MaxPhases]
  /\ sem_run \in [Threads -> Nat]
  /\ ret \in [Threads -> -1 .. MaxPhases]
  /\ main \in MainLocations
  /\ i \in -1 .. NumThreads
  /\ phase \in 0 .. MaxPhases
  /\ rets \in [Threads -> -1 .. MaxPhases]
  /\ pc \in [Threads -> Locations]
  /\ job \in [Threads -> (0 .. MaxPhases) \X (0 .. MaxPhases)]
  /\ count \in [Threads -> Nat]
  /\ cancelled \subseteq Threads
  /\ peak \in 0 .. NumThreads
  /\ steady \in BOOLEAN
  /\ main = "create" => i \in Threads
  /\ main = "post" => i \in Threads /\ i < num_workers
  /\ main = "kill" => i \in Threads
  /\ main = "cancel" => i \in -1 .. NumThreads - 1

AtRest == {"joined", "idle", "args", "begin"}

(* No thread of the pool is inside a job, on its way into one, or has yet to
   be counted.                                                              *)
NobodyWorks == \A t \in Threads : sem_run[t] = 0 /\ pc[t] \in {"wait", "compare"}

(* start_workers: "Barrier, wait for all threads to finish" (map_reduce.c:615).
   Whenever the client is past tpool_wait and has not begun the next dispatch,
   nobody works, whatever the numbers of workers.                           *)
BarrierWaits == main \in AtRest => NobodyWorks

(* The barrier waits as long as the client never dispatched fewer workers than
   before: then no late comparison of thread_loop can open it early.        *)
SteadyBarrierWaits == steady => BarrierWaits

(* A thread only ever runs the function and the argument of the dispatch it was
   woken for: tpool_set cannot change them under a thread that was woken but
   has not read them yet.                                                   *)
RunsItsDispatch ==
  steady => \A t \in Threads :
              pc[t] = "run" => /\ job[t] = <<phase, phase>>
                               /\ main \in {"post", "wait"}
                               /\ t < num_workers

(* What start_workers reads from tpool_get_results for a thread it used was
   stored by that thread in this very dispatch.                             *)
ResultsAreFresh ==
  steady /\ main = "idle" /\ phase > 0 =>
    \A t \in Threads : t < num_workers => rets[t] = phase

(* "Everybody's done" (tpool.c:276): when tpool_destroy frees the pool every
   thread has finished with it.                                             *)
EverybodyIsDone == main = "destroyed" => \A t \in Threads : pc[t] = "exit"

(* What does hold of the last release: every thread was counted on its way out,
   so that only the comparison with num_workers can still read freed memory. *)
EverybodyWasCounted ==
  steady /\ main = "destroyed" =>
    \A t \in Threads : pc[t] \in {"lastcompare", "exit"}

(* Whatever the client does, its thread comes to the end of tpool_destroy, or
   of a tpool_create that failed.                                           *)
MainEnds == <>released

(* The refinement of ForkJoin: a worker is pending from tpool_set until its
   result is stored.                                                        *)
PendingWorkers ==
  IF main \in {"args", "begin", "post", "wait"}
  THEN {t \in Threads : t < num_workers /\ ret[t] # phase}
  ELSE {}

PoolState ==
  CASE main \in {"create", "cancel"} -> "down"
    [] main \in {"joined", "idle"} -> "idle"
    [] main \in {"args", "begin", "post", "wait"} -> "running"
    [] OTHER -> "stopped"

FJ == INSTANCE ForkJoin WITH state <- PoolState, pending <- PendingWorkers

(* As long as its client's worker counts do not shrink, the pool is a fork-join
   executor: a dispatch runs every worker's job exactly once, between tpool_set and
   the return of tpool_wait, and nothing runs at any other time.              *)
SteadyImplementsForkJoin ==
  FJ!FJInit /\ [][steady' => [FJ!FJNext]_<<PoolState, phase, PendingWorkers>>]_vars

(***************************************************************************)
(* The inductive invariant behind the steady properties.                   *)
(***************************************************************************)
Resting     == main \in AtRest \/ (main = "wait" /\ num_workers = 0)
Dispatching == main = "post" \/ (main = "wait" /\ num_workers # 0)
Destroying  == main \in {"kill", "await"}

(* Threads 0 .. Posted - 1 have been woken by the loop in progress.          *)
Posted == IF main \in {"post", "kill"} THEN i ELSE num_workers

Comparing(t) == pc[t] \in {"compare", "lastcompare"}

(* The threads num_workers_done has counted.                                *)
Counted ==
  IF Dispatching
  THEN {t \in Threads : t < Posted /\ sem_run[t] = 0 /\ pc[t] \in {"wait", "compare"}}
  ELSE {t \in Threads : pc[t] \in {"lastcompare", "exit"}}

CreateInv ==
  /\ main \notin {"cancel", "failed"} => cancelled = {}
  /\ main \in {"create", "cancel", "failed"} =>
       /\ sem_all_workers_done = 0 /\ peak = 0
       /\ \A t \in Threads :
            /\ sem_run[t] = 0
            /\ pc[t] \in {"absent", "wait", "exit"}
            /\ main = "create" => pc[t] = IF t < i THEN "wait" ELSE "absent"

RestInv == Resting => NobodyWorks /\ sem_all_workers_done = 0

DispatchInv ==
  Dispatching =>
    /\ num_workers = peak
    /\ \A t \in Threads :
         \/ sem_run[t] = 0 /\ pc[t] \in {"wait", "compare"}
         \/ t < Posted /\ sem_run[t] = 1 /\ pc[t] \in {"wait", "compare"}
         \/ t < Posted /\ sem_run[t] = 0 /\ pc[t] \in {"fetch", "run", "inc"}

DestroyInv ==
  /\ Destroying =>
       /\ num_workers = NumThreads
       /\ \A t \in Threads :
            \/ t >= Posted /\ sem_run[t] = 0 /\ pc[t] \in {"wait", "compare"}
            \/ t < Posted /\ sem_run[t] = 1 /\ pc[t] \in {"wait", "compare"}
            \/ /\ t < Posted /\ sem_run[t] = 0
               /\ pc[t] \in {"fetch", "leave", "lastcompare", "exit"}
  /\ main \in {"create", "post", "wait"} \cup AtRest => ~die
  /\ main = "kill" => (die <=> i > 0)
  /\ main = "await" => die
  /\ main = "destroyed" => \A t \in Threads : pc[t] \in {"lastcompare", "exit"}

(* Only the thread whose increment was the last may find its count equal to
   num_workers, and it finds it once.                                       *)
TokenInv ==
  Dispatching \/ Destroying =>
    /\ num_workers_done = Cardinality(Counted)
    /\ sem_all_workers_done \in {0, 1}
    /\ num_workers_done < num_workers => sem_all_workers_done = 0
    /\ \A t \in Threads :
         Comparing(t) /\ count[t] = num_workers =>
           /\ num_workers_done = num_workers
           /\ sem_all_workers_done = 0
           /\ \A u \in Threads : Comparing(u) /\ count[u] = num_workers => u = t

(* A thread late with the comparison of an earlier dispatch.                 *)
LateInv ==
  /\ \A t \in Threads : Comparing(t) => count[t] > 0
  /\ Dispatching => \A t \in Threads : Comparing(t) => count[t] <= num_workers
  /\ Resting => /\ num_workers \in {0, peak} \/ (peak = 0 /\ main = "idle")
                /\ \A t \in Threads : pc[t] = "compare" => count[t] < peak

(* What the threads read and store.                                          *)
DataInv ==
  /\ main \in {"create", "cancel", "failed"} => phase = 0
  /\ main \in {"args", "begin", "post", "wait"} => thread_func = phase
  /\ main \in {"begin", "post", "wait"} =>
       \A t \in Threads : t < num_workers => args[t] = phase
  /\ Dispatching => /\ \A t \in Threads : pc[t] \in {"run", "inc"} => job[t] = <<phase, phase>>
                    /\ \A t \in Threads : pc[t] = "inc" => ret[t] = phase
                    /\ \A t \in Counted : ret[t] = phase
  /\ main = "joined" => \A t \in Threads : t < num_workers => ret[t] = phase
  /\ main = "idle" /\ phase > 0 => \A t \in Threads : t < num_workers => rets[t] = phase

SteadyInv == /\ CreateInv /\ RestInv /\ DispatchInv /\ DestroyInv
             /\ TokenInv /\ LateInv /\ DataInv

(* The inductive invariant: types always, the rest while the client is steady. *)
IInv == TypeOK /\ (steady => SteadyInv)

=============================================================================
