----------------------------- MODULE TPool_proof -----------------------------
(***************************************************************************)
(* Proofs about TPool, for every number of threads and of dispatches.      *)
(***************************************************************************)
EXTENDS TPool, FiniteSetTheorems, TLAPS

USE TPoolAssumption DEF poolVars, semVars, mainVars, workVars, histVars

-----------------------------------------------------------------------------
(* The initial values have their types.                                     *)
LEMMA InitTyping == Init => TypeOK
<1> SUFFICES ASSUME Init PROVE TypeOK
  OBVIOUS
<1>1. i \in Threads /\ i \in -1 .. NumThreads
  BY DEF Init, Threads
<1>2. "absent" \in Locations /\ main \in MainLocations
  BY DEF Init, Locations, MainLocations
<1>3. num_workers \in 0 .. NumThreads /\ peak \in 0 .. NumThreads
  BY DEF Init
<1>4. NoPhase \in 0 .. MaxPhases /\ NoPhase \in -1 .. MaxPhases
  BY DEF NoPhase
<1>5. job \in [Threads -> (0 .. MaxPhases) \X (0 .. MaxPhases)]
  BY <1>4 DEF Init
<1>6. args \in [Threads -> 0 .. MaxPhases] /\ ret \in [Threads -> -1 .. MaxPhases]
      /\ rets \in [Threads -> -1 .. MaxPhases]
  BY <1>4 DEF Init
<1>7. pc \in [Threads -> Locations] /\ sem_run \in [Threads -> Nat]
      /\ count \in [Threads -> Nat]
  BY <1>2 DEF Init
<1>8. phase \in 0 .. MaxPhases /\ thread_func \in 0 .. MaxPhases
  BY <1>4 DEF Init
<1>9. QED
  BY <1>1, <1>2, <1>3, <1>5, <1>6, <1>7, <1>8 DEF Init, TypeOK

(* A step of the client's thread preserves the types.                       *)
LEMMA MainTyping ==
  ASSUME TypeOK, Main
  PROVE  TypeOK'
<1> USE DEF TypeOK
<1>1. CASE CreateThread
  <2>1. i + 1 \in -1 .. NumThreads /\ (i + 1 # NumThreads => i + 1 \in Threads)
    BY <1>1 DEF CreateThread, Threads
  <2>2. "wait" \in Locations
    BY DEF Locations
  <2>3. QED
    BY <1>1, <2>1, <2>2 DEF CreateThread, MainLocations
<1>2. CASE CreateFails
  <2>1. i - 1 \in -1 .. NumThreads /\ i - 1 \in -1 .. NumThreads - 1
    BY <1>2 DEF CreateFails, Threads
  <2>2. QED
    BY <1>2, <2>1 DEF CreateFails, MainLocations
<1>3. CASE CancelThread
  <2>1. i >= 0 => /\ i \in Threads
                  /\ i - 1 \in -1 .. NumThreads /\ i - 1 \in -1 .. NumThreads - 1
    BY <1>3 DEF CancelThread, Threads
  <2>2. QED
    BY <1>3, <2>1 DEF CancelThread, MainLocations
<1>4. ASSUME NEW w \in 0 .. NumThreads, tpool_set(w)
      PROVE  TypeOK'
  BY <1>4 DEF tpool_set, MainLocations
<1>5. CASE SetArgs
  BY <1>5 DEF SetArgs, MainLocations
<1>6. CASE tpool_begin
  <2>1. 0 \in Threads /\ 0 \in -1 .. NumThreads
    BY DEF Threads
  <2>2. QED
    BY <1>6, <2>1 DEF tpool_begin, MainLocations, DoneAtBegin
<1>7. CASE BeginPost
  <2>1. i + 1 \in -1 .. NumThreads /\ (i + 1 < num_workers => i + 1 \in Threads)
    BY <1>7 DEF BeginPost, Threads
  <2>2. QED
    BY <1>7, <2>1 DEF BeginPost, MainLocations, MorePosts
<1>8. CASE tpool_wait
  BY <1>8 DEF tpool_wait, MainLocations
<1>9. CASE tpool_get_results
  BY <1>9 DEF tpool_get_results, MainLocations
<1>10. CASE tpool_destroy
  <2>1. 0 \in Threads /\ 0 \in -1 .. NumThreads
    BY DEF Threads
  <2>2. QED
    BY <1>10, <2>1
    DEF tpool_destroy, MainLocations, WorkersAtDestroy, DoneAtDestroy
<1>11. CASE KillThread
  <2>1. /\ i + 1 \in -1 .. NumThreads
        /\ i + 1 < NumThreads => i + 1 \in Threads
        /\ Freed \in -1 .. MaxPhases
    BY <1>11 DEF KillThread, Threads, Freed
  <2>2. QED
    BY <1>11, <2>1 DEF KillThread, MainLocations
<1>12. CASE DestroyWait
  BY <1>12 DEF DestroyWait, MainLocations
<1>13. QED
  BY <1>1, <1>2, <1>3, <1>4, <1>5, <1>6, <1>7, <1>8, <1>9, <1>10, <1>11, <1>12
  DEF Main, Create, Dispatch, Destroy

(* A step of a pool thread preserves the types.                             *)
LEMMA WorkerTyping ==
  ASSUME TypeOK, NEW t \in Threads, Worker(t)
  PROVE  TypeOK'
<1> USE DEF TypeOK, Goto
<1>0. Locations = {"absent", "wait", "fetch", "run", "inc", "compare",
                   "leave", "lastcompare", "exit"}
  BY DEF Locations
<1>1. CASE SemWaitRun(t)
  BY <1>0, <1>1 DEF SemWaitRun
<1>2. CASE Fetch(t)
  <2>1. <<thread_func, args[t]>> \in (0 .. MaxPhases) \X (0 .. MaxPhases)
    OBVIOUS
  <2>2. pc' \in [Threads -> Locations]
    BY <1>0, <1>2 DEF Fetch
  <2>3. QED
    BY <1>2, <2>1, <2>2 DEF Fetch
<1>3. CASE Run(t)
  <2>1. job[t][2] \in -1 .. MaxPhases
    BY <1>3
  <2>2. QED
    BY <1>0, <1>3, <2>1 DEF Run
<1>4. CASE FetchAndInc(t)
  BY <1>0, <1>4 DEF FetchAndInc
<1>5. CASE Compare(t)
  BY <1>0, <1>5 DEF Compare, LastOne
<1>6. CASE ActOnCancel(t)
  BY <1>0, <1>6 DEF ActOnCancel
<1>7. CASE Stray(t)
  BY <1>0, <1>7 DEF Stray
<1>8. QED
  BY <1>1, <1>2, <1>3, <1>4, <1>5, <1>6, <1>7 DEF Worker

(* Every variable keeps its C type in every run of the pool.                *)
THEOREM TypeCorrect == Spec => []TypeOK
<1>1. TypeOK /\ [Next]_vars => TypeOK'
  <2>1. ASSUME TypeOK, UNCHANGED vars
        PROVE  TypeOK'
    BY <2>1 DEF TypeOK, vars
  <2>2. QED
    BY <2>1, MainTyping, WorkerTyping DEF Next, Stopped
<1>2. QED
  BY <1>1, InitTyping, PTL DEF Spec

-----------------------------------------------------------------------------
(* The threads counted are workers of the dispatch (all threads, when the pool
   is destroyed), so the count never passes num_workers and reaches it only when
   every worker was counted.                                                 *)
LEMMA CountedBound ==
  ASSUME TypeOK, SteadyInv, Dispatching \/ Destroying
  PROVE  /\ IsFiniteSet(Counted)
         /\ Counted \subseteq 0 .. num_workers - 1
         /\ num_workers_done <= num_workers
         /\ num_workers_done = num_workers => Counted = 0 .. num_workers - 1
<1>1. Counted \subseteq 0 .. num_workers - 1
  <2>1. CASE Dispatching
    <3>1. num_workers \in Nat /\ Posted \in Int /\ Posted <= num_workers
      BY <2>1 DEF Dispatching, Posted, TypeOK
    <3>2. \A t \in Counted : t \in Nat /\ t < Posted
      BY <2>1 DEF Counted, Threads
    <3>3. QED
      BY <3>1, <3>2
  <2>2. CASE Destroying
    <3>1. num_workers = NumThreads
      BY <2>2 DEF SteadyInv, DestroyInv
    <3>2. ~Dispatching
      BY <2>2 DEF Dispatching, Destroying
    <3>3. QED
      BY <3>1, <3>2 DEF Counted, Threads
  <2>3. QED
    BY <2>1, <2>2
<1>2. IsFiniteSet(0 .. num_workers - 1) /\ Cardinality(0 .. num_workers - 1) = num_workers
  BY FS_Interval DEF TypeOK
<1>3. num_workers_done = Cardinality(Counted)
  BY DEF SteadyInv, TokenInv
<1>4. QED
  BY <1>1, <1>2, <1>3, FS_Subset

(* Counting one more thread.                                                 *)
LEMMA CountOneMore ==
  ASSUME TypeOK, SteadyInv, Dispatching \/ Destroying,
         NEW t \in 0 .. num_workers - 1, t \notin Counted
  PROVE  /\ Cardinality(Counted \cup {t}) = num_workers_done + 1
         /\ num_workers_done < num_workers
<1>1. IsFiniteSet(Counted) /\ num_workers_done = Cardinality(Counted)
  BY CountedBound DEF SteadyInv, TokenInv
<1>2. Cardinality(Counted \cup {t}) = Cardinality(Counted) + 1
  BY <1>1, FS_AddElement
<1>3. num_workers_done < num_workers
  BY CountedBound DEF TypeOK
<1>4. QED
  BY <1>1, <1>2, <1>3

-----------------------------------------------------------------------------
(* The inductive invariant holds of a new pool.                              *)
LEMMA InitInv == Init => SteadyInv
  BY DEF Init, SteadyInv, CreateInv, RestInv, DispatchInv, DestroyInv, TokenInv,
         LateInv, DataInv, Resting, Dispatching, Destroying, Comparing, AtRest,
         Threads

(* The steps of tpool_create.                                                *)
LEMMA CreateStep ==
  ASSUME TypeOK, TypeOK', SteadyInv, Create
  PROVE  SteadyInv'
<1>1. CASE CreateThread
  <2>1. /\ main = "create" /\ main' \in {"create", "idle"}
        /\ main' = "idle" => i + 1 = NumThreads
        /\ i \in Threads /\ pc \in [Threads -> Locations]
        /\ pc' = [pc EXCEPT ![i] = "wait"] /\ i' = i + 1
        /\ sem_run' = sem_run /\ peak' = peak /\ cancelled' = cancelled /\ die' = die /\ phase' = phase
        /\ sem_all_workers_done' = sem_all_workers_done
        /\ count' = count /\ count \in [Threads -> Nat]
    BY <1>1 DEF CreateThread, TypeOK
  <2>2. /\ sem_all_workers_done = 0 /\ peak = 0 /\ ~die
        /\ \A t \in Threads : /\ sem_run[t] = 0
                              /\ pc[t] = IF t < i THEN "wait" ELSE "absent"
    BY <2>1 DEF SteadyInv, CreateInv, DestroyInv
  <2>3. \A t \in Threads : pc'[t] = IF t < i + 1 THEN "wait" ELSE "absent"
    <3>1. \A t \in Threads : t < i + 1 <=> t < i \/ t = i
      BY <2>1 DEF Threads
    <3>2. QED
      BY <2>1, <2>2, <3>1
  <2>4. main' = "idle" => \A t \in Threads : pc'[t] = "wait"
    BY <2>1, <2>3 DEF Threads
  <2>5. ~Dispatching' /\ ~Destroying' /\ (Resting' <=> main' = "idle")
    BY <2>1 DEF Dispatching, Destroying, Resting, AtRest
  <2>6. CreateInv' /\ RestInv'
    BY <2>1, <2>2, <2>3, <2>4, <2>5 DEF SteadyInv, CreateInv, RestInv, NobodyWorks
  <2>7. DispatchInv' /\ DestroyInv' /\ TokenInv'
    BY <2>1, <2>2, <2>5 DEF DispatchInv, DestroyInv, TokenInv
  <2>8. LateInv'
    BY <2>1, <2>2, <2>3, <2>5 DEF LateInv, Comparing
  <2>9. phase = 0
    BY <2>1 DEF SteadyInv, DataInv
  <2>10. DataInv'
    BY <2>1, <2>5, <2>9 DEF DataInv
  <2>11. QED
    BY <2>6, <2>7, <2>8, <2>10 DEF SteadyInv
<1>2. CASE CreateFails
  BY <1>2 DEF CreateFails, SteadyInv, CreateInv, RestInv, DispatchInv, DestroyInv,
              TokenInv, LateInv, DataInv, Resting, Dispatching, Destroying, AtRest,
              Comparing
<1>3. CASE CancelThread
  BY <1>3 DEF CancelThread, SteadyInv, CreateInv, RestInv, DispatchInv, DestroyInv,
              TokenInv, LateInv, DataInv, Resting, Dispatching, Destroying, AtRest,
              Comparing
<1>4. QED
  BY <1>1, <1>2, <1>3 DEF Create

(* tpool_set: the client picks no fewer workers than before.                 *)
LEMMA SetStep ==
  ASSUME TypeOK, TypeOK', SteadyInv, NEW w \in 0 .. NumThreads, tpool_set(w), steady'
  PROVE  SteadyInv'
<1>1. /\ main = "idle" /\ main' = "args" /\ num_workers' = w
      /\ peak' = IF w > peak THEN w ELSE peak
      /\ peak \in Nat /\ w \in Nat
      /\ thread_func' = phase + 1 /\ phase' = phase + 1
      /\ pc' = pc /\ count' = count /\ sem_run' = sem_run /\ die' = die
      /\ cancelled' = cancelled
      /\ sem_all_workers_done' = sem_all_workers_done
  BY DEF tpool_set, TypeOK
<1>0. w = 0 \/ w >= peak
  BY Zenon DEF tpool_set
<1>2. /\ Resting /\ Resting' /\ ~Dispatching' /\ ~Destroying'
  BY <1>1 DEF Resting, Dispatching, Destroying, AtRest
<1>3. /\ CreateInv' /\ RestInv' /\ DispatchInv' /\ DestroyInv'
      /\ TokenInv' /\ DataInv'
  <2>1. CreateInv' /\ DispatchInv' /\ TokenInv'
    BY <1>1, <1>2 DEF SteadyInv, CreateInv, DispatchInv, TokenInv
  <2>5. DataInv'
    BY <1>1, <1>2 DEF DataInv
  <2>2. RestInv'
    BY <1>1, <1>2 DEF SteadyInv, RestInv, NobodyWorks
  <2>3. DestroyInv'
    BY <1>1, <1>2 DEF SteadyInv, DestroyInv, AtRest
  <2>4. QED
    BY <2>1, <2>2, <2>3, <2>5
<1>4. w \in {0, peak'} /\ peak' >= peak
  BY <1>0, <1>1
<1>5. count \in [Threads -> Nat]
  BY DEF TypeOK
<1>6. \A t \in Threads : pc[t] = "compare" => count[t] < peak'
  BY <1>1, <1>2, <1>4, <1>5 DEF SteadyInv, LateInv
<1>7. LateInv'
  BY <1>1, <1>2, <1>4, <1>6 DEF SteadyInv, LateInv, Comparing
<1>8. QED
  BY <1>3, <1>7 DEF SteadyInv

(* The steps of tpool_set's loop, tpool_begin, tpool_wait and the results.    *)
LEMMA DispatchStep ==
  ASSUME TypeOK, TypeOK', SteadyInv, steady, Dispatch
  PROVE  SteadyInv'
<1>1. CASE SetArgs
  <2>1. /\ main = "args" /\ main' = "begin" /\ phase' = phase
        /\ num_workers' = num_workers /\ thread_func' = thread_func
        /\ die' = die /\ peak' = peak /\ cancelled' = cancelled /\ pc' = pc /\ count' = count
        /\ sem_run' = sem_run /\ sem_all_workers_done' = sem_all_workers_done
        /\ \A t \in Threads : t < num_workers => args'[t] = phase
    BY <1>1 DEF SetArgs
  <2>2. Resting /\ Resting' /\ ~Dispatching' /\ ~Destroying'
    BY <2>1 DEF Resting, Dispatching, Destroying, AtRest
  <2>3. CreateInv' /\ RestInv' /\ DispatchInv' /\ TokenInv'
    BY <2>1, <2>2 DEF SteadyInv, CreateInv, RestInv, NobodyWorks, DispatchInv, TokenInv
  <2>4. LateInv' /\ DestroyInv'
    BY <2>1, <2>2 DEF SteadyInv, LateInv, DestroyInv, AtRest, Comparing
  <2>5. DataInv'
    BY <2>1, <2>2 DEF SteadyInv, DataInv
  <2>6. QED
    BY <2>3, <2>4, <2>5 DEF SteadyInv
<1>2. CASE tpool_begin
  <2>1. /\ main = "begin" /\ phase' = phase /\ num_workers' = num_workers
        /\ thread_func' = thread_func /\ args' = args /\ die' = die
        /\ peak' = peak /\ cancelled' = cancelled /\ pc' = pc /\ count' = count /\ ret' = ret
        /\ sem_run' = sem_run /\ sem_all_workers_done' = sem_all_workers_done
    BY <1>2 DEF tpool_begin
  <2>2. Resting /\ num_workers \in {0, peak} /\ ~die
    BY <2>1 DEF Resting, AtRest, SteadyInv, LateInv, DestroyInv
  <2>3. CASE num_workers = 0
    <3>1. main' = "wait" /\ Resting' /\ ~Dispatching' /\ ~Destroying'
      BY <1>2, <2>1, <2>3 DEF tpool_begin, Resting, Dispatching, Destroying, AtRest
    <3>2. CreateInv' /\ RestInv' /\ DispatchInv' /\ TokenInv'
      BY <2>1, <2>2, <3>1
      DEF SteadyInv, CreateInv, RestInv, NobodyWorks, DispatchInv, TokenInv
    <3>3. LateInv' /\ DestroyInv'
      BY <2>1, <2>2, <3>1 DEF SteadyInv, LateInv, DestroyInv, AtRest, Comparing
    <3>4. DataInv'
      BY <2>1, <3>1 DEF SteadyInv, DataInv
    <3>5. QED
      BY <3>2, <3>3, <3>4 DEF SteadyInv
  <2>4. CASE num_workers # 0
    <3>1. /\ main' = "post" /\ i' = 0 /\ num_workers_done' = 0
          /\ Dispatching' /\ ~Resting' /\ ~Destroying' /\ Posted' = 0
      BY <1>2, <2>1, <2>4
      DEF tpool_begin, DoneAtBegin, Resting, Dispatching, Destroying, AtRest, Posted
    <3>2. /\ NobodyWorks /\ sem_all_workers_done = 0
          /\ \A t \in Threads : pc[t] = "compare" => count[t] < peak
          /\ \A t \in Threads : Comparing(t) => count[t] > 0
          /\ count \in [Threads -> Nat] /\ num_workers \in Nat
      BY <2>2 DEF SteadyInv, RestInv, LateInv, TypeOK
    <3>3. Counted' = {}
      BY <3>1 DEF Counted, Threads
    <3>4. num_workers_done' = Cardinality(Counted')
      BY <3>1, <3>3, FS_EmptySet
    <3>5. \A t \in Threads : Comparing(t) => pc[t] = "compare" /\ count[t] < num_workers
      BY <2>2, <2>4, <3>2 DEF Comparing, NobodyWorks
    <3>6. CreateInv' /\ RestInv' /\ DispatchInv' /\ DestroyInv'
      BY <2>1, <2>2, <2>4, <3>1, <3>2
      DEF SteadyInv, CreateInv, RestInv, DispatchInv, DestroyInv, NobodyWorks
    <3>7. TokenInv' /\ LateInv'
      BY <2>1, <3>1, <3>2, <3>4, <3>5 DEF TokenInv, LateInv, Comparing
    <3>8. DataInv'
      BY <2>1, <3>1, <3>2, <3>3 DEF SteadyInv, DataInv, NobodyWorks
    <3>9. QED
      BY <3>6, <3>7, <3>8 DEF SteadyInv
  <2>5. QED
    BY <2>3, <2>4
<1>3. CASE BeginPost
  <2>1. /\ main = "post" /\ phase' = phase /\ num_workers' = num_workers
        /\ thread_func' = thread_func /\ args' = args /\ die' = die /\ i' = i + 1
        /\ peak' = peak /\ cancelled' = cancelled /\ pc' = pc /\ count' = count /\ ret' = ret /\ job' = job
        /\ num_workers_done' = num_workers_done
        /\ sem_all_workers_done' = sem_all_workers_done
        /\ i \in Threads /\ i < num_workers /\ num_workers \in Nat
        /\ sem_run \in [Threads -> Nat]
        /\ sem_run' = [sem_run EXCEPT ![i] = @ + 1]
        /\ main' = IF i + 1 < num_workers THEN "post" ELSE "wait"
    BY <1>3 DEF BeginPost, MorePosts, TypeOK
  <2>2. i \in Nat /\ num_workers # 0
    BY <2>1 DEF Threads
  <2>3. /\ Dispatching /\ Posted = i /\ Posted' = i + 1
        /\ Dispatching' /\ ~Resting' /\ ~Destroying'
    BY <2>1, <2>2 DEF Dispatching, Resting, Destroying, AtRest, Posted
  <2>4. \A t \in Threads : /\ t < i + 1 <=> t < i \/ t = i
                           /\ ~(i < i)
    BY <2>2 DEF Threads
  <2>5. sem_run[i] = 0 /\ pc[i] \in {"wait", "compare"}
    BY <2>1, <2>3, <2>4 DEF SteadyInv, DispatchInv
  <2>6. \A t \in Threads : sem_run'[t] = IF t = i THEN 1 ELSE sem_run[t]
    BY <2>1, <2>5
  <2>7. Counted' = Counted
    BY <2>1, <2>3, <2>4, <2>6 DEF Counted
  <2>8. DispatchInv'
    BY <2>1, <2>3, <2>4, <2>5, <2>6 DEF SteadyInv, DispatchInv
  <2>9. CreateInv' /\ RestInv' /\ DestroyInv'
    BY <2>1, <2>3 DEF SteadyInv, CreateInv, RestInv, DestroyInv, Dispatching
  <2>10. TokenInv' /\ LateInv'
    BY <2>1, <2>3, <2>7 DEF SteadyInv, TokenInv, LateInv, Comparing
  <2>11. DataInv'
    BY <2>1, <2>3, <2>7 DEF SteadyInv, DataInv, Dispatching
  <2>12. QED
    BY <2>8, <2>9, <2>10, <2>11 DEF SteadyInv
<1>4. CASE tpool_wait
  <2>1. /\ main = "wait" /\ main' = "joined" /\ phase' = phase
        /\ num_workers' = num_workers /\ die' = die /\ peak' = peak /\ cancelled' = cancelled
        /\ pc' = pc /\ count' = count /\ ret' = ret /\ sem_run' = sem_run
    BY <1>4 DEF tpool_wait
  <2>2. Resting' /\ ~Dispatching' /\ ~Destroying'
    BY <2>1 DEF Resting, Dispatching, Destroying, AtRest
  <2>3. /\ NobodyWorks /\ sem_all_workers_done' = 0 /\ num_workers \in {0, peak}
        /\ \A t \in Threads : pc[t] = "compare" => count[t] < peak
        /\ \A t \in Threads : t < num_workers => ret[t] = phase
    <3>1. CASE num_workers = 0
      <4>1. Resting /\ sem_all_workers_done' = sem_all_workers_done
        BY <1>4, <2>1, <3>1 DEF tpool_wait, Resting
      <4>2. \A t \in Threads : ~(t < num_workers)
        BY <3>1 DEF Threads
      <4>3. QED
        BY <2>1, <3>1, <4>1, <4>2 DEF SteadyInv, RestInv, LateInv
    <3>2. CASE num_workers # 0
      <4>1. /\ Dispatching /\ ~Destroying /\ Posted = num_workers
            /\ sem_all_workers_done > 0
            /\ sem_all_workers_done' = sem_all_workers_done - 1
        BY <1>4, <2>1, <3>2 DEF tpool_wait, Dispatching, Destroying, Posted
      <4>2. /\ sem_all_workers_done = 1
            /\ ~(num_workers_done < num_workers)
            /\ num_workers_done = num_workers
            /\ \A t \in Threads : Comparing(t) => count[t] # num_workers
        <5>1. sem_all_workers_done \in {0, 1} /\ ~(num_workers_done < num_workers)
          BY <4>1 DEF SteadyInv, TokenInv
        <5>2. num_workers_done <= num_workers
          BY <4>1, CountedBound
        <5>3. num_workers_done = num_workers /\ sem_all_workers_done = 1
          BY <4>1, <5>1, <5>2 DEF TypeOK
        <5>4. QED
          BY <4>1, <5>1, <5>3 DEF SteadyInv, TokenInv
      <4>3. Counted = 0 .. num_workers - 1
        BY <4>1, <4>2, CountedBound
      <4>4. \A t \in Threads : t < num_workers <=> t \in Counted
        <5>1. num_workers \in Nat /\ \A t \in Threads : t \in Nat
          BY DEF Threads, TypeOK
        <5>2. QED
          BY <4>3, <5>1
      <4>5. NobodyWorks
        BY <4>1, <4>4 DEF SteadyInv, DispatchInv, Counted, NobodyWorks
      <4>6. num_workers = peak
        BY <4>1 DEF SteadyInv, DispatchInv
      <4>7. \A t \in Threads : pc[t] = "compare" => count[t] < peak
        <5>1. \A t \in Threads : count[t] \in Nat /\ num_workers \in Nat
          BY DEF TypeOK
        <5>2. \A t \in Threads :
                pc[t] = "compare" => count[t] <= num_workers /\ count[t] # num_workers
          BY <4>1, <4>2 DEF SteadyInv, LateInv, Comparing
        <5>3. QED
          BY <4>6, <5>1, <5>2
      <4>8. \A t \in Threads : t < num_workers => ret[t] = phase
        BY <4>1, <4>4 DEF SteadyInv, DataInv
      <4>9. QED
        BY <4>1, <4>2, <4>5, <4>6, <4>7, <4>8
    <3>3. QED
      BY <3>1, <3>2
  <2>4. CreateInv' /\ RestInv' /\ DispatchInv' /\ TokenInv'
    BY <2>1, <2>2, <2>3
    DEF SteadyInv, CreateInv, RestInv, NobodyWorks, DispatchInv, TokenInv
  <2>5. LateInv' /\ DestroyInv'
    BY <2>1, <2>2, <2>3 DEF SteadyInv, LateInv, DestroyInv, Comparing
  <2>6. DataInv'
    BY <2>1, <2>2, <2>3 DEF DataInv
  <2>7. QED
    BY <2>4, <2>5, <2>6 DEF SteadyInv
<1>5. CASE tpool_get_results
  <2>1. /\ main = "joined" /\ main' = "idle" /\ phase' = phase
        /\ num_workers' = num_workers /\ die' = die /\ peak' = peak /\ cancelled' = cancelled
        /\ pc' = pc /\ count' = count /\ ret' = ret /\ sem_run' = sem_run
        /\ sem_all_workers_done' = sem_all_workers_done /\ rets' = ret
    BY <1>5 DEF tpool_get_results
  <2>2. Resting /\ Resting' /\ ~Dispatching' /\ ~Destroying'
    BY <2>1 DEF Resting, Dispatching, Destroying, AtRest
  <2>3. CreateInv' /\ RestInv' /\ DispatchInv' /\ TokenInv'
    BY <2>1, <2>2 DEF SteadyInv, CreateInv, RestInv, NobodyWorks, DispatchInv, TokenInv
  <2>4. LateInv' /\ DestroyInv'
    BY <2>1, <2>2 DEF SteadyInv, LateInv, DestroyInv, AtRest, Comparing
  <2>5. DataInv'
    BY <2>1, <2>2 DEF SteadyInv, DataInv
  <2>6. QED
    BY <2>3, <2>4, <2>5 DEF SteadyInv
<1>6. QED
  BY <1>1, <1>2, <1>3, <1>4, <1>5 DEF Dispatch

(* The steps of tpool_destroy.                                               *)
LEMMA DestroyStep ==
  ASSUME TypeOK, TypeOK', SteadyInv, Destroy
  PROVE  SteadyInv'
<1>1. CASE tpool_destroy
  <2>1. /\ main = "idle" /\ main' = "kill" /\ i' = 0 /\ num_workers_done' = 0
        /\ num_workers' = NumThreads /\ die' = die /\ peak' = peak
        /\ pc' = pc /\ count' = count /\ sem_run' = sem_run /\ cancelled' = cancelled
        /\ sem_all_workers_done' = sem_all_workers_done
    BY <1>1 DEF tpool_destroy, WorkersAtDestroy, DoneAtDestroy
  <2>2. /\ Resting /\ ~Resting' /\ ~Dispatching' /\ Destroying' /\ Posted' = 0
    BY <2>1 DEF Resting, Dispatching, Destroying, AtRest, Posted
  <2>3. /\ NobodyWorks /\ sem_all_workers_done = 0 /\ ~die /\ cancelled = {}
        /\ \A t \in Threads : pc[t] = "compare" => count[t] < peak
        /\ \A t \in Threads : Comparing(t) => count[t] > 0
    BY <2>1, <2>2 DEF SteadyInv, RestInv, LateInv, DestroyInv, CreateInv, AtRest
  <2>4. /\ \A t \in Threads : t >= 0
        /\ \A t \in Threads : count[t] \in Nat
    <3>1. \A t \in Threads : t >= 0
      BY DEF Threads
    <3>2. \A t \in Threads : count[t] \in Nat
      BY DEF TypeOK
    <3>3. QED
      BY <3>1, <3>2
  <2>5. peak \in Nat /\ peak <= NumThreads
    BY DEF TypeOK
  <2>6. \A t \in Threads : Comparing(t) => count[t] # NumThreads
    BY <2>3, <2>4, <2>5 DEF Comparing, NobodyWorks
  <2>7. Counted' = {}
    BY <2>1, <2>2, <2>3 DEF Counted, NobodyWorks
  <2>8. num_workers_done' = Cardinality(Counted')
    BY <2>1, <2>7, FS_EmptySet
  <2>9. CreateInv' /\ RestInv' /\ DispatchInv'
    BY <2>1, <2>2, <2>3 DEF CreateInv, RestInv, DispatchInv
  <2>10. DestroyInv'
    BY <2>1, <2>2, <2>3, <2>4 DEF DestroyInv, NobodyWorks, AtRest
  <2>11. TokenInv' /\ LateInv'
    BY <2>1, <2>2, <2>3, <2>6, <2>8 DEF TokenInv, LateInv, Comparing
  <2>12. DataInv'
    BY <2>1, <2>2 DEF DataInv
  <2>13. QED
    BY <2>9, <2>10, <2>11, <2>12 DEF SteadyInv
<1>2. CASE KillThread
  <2>1. /\ main = "kill" /\ i' = i + 1 /\ i \in Threads /\ die'
        /\ num_workers' = num_workers /\ peak' = peak /\ pc' = pc /\ count' = count
        /\ num_workers_done' = num_workers_done /\ cancelled' = cancelled
        /\ sem_all_workers_done' = sem_all_workers_done
        /\ sem_run \in [Threads -> Nat]
        /\ sem_run' = [sem_run EXCEPT ![i] = @ + 1]
        /\ main' = IF i + 1 < NumThreads THEN "kill" ELSE "await"
    BY <1>2 DEF KillThread, TypeOK
  <2>2. i \in Nat /\ i < NumThreads
    BY <2>1 DEF Threads
  <2>3. /\ Destroying /\ Destroying' /\ ~Resting' /\ ~Dispatching /\ ~Dispatching'
    BY <2>1 DEF Resting, Dispatching, Destroying, AtRest
  <2>4. num_workers = NumThreads /\ cancelled = {}
    BY <2>1, <2>3 DEF SteadyInv, DestroyInv, CreateInv
  <2>5. Posted = i /\ Posted' = i + 1
    BY <2>1, <2>2, <2>4 DEF Posted
  <2>6. \A t \in Threads : /\ t < i + 1 <=> t < i \/ t = i
                           /\ t >= i + 1 <=> t >= i /\ t # i
                           /\ ~(i < i)
    BY <2>2 DEF Threads
  <2>7. sem_run[i] = 0 /\ pc[i] \in {"wait", "compare"}
    BY <2>1, <2>3, <2>5, <2>6 DEF SteadyInv, DestroyInv
  <2>8. \A t \in Threads : sem_run'[t] = IF t = i THEN 1 ELSE sem_run[t]
    BY <2>1, <2>7
  <2>9. Counted' = Counted
    BY <2>1, <2>3 DEF Counted
  <2>10. CreateInv' /\ RestInv' /\ DispatchInv'
    BY <2>1, <2>3, <2>4 DEF CreateInv, RestInv, DispatchInv
  <2>11. /\ main' \in {"kill", "await"} /\ i' > 0
    BY <2>1, <2>2
  <2>12. DestroyInv'
    BY <2>1, <2>3, <2>4, <2>5, <2>6, <2>7, <2>8, <2>11 DEF SteadyInv, DestroyInv, AtRest
  <2>13. TokenInv' /\ LateInv'
    BY <2>1, <2>3, <2>9 DEF SteadyInv, TokenInv, LateInv, Comparing
  <2>14. DataInv'
    BY <2>3, <2>11 DEF DataInv
  <2>15. QED
    BY <2>10, <2>12, <2>13, <2>14 DEF SteadyInv
<1>3. CASE DestroyWait
  <2>1. /\ main = "await" /\ main' = "destroyed" /\ num_workers' = num_workers
        /\ pc' = pc /\ count' = count /\ cancelled' = cancelled
        /\ sem_all_workers_done > 0
    BY <1>3 DEF DestroyWait
  <2>2. /\ Destroying /\ ~Dispatching /\ ~Resting'
        /\ ~Dispatching' /\ ~Destroying'
    BY <2>1 DEF Resting, Dispatching, Destroying, AtRest
  <2>3. num_workers = NumThreads /\ cancelled = {}
    BY <2>1, <2>2 DEF SteadyInv, DestroyInv, CreateInv
  <2>4. num_workers_done = num_workers
    <3>1. ~(num_workers_done < num_workers)
      BY <2>1, <2>2 DEF SteadyInv, TokenInv
    <3>2. num_workers_done <= num_workers
      BY <2>2, CountedBound
    <3>3. QED
      BY <3>1, <3>2 DEF TypeOK
  <2>5. Counted = Threads
    BY <2>2, <2>3, <2>4, CountedBound DEF Threads
  <2>6. \A t \in Threads : pc[t] \in {"lastcompare", "exit"}
    BY <2>2, <2>5 DEF Counted
  <2>7. CreateInv' /\ RestInv' /\ DispatchInv' /\ TokenInv' /\ DataInv'
    BY <2>1, <2>2, <2>3 DEF CreateInv, RestInv, DispatchInv, TokenInv, DataInv
  <2>8. DestroyInv' /\ LateInv'
    BY <2>1, <2>2, <2>6 DEF SteadyInv, DestroyInv, LateInv, AtRest, Comparing
  <2>9. QED
    BY <2>7, <2>8 DEF SteadyInv
<1>4. QED
  BY <1>1, <1>2, <1>3 DEF Destroy

-----------------------------------------------------------------------------
(* A thread's step leaves the client alone, so the client stays in its region. *)
Frame == /\ main' = main /\ i' = i /\ num_workers' = num_workers /\ die' = die
         /\ peak' = peak /\ phase' = phase /\ thread_func' = thread_func
         /\ args' = args /\ cancelled' = cancelled /\ rets' = rets

LEMMA FrameRegions ==
  ASSUME Frame
  PROVE  /\ Resting' <=> Resting
         /\ Dispatching' <=> Dispatching
         /\ Destroying' <=> Destroying
         /\ Posted' = Posted
  BY DEF Frame, Resting, Dispatching, Destroying, Posted, AtRest

(* Where a thread can be woken, or be inside a dispatch.                      *)
LEMMA WokenRegion ==
  ASSUME TypeOK, SteadyInv, ~released, NEW t \in Threads,
         sem_run[t] > 0 \/ pc[t] \in {"fetch", "run", "inc", "leave"}
  PROVE  /\ t < Posted
         /\ Dispatching \/ Destroying
         /\ pc[t] \in {"run", "inc"} => Dispatching
         /\ pc[t] = "leave" => Destroying
<1>1. main \notin {"create", "cancel", "failed", "destroyed"}
  BY DEF SteadyInv, CreateInv, released
<1>2. ~Resting
  BY DEF SteadyInv, RestInv, NobodyWorks
<1>3. Dispatching \/ Destroying
  BY <1>1, <1>2 DEF Dispatching, Destroying, Resting, AtRest, TypeOK, MainLocations
<1>4. CASE Dispatching
  BY <1>4 DEF SteadyInv, DispatchInv
<1>5. CASE Destroying
  BY <1>5 DEF SteadyInv, DestroyInv
<1>6. QED
  BY <1>3, <1>4, <1>5

(* sem_wait(sem_run) and what the thread reads before its job.                *)
LEMMA WakeStep ==
  ASSUME TypeOK, TypeOK', SteadyInv, NEW t \in Threads, SemWaitRun(t) \/ Fetch(t)
  PROVE  SteadyInv'
<1>1. /\ Frame /\ ~released /\ count' = count /\ ret' = ret
      /\ num_workers_done' = num_workers_done
      /\ sem_all_workers_done' = sem_all_workers_done
      /\ pc \in [Threads -> Locations] /\ sem_run \in [Threads -> Nat]
  BY DEF SemWaitRun, Fetch, Frame, TypeOK
<1>2. /\ Resting' <=> Resting
      /\ Dispatching' <=> Dispatching
      /\ Destroying' <=> Destroying
      /\ Posted' = Posted
  BY <1>1, FrameRegions
<1>3. sem_run[t] > 0 \/ pc[t] = "fetch"
  BY DEF SemWaitRun, Fetch
<1>4. t < Posted /\ (Dispatching \/ Destroying) /\ ~Resting
      /\ main \notin {"create", "cancel", "failed", "destroyed"}
  <2>1. t < Posted /\ (Dispatching \/ Destroying)
    BY <1>1, <1>3, WokenRegion
  <2>2. QED
    BY <2>1 DEF Dispatching, Destroying, Resting, AtRest
<1>5. pc'[t] \in {"fetch", "run", "leave"} /\ sem_run'[t] = 0
      /\ (pc'[t] = "run" => ~die /\ job'[t] = <<thread_func, args[t]>>)
      /\ (pc'[t] = "leave" => die)
      /\ (sem_run[t] = 1 \/ pc[t] = "fetch")
  <2>1. sem_run[t] > 0 => sem_run[t] = 1 /\ pc[t] \in {"wait", "compare"}
    BY <1>4 DEF SteadyInv, DispatchInv, DestroyInv
  <2>2. pc[t] = "fetch" => sem_run[t] = 0
    BY <1>4 DEF SteadyInv, DispatchInv, DestroyInv
  <2>3. CASE SemWaitRun(t)
    BY <1>1, <2>1, <2>3 DEF SemWaitRun, Goto
  <2>4. CASE Fetch(t)
    BY <1>1, <2>2, <2>4 DEF Fetch, Goto, TypeOK
  <2>5. QED
    BY <2>3, <2>4
<1>6. \A u \in Threads : u # t => /\ pc'[u] = pc[u] /\ sem_run'[u] = sem_run[u]
                                 /\ job'[u] = job[u]
  BY <1>1 DEF SemWaitRun, Fetch, Goto, TypeOK
<1>7. Counted' = Counted
  <2>1. t \notin Counted /\ t \notin Counted'
    BY <1>2, <1>4, <1>5 DEF Counted, SteadyInv, DestroyInv
  <2>2. \A u \in Threads : u # t => (u \in Counted' <=> u \in Counted)
    BY <1>2, <1>6 DEF Counted
  <2>3. Counted \subseteq Threads /\ Counted' \subseteq Threads
    BY DEF Counted
  <2>4. QED
    BY <2>1, <2>2, <2>3
<1>8. CreateInv' /\ RestInv'
  BY <1>1, <1>2, <1>4 DEF Frame, SteadyInv, CreateInv, RestInv
<1>9. DispatchInv'
  <2>1. Dispatching => ~die
    BY DEF SteadyInv, DestroyInv, Dispatching
  <2>2. QED
    BY <1>1, <1>2, <1>4, <1>5, <1>6, <2>1 DEF Frame, SteadyInv, DispatchInv
<1>10. DestroyInv'
  <2>1. Destroying => die
    <3>1. CASE main = "kill"
      BY <1>4, <3>1 DEF SteadyInv, DestroyInv, Posted, Threads, TypeOK
    <3>2. CASE main = "await"
      BY <3>2 DEF SteadyInv, DestroyInv
    <3>3. QED
      BY <3>1, <3>2 DEF Destroying
  <2>2. QED
    BY <1>1, <1>2, <1>4, <1>5, <1>6, <2>1 DEF Frame, SteadyInv, DestroyInv
<1>11. TokenInv' /\ LateInv'
  <2>1. \A u \in Threads : Comparing(u)' => Comparing(u) /\ count'[u] = count[u]
    BY <1>1, <1>5, <1>6 DEF Comparing
  <2>2. QED
    BY <1>1, <1>2, <1>4, <1>7, <2>1 DEF Frame, SteadyInv, TokenInv, LateInv
<1>12. DataInv'
  <2>1. Dispatching /\ pc'[t] = "run" => job'[t] = <<phase, phase>>
    <3>1. Dispatching => /\ main \in {"post", "wait"} /\ Posted <= num_workers
                         /\ Posted \in Int /\ num_workers \in Int
      BY DEF Dispatching, Posted, TypeOK
    <3>2. Dispatching => t < num_workers
      BY <1>4, <3>1 DEF Threads
    <3>3. QED
      BY <1>5, <3>1, <3>2 DEF SteadyInv, DataInv
  <2>2. QED
    BY <1>1, <1>2, <1>5, <1>6, <1>7, <2>1 DEF Frame, SteadyInv, DataInv
<1>13. QED
  BY <1>8, <1>9, <1>10, <1>11, <1>12 DEF SteadyInv

(* The job's result is stored.                                               *)
LEMMA RunStep ==
  ASSUME TypeOK, TypeOK', SteadyInv, NEW t \in Threads, Run(t)
  PROVE  SteadyInv'
<1>1. /\ Frame /\ ~released /\ count' = count /\ job' = job /\ sem_run' = sem_run
      /\ num_workers_done' = num_workers_done
      /\ sem_all_workers_done' = sem_all_workers_done
      /\ pc[t] = "run" /\ pc'[t] = "inc" /\ ret'[t] = job[t][2]
      /\ \A u \in Threads : u # t => pc'[u] = pc[u] /\ ret'[u] = ret[u]
  BY DEF Run, Goto, Frame, TypeOK
<1>2. /\ Resting' <=> Resting
      /\ Dispatching' <=> Dispatching
      /\ Destroying' <=> Destroying
      /\ Posted' = Posted
  BY <1>1, FrameRegions
<1>3. t < Posted /\ Dispatching /\ ~Resting /\ ~Destroying
      /\ main \in {"post", "wait"}
  <2>1. t < Posted /\ Dispatching
    BY <1>1, WokenRegion
  <2>2. QED
    BY <2>1 DEF Dispatching, Destroying, Resting, AtRest
<1>4. sem_run[t] = 0 /\ t \notin Counted /\ t \notin Counted'
  BY <1>1, <1>2, <1>3 DEF SteadyInv, DispatchInv, Counted
<1>5. Counted' = Counted
  <2>1. \A u \in Threads : u # t => (u \in Counted' <=> u \in Counted)
    BY <1>1, <1>2 DEF Counted
  <2>2. Counted \subseteq Threads /\ Counted' \subseteq Threads
    BY DEF Counted
  <2>3. QED
    BY <1>4, <2>1, <2>2
<1>6. CreateInv' /\ RestInv' /\ DestroyInv'
  BY <1>1, <1>2, <1>3 DEF Frame, SteadyInv, CreateInv, RestInv, DestroyInv
<1>7. DispatchInv'
  BY <1>1, <1>2, <1>3, <1>4 DEF Frame, SteadyInv, DispatchInv
<1>8. TokenInv' /\ LateInv'
  <2>1. \A u \in Threads : Comparing(u)' => Comparing(u)
    BY <1>1 DEF Comparing
  <2>2. QED
    BY <1>1, <1>2, <1>3, <1>5, <2>1 DEF Frame, SteadyInv, TokenInv, LateInv
<1>9. DataInv'
  <2>1. job[t] = <<phase, phase>>
    BY <1>1, <1>3 DEF SteadyInv, DataInv
  <2>2. ret'[t] = phase
    BY <1>1, <2>1
  <2>3. main' = main /\ phase' = phase /\ num_workers' = num_workers
        /\ thread_func' = thread_func /\ args' = args
    BY <1>1 DEF Frame
  <2>4. \A u \in Threads : /\ pc'[u] \in {"run", "inc"} => job'[u] = <<phase, phase>>
                           /\ pc'[u] = "inc" => ret'[u] = phase
    BY <1>1, <1>3, <2>1, <2>2 DEF SteadyInv, DataInv
  <2>5. \A u \in Counted : ret'[u] = phase
    BY <1>1, <1>3, <1>4 DEF SteadyInv, DataInv, Counted
  <2>6. QED
    BY <1>2, <1>3, <1>5, <2>3, <2>4, <2>5 DEF SteadyInv, DataInv
<1>10. QED
  BY <1>6, <1>7, <1>8, <1>9 DEF SteadyInv

(* fetch_and_inc: the thread is counted, and only the last one gets the number
   of workers.                                                                *)
LEMMA IncStep ==
  ASSUME TypeOK, TypeOK', SteadyInv, NEW t \in Threads, FetchAndInc(t)
  PROVE  SteadyInv'
<1>1. /\ Frame /\ ~released /\ job' = job /\ sem_run' = sem_run /\ ret' = ret
      /\ num_workers_done' = num_workers_done + 1
      /\ sem_all_workers_done' = sem_all_workers_done
      /\ count'[t] = num_workers_done + 1
      /\ pc[t] = "inc" => pc'[t] = "compare"
      /\ pc[t] = "leave" => pc'[t] = "lastcompare"
      /\ pc[t] \in {"inc", "leave"}
      /\ \A u \in Threads : u # t => pc'[u] = pc[u] /\ count'[u] = count[u]
  BY DEF FetchAndInc, Goto, Frame, TypeOK
<1>2. /\ Resting' <=> Resting
      /\ Dispatching' <=> Dispatching
      /\ Destroying' <=> Destroying
      /\ Posted' = Posted
  BY <1>1, FrameRegions
<1>3. /\ Dispatching \/ Destroying
      /\ pc[t] = "inc" => Dispatching
      /\ pc[t] = "leave" => Destroying
      /\ sem_run[t] = 0
  <2>1. /\ t < Posted /\ (Dispatching \/ Destroying)
        /\ pc[t] = "inc" => Dispatching
        /\ pc[t] = "leave" => Destroying
    BY <1>1, WokenRegion
  <2>2. sem_run[t] = 0
    BY <1>1, <2>1 DEF SteadyInv, DispatchInv, DestroyInv
  <2>3. QED
    BY <2>1, <2>2
<1>4. /\ ~Resting /\ main \notin {"create", "cancel", "failed", "destroyed"}
      /\ ~(Dispatching /\ Destroying)
  BY <1>3 DEF Dispatching, Destroying, Resting, AtRest
<1>5. t < Posted
  BY <1>1, WokenRegion
<1>6. t \notin Counted /\ t \in Counted'
  BY <1>1, <1>2, <1>3, <1>4, <1>5 DEF Counted
<1>7. Counted' = Counted \cup {t}
  <2>1. \A u \in Threads : u # t => (u \in Counted' <=> u \in Counted)
    BY <1>1, <1>2 DEF Counted
  <2>2. Counted \subseteq Threads /\ Counted' \subseteq Threads
    BY DEF Counted
  <2>3. QED
    BY <1>6, <2>1, <2>2
<1>8. t \in 0 .. num_workers - 1
  <2>1. CASE Dispatching
    <3>1. /\ Posted <= num_workers /\ Posted \in Int
          /\ num_workers \in Nat /\ t \in Nat
      BY <2>1 DEF Dispatching, Posted, Threads, TypeOK
    <3>2. QED
      BY <1>5, <3>1
  <2>2. CASE Destroying
    BY <2>2 DEF SteadyInv, DestroyInv, Threads
  <2>3. QED
    BY <1>3, <2>1, <2>2
<1>9. Cardinality(Counted') = num_workers_done' /\ num_workers_done < num_workers
  BY <1>1, <1>3, <1>6, <1>7, <1>8, CountOneMore
<1>10. CreateInv' /\ RestInv'
  BY <1>1, <1>2, <1>4 DEF Frame, SteadyInv, CreateInv, RestInv
<1>11. DispatchInv'
  BY <1>1, <1>2, <1>3, <1>4, <1>5 DEF Frame, SteadyInv, DispatchInv
<1>12. DestroyInv'
  BY <1>1, <1>2, <1>3, <1>4, <1>5 DEF Frame, SteadyInv, DestroyInv
<1>13. num_workers \in Nat /\ num_workers_done \in Nat
  BY DEF TypeOK
<1>14. TokenInv'
  <2>1. /\ sem_all_workers_done = 0
        /\ \A u \in Threads : Comparing(u) => count[u] # num_workers
    BY <1>3, <1>9, <1>13 DEF SteadyInv, TokenInv
  <2>2. \A u \in Threads : u # t => (Comparing(u)' <=> Comparing(u))
    BY <1>1 DEF Comparing
  <2>3. num_workers' = num_workers
    BY <1>1 DEF Frame
  <2>4. \A u \in Threads : Comparing(u)' /\ count'[u] = num_workers => u = t
    BY <1>1, <2>1, <2>2
  <2>5. QED
    BY <1>1, <1>9, <1>13, <2>1, <2>3, <2>4 DEF TokenInv
<1>15. LateInv'
  <2>1. \A u \in Threads : u # t => (Comparing(u)' <=> Comparing(u))
    BY <1>1 DEF Comparing
  <2>2. count'[t] > 0 /\ count'[t] <= num_workers
    BY <1>1, <1>9, <1>13
  <2>3. QED
    BY <1>1, <1>2, <1>4, <2>1, <2>2 DEF Frame, SteadyInv, LateInv
<1>16. DataInv'
  <2>1. Dispatching => ret[t] = phase
    BY <1>1, <1>3, <1>4 DEF SteadyInv, DataInv
  <2>2. QED
    BY <1>1, <1>2, <1>4, <1>7, <2>1 DEF Frame, SteadyInv, DataInv
<1>17. QED
  BY <1>10, <1>11, <1>12, <1>14, <1>15, <1>16 DEF SteadyInv

(* The comparison with num_workers: at rest it fails, in a dispatch one thread's
   comparison succeeds, once.                                                 *)
LEMMA CompareStep ==
  ASSUME TypeOK, TypeOK', SteadyInv, NEW t \in Threads, Compare(t)
  PROVE  SteadyInv'
<1>1. /\ Frame /\ ~released /\ job' = job /\ sem_run' = sem_run /\ ret' = ret
      /\ count' = count /\ num_workers_done' = num_workers_done
      /\ count[t] = num_workers =>
           sem_all_workers_done' = sem_all_workers_done + 1
      /\ count[t] # num_workers => sem_all_workers_done' = sem_all_workers_done
      /\ pc[t] = "compare" => pc'[t] = "wait"
      /\ pc[t] = "lastcompare" => pc'[t] = "exit"
      /\ pc[t] \in {"compare", "lastcompare"}
      /\ \A u \in Threads : u # t => pc'[u] = pc[u]
  BY DEF Compare, LastOne, Goto, Frame, TypeOK
<1>2. /\ Resting' <=> Resting
      /\ Dispatching' <=> Dispatching
      /\ Destroying' <=> Destroying
      /\ Posted' = Posted
  BY <1>1, FrameRegions
<1>3. main \notin {"create", "cancel", "failed", "destroyed"}
  BY <1>1 DEF SteadyInv, CreateInv, released
<1>4. Resting \/ Dispatching \/ Destroying
  BY <1>3 DEF Resting, Dispatching, Destroying, AtRest, TypeOK, MainLocations
<1>5. /\ count[t] \in Nat /\ num_workers \in Nat /\ peak \in Nat
      /\ num_workers_done \in Nat /\ sem_all_workers_done \in Nat
  BY DEF TypeOK
<1>6. Comparing(t) /\ ~Comparing(t)'
  BY <1>1 DEF Comparing
<1>7. \A u \in Threads : Comparing(u)' => Comparing(u) /\ u # t
  BY <1>1, <1>6 DEF Comparing
<1>8. Resting => count[t] # num_workers
  <2>1. Resting => pc[t] = "compare"
    BY <1>1 DEF SteadyInv, RestInv, NobodyWorks
  <2>2. count[t] > 0
    BY <1>6 DEF SteadyInv, LateInv
  <2>3. QED
    BY <1>5, <2>1, <2>2 DEF SteadyInv, LateInv
<1>9. Counted' = Counted
  <2>1. t \in Counted' <=> t \in Counted
    BY <1>1, <1>2 DEF Counted
  <2>2. \A u \in Threads : u # t => (u \in Counted' <=> u \in Counted)
    BY <1>1, <1>2 DEF Counted
  <2>3. Counted \subseteq Threads /\ Counted' \subseteq Threads
    BY DEF Counted
  <2>4. QED
    BY <2>1, <2>2, <2>3
<1>10. CreateInv' /\ RestInv'
  BY <1>1, <1>2, <1>3, <1>8 DEF Frame, SteadyInv, CreateInv, RestInv, NobodyWorks
<1>11. DispatchInv'
  BY <1>1, <1>2 DEF Frame, SteadyInv, DispatchInv
<1>12. DestroyInv'
  BY <1>1, <1>2, <1>3 DEF Frame, SteadyInv, DestroyInv
<1>13. TokenInv'
  <2>1. CASE ~(Dispatching \/ Destroying)
    BY <1>2, <2>1 DEF TokenInv
  <2>2. CASE (Dispatching \/ Destroying) /\ count[t] = num_workers
    <3>1. /\ num_workers_done = num_workers /\ sem_all_workers_done = 0
          /\ \A u \in Threads : Comparing(u) /\ count[u] = num_workers => u = t
      BY <1>6, <2>2 DEF SteadyInv, TokenInv
    <3>2. \A u \in Threads : Comparing(u)' => count[u] # num_workers
      BY <1>7, <3>1
    <3>3. QED
      BY <1>1, <1>2, <1>5, <1>9, <2>2, <3>1, <3>2 DEF Frame, SteadyInv, TokenInv
  <2>3. CASE (Dispatching \/ Destroying) /\ count[t] # num_workers
    BY <1>1, <1>2, <1>7, <1>9, <2>3 DEF Frame, SteadyInv, TokenInv
  <2>4. QED
    BY <2>1, <2>2, <2>3
<1>14. LateInv'
  BY <1>1, <1>2, <1>7 DEF Frame, SteadyInv, LateInv
<1>15. DataInv'
  BY <1>1, <1>2, <1>9 DEF Frame, SteadyInv, DataInv
<1>16. QED
  BY <1>10, <1>11, <1>12, <1>13, <1>14, <1>15 DEF SteadyInv

(* The steps of a thread nobody waits for any more.                           *)
LEMMA GoneStep ==
  ASSUME TypeOK, TypeOK', SteadyInv, NEW t \in Threads, ActOnCancel(t) \/ Stray(t)
  PROVE  SteadyInv'
<1>1. /\ Frame /\ job' = job /\ sem_run' = sem_run /\ ret' = ret
      /\ count' = count /\ num_workers_done' = num_workers_done
      /\ sem_all_workers_done' = sem_all_workers_done
      /\ pc'[t] = "exit"
      /\ \A u \in Threads : u # t => pc'[u] = pc[u]
  BY DEF ActOnCancel, Stray, Goto, Frame, TypeOK
<1>2. main \in {"cancel", "failed", "destroyed"}
  BY DEF ActOnCancel, Stray, released, SteadyInv, CreateInv
<1>3. ~Resting' /\ ~Dispatching' /\ ~Destroying'
  BY <1>1, <1>2 DEF Frame, Resting, Dispatching, Destroying, AtRest
<1>4. \A u \in Threads : Comparing(u)' => Comparing(u)
  BY <1>1 DEF Comparing
<1>5. CreateInv' /\ RestInv' /\ DispatchInv' /\ TokenInv' /\ DataInv'
  BY <1>1, <1>2, <1>3
  DEF Frame, SteadyInv, CreateInv, RestInv, DispatchInv, TokenInv, DataInv
<1>6. DestroyInv'
  BY <1>1, <1>2, <1>3 DEF Frame, SteadyInv, DestroyInv, AtRest
<1>7. LateInv'
  BY <1>1, <1>3, <1>4 DEF SteadyInv, LateInv
<1>8. QED
  BY <1>5, <1>6, <1>7 DEF SteadyInv

-----------------------------------------------------------------------------
LEMMA Inductive == IInv /\ [Next]_vars => IInv'
<1> SUFFICES ASSUME IInv, [Next]_vars
             PROVE  IInv'
  OBVIOUS
<1>1. TypeOK /\ TypeOK'
  <2>1. ASSUME UNCHANGED vars
        PROVE  TypeOK'
    BY <2>1 DEF IInv, TypeOK, vars
  <2>2. QED
    BY <2>1, MainTyping, WorkerTyping DEF IInv, Next, Stopped
<1>2. steady' => steady
  BY Zenon DEF Next, vars, Main, Create, Dispatch, Destroy, Worker, Stopped,
         CreateThread, CreateFails, CancelThread, tpool_set, SetArgs, tpool_begin,
         BeginPost, tpool_wait, tpool_get_results, tpool_destroy, KillThread,
         DestroyWait, SemWaitRun, Fetch, Run, FetchAndInc, Compare, ActOnCancel, Stray
<1>3. ASSUME steady'
      PROVE  SteadyInv'
  <2>1. steady /\ SteadyInv
    BY <1>2, <1>3 DEF IInv
  <2>2. CASE UNCHANGED vars
    BY <2>1, <2>2 DEF vars, SteadyInv, CreateInv, RestInv, DispatchInv, DestroyInv,
       TokenInv, LateInv, DataInv, Resting, Dispatching, Destroying, Comparing, AtRest,
       NobodyWorks, Counted, Posted
  <2>3. CASE Main
    BY <1>1, <1>3, <2>1, <2>3, CreateStep, SetStep, DispatchStep, DestroyStep DEF Main
  <2>4. ASSUME NEW t \in Threads, Worker(t)
        PROVE  SteadyInv'
    BY <1>1, <2>1, <2>4, WakeStep, RunStep, IncStep, CompareStep, GoneStep DEF Worker
  <2>5. QED
    BY <2>2, <2>3, <2>4 DEF Next, Stopped
<1>4. QED
  BY <1>1, <1>3 DEF IInv

(* IInv holds throughout every run of the pool.                               *)
THEOREM Invariance == Spec => []IInv
<1>1. Init => IInv
  BY InitTyping, InitInv DEF IInv
<1>2. QED
  BY <1>1, Inductive, PTL DEF Spec

(* While worker counts do not shrink, tpool_wait is the barrier start_workers
   takes it for.                                                              *)
THEOREM BarrierCorrect == Spec => []SteadyBarrierWaits
<1>1. IInv => SteadyBarrierWaits
  BY DEF IInv, SteadyInv, RestInv, Resting, SteadyBarrierWaits, BarrierWaits
<1>2. QED
  BY <1>1, Invariance, PTL

(* A thread runs the function and the argument it was woken for.              *)
THEOREM DispatchCorrect == Spec => []RunsItsDispatch
<1>1. IInv => RunsItsDispatch
  <2> SUFFICES ASSUME IInv, steady, NEW t \in Threads, pc[t] = "run"
               PROVE  /\ job[t] = <<phase, phase>>
                      /\ main \in {"post", "wait"}
                      /\ t < num_workers
    BY DEF RunsItsDispatch
  <2>1. TypeOK /\ SteadyInv
    BY DEF IInv
  <2>2. ~released
    BY <2>1 DEF SteadyInv, CreateInv, DestroyInv, released
  <2>3. t < Posted /\ Dispatching
    BY <2>1, <2>2, WokenRegion
  <2>4. main \in {"post", "wait"} /\ job[t] = <<phase, phase>>
    BY <2>1, <2>3 DEF SteadyInv, DataInv, Dispatching
  <2>5. Posted <= num_workers /\ Posted \in Int /\ num_workers \in Int /\ t \in Int
    BY <2>1, <2>3 DEF Dispatching, Posted, TypeOK, Threads
  <2>6. QED
    BY <2>3, <2>4, <2>5
<1>2. QED
  BY <1>1, Invariance, PTL

(* The results read after the barrier are those of this dispatch.             *)
THEOREM ResultsCorrect == Spec => []ResultsAreFresh
<1>1. IInv => ResultsAreFresh
  BY DEF IInv, SteadyInv, DataInv, ResultsAreFresh
<1>2. QED
  BY <1>1, Invariance, PTL

(* When tpool_destroy frees the pool every thread has been counted.            *)
THEOREM DestroyCorrect == Spec => []EverybodyWasCounted
<1>1. IInv => EverybodyWasCounted
  BY DEF IInv, SteadyInv, DestroyInv, EverybodyWasCounted
<1>2. QED
  BY <1>1, Invariance, PTL

-----------------------------------------------------------------------------
(* The pool implements ForkJoin.                                              *)

(* No worker has heard of a dispatch that is yet to come.                     *)
NothingAhead ==
  /\ thread_func <= phase
  /\ \A t \in Threads : args[t] <= phase /\ job[t][2] <= phase /\ ret[t] <= phase

LEMMA NothingAheadStep ==
  ASSUME TypeOK, NothingAhead, [Next]_vars
  PROVE  NothingAhead'
<1> USE DEF NothingAhead
<1>1. phase \in Nat /\ thread_func \in Nat /\ Freed <= phase
  BY DEF TypeOK, Freed
<1>2. CASE Create
  BY <1>2 DEF Create, CreateThread, CreateFails, CancelThread
<1>3. ASSUME NEW w \in 0 .. NumThreads, tpool_set(w)
      PROVE  NothingAhead'
  <2>1. /\ phase' = phase + 1 /\ thread_func' = phase + 1
        /\ args' = args /\ job' = job /\ ret' = ret
    BY <1>3 DEF tpool_set
  <2>2. \A t \in Threads : args[t] \in Int /\ job[t][2] \in Int /\ ret[t] \in Int
    BY DEF TypeOK
  <2> QED
    BY <1>1, <2>1, <2>2
<1>4. CASE Dispatch
  BY <1>1, <1>4 DEF Dispatch, SetArgs, tpool_begin, BeginPost, tpool_wait, tpool_get_results
<1>5. CASE Destroy
  <2>1. CASE KillThread
    BY <1>1, <2>1 DEF KillThread, TypeOK
  <2>2. CASE tpool_destroy \/ DestroyWait
    BY <2>2 DEF tpool_destroy, DestroyWait
  <2> QED
    BY <1>5, <2>1, <2>2 DEF Destroy
<1>6. ASSUME NEW t \in Threads, Worker(t)
      PROVE  NothingAhead'
  <2>1. CASE Fetch(t)
    <3>1. /\ UNCHANGED <<phase, thread_func, args, ret>>
          /\ job' = job \/ job' = [job EXCEPT ![t] = <<thread_func, args[t]>>]
      BY <2>1 DEF Fetch
    <3>2. \A u \in Threads : job'[u][2] = job[u][2] \/ job'[u][2] = args[u]
      BY <3>1 DEF TypeOK
    <3> QED
      BY <3>1, <3>2
  <2>2. CASE Run(t)
    <3>1. /\ UNCHANGED <<phase, thread_func, args, job>>
          /\ \A u \in Threads : ret'[u] = ret[u] \/ ret'[u] = job[u][2]
      BY <2>2 DEF Run, TypeOK
    <3> QED
      BY <3>1
  <2>3. CASE SemWaitRun(t) \/ FetchAndInc(t) \/ Compare(t) \/ ActOnCancel(t) \/ Stray(t)
    BY <2>3 DEF SemWaitRun, FetchAndInc, Compare, ActOnCancel, Stray
  <2> QED
    BY <1>6, <2>1, <2>2, <2>3 DEF Worker
<1>7. CASE UNCHANGED vars
  BY <1>7 DEF vars
<1> QED
  BY <1>2, <1>3, <1>4, <1>5, <1>6, <1>7 DEF Next, Main, Stopped

(* Each step of the client and of the pool's threads is a step of ForkJoin or
   changes nothing there: a dispatch forks as many jobs as it has workers, a
   thread does its job when it stores its result, and the client joins when
   nobody's is missing.                                                       *)
LEMMA ForkJoinStep ==
  ASSUME IInv, NothingAhead, [Next]_vars, steady'
  PROVE  [FJ!FJNext]_<<PoolState, phase, PendingWorkers>>
<1> DEFINE Same == UNCHANGED <<PoolState, phase, PendingWorkers>>
           Busy == {"args", "begin", "post", "wait"}
<1>1. TypeOK /\ steady /\ SteadyInv
  <2>1. steady' => steady
    BY Zenon DEF Next, vars, Main, Create, Dispatch, Destroy, Worker, Stopped,
         CreateThread, CreateFails, CancelThread, tpool_set, SetArgs, tpool_begin,
         BeginPost, tpool_wait, tpool_get_results, tpool_destroy, KillThread,
         DestroyWait, SemWaitRun, Fetch, Run, FetchAndInc, Compare, ActOnCancel, Stray
  <2> QED
    BY <2>1 DEF IInv
<1>2. CASE CreateThread
  <2>1. /\ main = "create" /\ main' \in {"create", "idle"} /\ phase' = phase
    BY <1>2 DEF CreateThread
  <2>2. PendingWorkers = {} /\ PendingWorkers' = {} /\ PoolState = "down"
    BY <2>1 DEF PendingWorkers, PoolState
  <2>3. PoolState' = "down" \/ PoolState' = "idle"
    BY <2>1 DEF PoolState
  <2> QED
    BY <2>1, <2>2, <2>3 DEF FJ!FJNext, FJ!Start
<1>3. CASE CreateFails \/ CancelThread
  <2>1. /\ main \in {"create", "cancel"} /\ main' \in {"cancel", "failed"} /\ phase' = phase
    BY <1>3 DEF CreateFails, CancelThread
  <2>2. PendingWorkers = {} /\ PendingWorkers' = {} /\ PoolState = "down"
    BY <2>1 DEF PendingWorkers, PoolState
  <2>3. PoolState' = "down" \/ PoolState' = "stopped"
    BY <2>1 DEF PoolState
  <2> QED
    BY <2>1, <2>2, <2>3 DEF FJ!FJNext, FJ!Abort
<1>4. ASSUME NEW w \in 0 .. NumThreads, tpool_set(w)
      PROVE  FJ!Fork(w)
  <2>1. /\ main = "idle" /\ main' = "args" /\ phase' = phase + 1 /\ ret' = ret /\ num_workers' = w
    BY <1>4 DEF tpool_set
  <2>2. PoolState = "idle" /\ PoolState' = "running"
    BY <2>1 DEF PoolState
  <2>3. \A t \in Threads : ret[t] # phase + 1
    BY <1>1 DEF NothingAhead, TypeOK
  <2>4. \A t : t \in 0 .. w - 1 <=> t \in Threads /\ t < w
    BY DEF Threads
  <2>5. PendingWorkers' = {t \in Threads : t < w /\ ret[t] # phase + 1}
    BY <2>1 DEF PendingWorkers
  <2>6. PendingWorkers' = 0 .. w - 1
    BY <2>3, <2>4, <2>5
  <2> QED
    BY <2>1, <2>2, <2>6 DEF FJ!Fork
<1>5. CASE SetArgs \/ tpool_begin \/ BeginPost
  <2>1. /\ main \in Busy /\ main' \in Busy
        /\ UNCHANGED <<phase, ret, num_workers>>
    BY <1>5 DEF SetArgs, tpool_begin, BeginPost
  <2> QED
    BY <2>1 DEF PoolState, PendingWorkers
<1>6. CASE tpool_wait
  <2>1. /\ main = "wait" /\ main' = "joined" /\ phase' = phase
        /\ num_workers # 0 => sem_all_workers_done > 0
    BY <1>6 DEF tpool_wait
  <2>2. PoolState = "running" /\ PoolState' = "idle" /\ PendingWorkers' = {}
    BY <2>1 DEF PoolState, PendingWorkers
  <2>3. \A t \in Threads : t < num_workers => ret[t] = phase
    <3>1. CASE num_workers = 0
      BY <3>1 DEF Threads
    <3>2. CASE num_workers # 0
      <4>1. Dispatching
        BY <2>1, <3>2 DEF Dispatching
      <4>2. ~(num_workers_done < num_workers) /\ num_workers_done <= num_workers
        BY <1>1, <2>1, <3>2, <4>1, CountedBound DEF SteadyInv, TokenInv
      <4>3. num_workers_done = num_workers
        BY <1>1, <4>2 DEF TypeOK
      <4>4. Counted = 0 .. num_workers - 1
        BY <1>1, <4>1, <4>3, CountedBound
      <4>5. \A t \in Threads : t < num_workers => t \in Counted
        BY <1>1, <4>4 DEF Threads, TypeOK
      <4> QED
        BY <1>1, <4>1, <4>5 DEF SteadyInv, DataInv
    <3> QED
      BY <3>1, <3>2
  <2>4. PendingWorkers = {}
    BY <2>1, <2>3 DEF PendingWorkers
  <2> QED
    BY <2>1, <2>2, <2>4 DEF FJ!FJNext, FJ!Join
<1>7. CASE tpool_get_results
  <2>1. main = "joined" /\ main' = "idle" /\ phase' = phase
    BY <1>7 DEF tpool_get_results
  <2> QED
    BY <2>1 DEF PoolState, PendingWorkers
<1>8. CASE tpool_destroy
  <2>1. main = "idle" /\ main' = "kill" /\ phase' = phase
    BY <1>8 DEF tpool_destroy
  <2>2. /\ PoolState = "idle" /\ PoolState' = "stopped"
        /\ PendingWorkers = {} /\ PendingWorkers' = {}
    BY <2>1 DEF PoolState, PendingWorkers
  <2> QED
    BY <2>1, <2>2 DEF FJ!FJNext, FJ!Stop
<1>9. CASE KillThread \/ DestroyWait
  <2>1. /\ main \in {"kill", "await"} /\ main' \in {"kill", "await", "destroyed"} /\ phase' = phase
    BY <1>9 DEF KillThread, DestroyWait
  <2> QED
    BY <2>1 DEF PoolState, PendingWorkers
<1>10. ASSUME NEW t \in Threads, Run(t)
       PROVE  Same \/ \E u \in PendingWorkers : FJ!Work(u)
  <2>1. /\ pc[t] = "run" /\ ~released /\ UNCHANGED <<main, phase, num_workers>>
        /\ ret' = [ret EXCEPT ![t] = job[t][2]]
    BY <1>10 DEF Run
  <2>2. t < Posted /\ Dispatching
    BY <1>1, <2>1, WokenRegion
  <2>3. job[t][2] = phase /\ main \in {"post", "wait"}
    BY <1>1, <2>1, <2>2 DEF SteadyInv, DataInv, Dispatching
  <2>4. \A u \in Threads : ret'[u] = IF u = t THEN phase ELSE ret[u]
    BY <1>1, <2>1, <2>3 DEF TypeOK
  <2>5. /\ PendingWorkers = {u \in Threads : u < num_workers /\ ret[u] # phase}
        /\ PendingWorkers' = {u \in Threads : u < num_workers /\ ret'[u] # phase}
        /\ PoolState' = PoolState
    BY <2>1, <2>3 DEF PendingWorkers, PoolState
  <2>6. PendingWorkers' = PendingWorkers \ {t}
    BY <2>4, <2>5
  <2>7. CASE t \in PendingWorkers
    BY <2>1, <2>5, <2>6, <2>7 DEF FJ!Work
  <2>8. CASE t \notin PendingWorkers
    BY <2>1, <2>5, <2>6, <2>8
  <2> QED
    BY <2>7, <2>8
<1>11. ASSUME NEW t \in Threads,
              SemWaitRun(t) \/ Fetch(t) \/ FetchAndInc(t) \/ Compare(t) \/ ActOnCancel(t) \/ Stray(t)
       PROVE  Same
  <2>1. UNCHANGED <<main, phase, num_workers, ret>>
    BY <1>11 DEF SemWaitRun, Fetch, FetchAndInc, Compare, ActOnCancel, Stray
  <2> QED
    BY <2>1 DEF PoolState, PendingWorkers
<1>12. CASE UNCHANGED vars
  BY <1>12 DEF vars, PoolState, PendingWorkers
<1>13. CASE Main
  BY <1>2, <1>3, <1>4, <1>5, <1>6, <1>7, <1>8, <1>9, <1>13
  DEF Main, Create, Dispatch, Destroy, FJ!FJNext
<1>14. ASSUME NEW t \in Threads, Worker(t)
       PROVE  [FJ!FJNext]_<<PoolState, phase, PendingWorkers>>
  BY <1>10, <1>11, <1>14 DEF Worker, FJ!FJNext
<1> QED
  BY <1>12, <1>13, <1>14 DEF Next, Stopped

(* The pool implements the abstract fork-join executor, as long as the numbers of
   workers its client asks for do not shrink.                                 *)
THEOREM Refinement == Spec => SteadyImplementsForkJoin
<1>1. Init => FJ!FJInit
  BY DEF Init, FJ!FJInit, PoolState, PendingWorkers
<1>2. Init => NothingAhead
  BY DEF Init, NothingAhead, NoPhase
<1>3. IInv /\ NothingAhead /\ [Next]_vars => NothingAhead'
  BY NothingAheadStep DEF IInv
<1>4. IInv /\ NothingAhead /\ [Next]_vars
        => [steady' => [FJ!FJNext]_<<PoolState, phase, PendingWorkers>>]_vars
  BY ForkJoinStep
<1> QED
  BY <1>1, <1>2, <1>3, <1>4, Invariance, PTL DEF Spec, SteadyImplementsForkJoin
=============================================================================
