----------------------------- MODULE MapReduce -----------------------------
(***************************************************************************)
(* One thread's calls of map_reduce (map_reduce.c): the parameters of the  *)
(* call, the thread pool kept from call to call, the tasks of each phase,  *)
(* what the workers move from the map arrays to the reduce arrays and      *)
(* through the rounds of the merge, and the result.                        *)
(*                                                                         *)
(* The arrays are those of KeyVals.  The queue hands out each task once    *)
(* (TaskQ) and start_workers returns when all its workers have (TPool, for *)
(* the clients whose barrier holds); here they are a set of tasks and a    *)
(* set of running workers.  A task works on arrays no other worker         *)
(* touches, so it is one step.  A value is the set of the emissions        *)
(* <<map task, place>> it was made of.                                     *)
(***************************************************************************)
EXTENDS KeyVals

CONSTANTS NumProcs,                 (* the processors, or args->num_procs of them *)
          ExtendedNumReduceTasks, DefaultNumReduceTasks,
          Calls,                    (* the arguments of the calls                *)
          Inputs                    (* what the splitter makes of the data: a
                                       sequence of map tasks, each the sequence
                                       of the keys its map function emits        *)

ASSUME MapReduceAssumption ==
  /\ NumProcs \in Nat \ {0}
  /\ ExtendedNumReduceTasks \in Nat \ {0, 1}
  /\ DefaultNumReduceTasks \in Nat \ {0, 1}
  /\ Calls \subseteq [num_map_threads : Int, num_reduce_threads : Int, num_merge_threads : Int,
                      use_one_queue_per_task : BOOLEAN, combiner : BOOLEAN, reduce : BOOLEAN]
  /\ Inputs \subseteq Seq(Seq(Nat))

VARIABLES phase,        (* "idle", "map", "reduce", "merge", "done", "aborted"   *)
          pool,         (* threads of the pool under tpool_key, 0 without one    *)
          env,          (* mr_env_t: the parameters                              *)
          input, tasks, (* the data; the tasks on the queue                      *)
          queued,       (* how many reduce tasks gen_reduce_tasks made           *)
          running,      (* the workers that have not returned                    *)
          inter,        (* intermediate_vals[thread][task]                       *)
          final,        (* final_vals[slot]                                      *)
          merge_len, merge_input, merge_vals, result

vars == <<phase, pool, env, input, tasks, queued, running, inter, final,
          merge_len, merge_input, merge_vals, result>>

Init ==
  /\ phase = "idle" /\ pool = 0
  /\ env = << >> /\ input = << >> /\ tasks = {} /\ queued = 0 /\ running = {}
  /\ inter = << >> /\ final = << >>
  /\ merge_len = 0 /\ merge_input = << >> /\ merge_vals = << >> /\ result = << >>

Smaller(a, b) == IF a < b THEN a ELSE b
Larger(a, b)  == IF a > b THEN a ELSE b

(***************************************************************************)
(* The parameters.                                                         *)
(***************************************************************************)
NumMapThreads(a)    == IF a.num_map_threads > 0 THEN a.num_map_threads ELSE NumProcs
NumReduceThreads(a) == IF a.num_reduce_threads > 0 THEN a.num_reduce_threads ELSE NumProcs

NumReduceTasks(a) ==
  IF a.use_one_queue_per_task THEN DefaultNumReduceTasks ELSE ExtendedNumReduceTasks

NumMergeThreads(a) ==
  LET asked == IF a.num_merge_threads > 0 THEN a.num_merge_threads ELSE NumReduceThreads(a)
      n == IF a.use_one_queue_per_task THEN asked ELSE NumReduceThreads(a) \div 2
  IN  Smaller(Larger(n, 1), NumReduceTasks(a) \div 2)

env_init(a) ==
  [num_map_threads    |-> NumMapThreads(a),
   num_reduce_threads |-> NumReduceThreads(a),
   num_merge_threads  |-> NumMergeThreads(a),
   num_reduce_tasks   |-> NumReduceTasks(a),
   oneOutputQueuePerReduceTask |-> a.use_one_queue_per_task,
   combiner |-> a.combiner, reduce |-> a.reduce]

NumFinal(e) ==
  IF e.oneOutputQueuePerReduceTask THEN e.num_reduce_tasks ELSE e.num_reduce_threads

(***************************************************************************)
(* start_workers runs worker 0 itself and the others on the pool, which    *)
(* tpool_set refuses when it is too small.                                 *)
(***************************************************************************)
EnoughPoolFor(size, n) == n - 1 <= size

start_workers(p, n, size) ==
  /\ phase' = IF EnoughPoolFor(size, n) THEN p ELSE "aborted"
  /\ running' = 0 .. n - 1

(* Every task that the splitter makes is put on a queue, whichever way they are
   distributed; none at all is an error.                                        *)
gen_map_tasks(data) == DOMAIN data

(* map uses no more threads than there are tasks.                               *)
MapThreads(e, data) == Smaller(e.num_map_threads, Cardinality(gen_map_tasks(data)))

(* The whole of map_reduce up to the start of the map workers.  map asserts that
   gen_map_tasks does not fail.                                                 *)
map_reduce(a, data) ==
  LET e == env_init(a)
      created == IF pool = 0 THEN e.num_map_threads ELSE pool
      threads == MapThreads(e, data)
  IN  /\ phase = "idle"
      /\ pool' = created
      /\ env' = [e EXCEPT !.num_map_threads = IF gen_map_tasks(data) = {} THEN @ ELSE threads]
      /\ input' = data
      /\ tasks' = gen_map_tasks(data)
      /\ inter' = [t \in 0 .. e.num_map_threads - 1 |-> [r \in 0 .. e.num_reduce_tasks - 1 |-> << >>]]
      /\ final' = [s \in 0 .. NumFinal(e) - 1 |-> << >>]
      /\ IF gen_map_tasks(data) = {} THEN phase' = "aborted" /\ UNCHANGED running
         ELSE start_workers("map", threads, created)
      /\ UNCHANGED <<queued, merge_len, merge_input, merge_vals, result>>

(***************************************************************************)
(* Map.                                                                    *)
(***************************************************************************)
partition(num_reduce_tasks, key) == key % num_reduce_tasks

emit_intermediate(arrays, key, val) ==
  [arrays EXCEPT ![partition(env.num_reduce_tasks, key)] = insert_keyval_merged(@, key, val)]

map_worker_do_next_task(w) ==
  /\ phase = "map" /\ w \in running
  /\ \E m \in tasks :
       /\ tasks' = tasks \ {m}
       /\ inter' = [inter EXCEPT ![w] =
            Loop(LAMBDA arrays, n : emit_intermediate(arrays, input[m][n], {<<m, n>>}),
                 @, Len(input[m]))]
  /\ UNCHANGED <<phase, pool, env, input, queued, running, final,
                 merge_len, merge_input, merge_vals, result>>

run_combiner(arrays) == [r \in DOMAIN arrays |-> Combined(arrays[r])]

map_worker_returns(w) ==
  /\ phase = "map" /\ w \in running
  /\ tasks = {}
  /\ running' = running \ {w}
  /\ inter' = IF env.combiner THEN [inter EXCEPT ![w] = run_combiner(@)] ELSE inter
  /\ UNCHANGED <<phase, pool, env, input, tasks, queued, final,
                 merge_len, merge_input, merge_vals, result>>

(***************************************************************************)
(* Reduce.  The do loop of gen_reduce_tasks goes on to the last task when  *)
(* a thread's share is 0, since it tests the share after it lowered it.    *)
(***************************************************************************)
TasksLeftover(T, R, N) == T - (T \div R) * N

LeftoverOffByOne(T, R, N) == TasksLeftover(T, R, N) - 1

Leftover(T, R, N) == TasksLeftover(T, R, N)

UpToLast(T, n) == Smaller(T, n)

gen_reduce_tasks(T, R, N) ==
  LET share(tid) == (T \div R) + (IF tid < Leftover(T, R, N) THEN 1 ELSE 0)
      made[tid \in 0 .. R] ==
        IF tid = 0 THEN 0
        ELSE IF share(tid - 1) = 0 THEN T
        ELSE UpToLast(T, made[tid - 1] + share(tid - 1))
  IN  made[R]

reduce ==
  LET n == gen_reduce_tasks(env.num_reduce_tasks, env.num_reduce_threads, env.num_map_threads)
  IN  /\ phase = "map" /\ running = {}
      /\ queued' = n
      /\ tasks' = 0 .. n - 1
      /\ start_workers("reduce", env.num_reduce_threads, pool)
      /\ UNCHANGED <<pool, env, input, inter, final, merge_len, merge_input, merge_vals, result>>

(* The user's reduce function emits its key with the value it makes of them all,
   identity_reduce emits each value.                                            *)
Reduced(call) ==
  LET values == IterVals(call.lists)
  IN  IF env.reduce THEN << [key |-> call.key, val |-> UNION ToSet(values)] >>
      ELSE [n \in DOMAIN values |-> [key |-> call.key, val |-> values[n]]]

SlotOfWorker(w, task) == w

EmitSlot(w, task) == IF env.oneOutputQueuePerReduceTask THEN task ELSE w

emit(arr, pair) == insert_keyval(arr, pair.key, pair.val, env.oneOutputQueuePerReduceTask)

EmitAll(arr, pairs) == Loop(LAMBDA a, n : emit(a, pairs[n]), arr, Len(pairs))

reduce_worker_do_next_task(w) ==
  /\ phase = "reduce" /\ w \in running
  /\ \E r \in tasks :
       \E calls \in {ReduceCalls([t \in 1 .. env.num_map_threads |-> inter[t - 1][r]])} :
         /\ tasks' = tasks \ {r}
         /\ inter' = [t \in DOMAIN inter |->
               IF t < env.num_map_threads THEN [inter[t] EXCEPT ![r] = << >>] ELSE inter[t]]
         /\ final' = [final EXCEPT ![EmitSlot(w, r)] =
               Loop(LAMBDA arr, n : EmitAll(arr, Reduced(calls[n])), @, Len(calls))]
  /\ UNCHANGED <<phase, pool, env, input, queued, running,
                 merge_len, merge_input, merge_vals, result>>

reduce_worker_returns(w) ==
  /\ phase = "reduce" /\ w \in running
  /\ tasks = {}
  /\ running' = running \ {w}
  /\ UNCHANGED <<phase, pool, env, input, tasks, queued, inter, final,
                 merge_len, merge_input, merge_vals, result>>

(***************************************************************************)
(* Merge: every round the workers share out the arrays and each makes one  *)
(* of its share.                                                           *)
(***************************************************************************)
ExtraSlots(w, modlen) == w

ExtraBefore(w, modlen) == Smaller(w, modlen)

(* The places a worker of the round merges.                                  *)
MergeSlice(w) ==
  LET n == env.num_merge_threads
      halved == merge_len \div n <= 1
      length == IF halved THEN 2 ELSE merge_len \div n
      modlen == IF halved THEN merge_len % 2 ELSE merge_len % n
      pos == w * length + ExtraBefore(w, modlen)
  IN  IF pos >= merge_len THEN {}
      ELSE pos .. pos + length + (IF w < modlen THEN 1 ELSE 0) - 1

(* Memory from malloc; EveryArrayMergedOnce shows that no entry is read before it is
   written, so that what they hold does not matter.                                *)
NewMergeVals(n) == [w \in 0 .. n - 1 |-> << >>]

merge_worker(w) ==
  LET slice == MergeSlice(w)
      first == CHOOSE s \in slice : \A t \in slice : s <= t
  IN  /\ phase = "merge" /\ w \in running
      /\ running' = running \ {w}
      /\ IF slice = {} THEN UNCHANGED <<merge_vals, merge_input>>
         ELSE /\ merge_vals' = [merge_vals EXCEPT ![w] =
                   merge_results([i \in 1 .. Cardinality(slice) |-> merge_input[first + i - 1]])]
              /\ merge_input' = [s \in DOMAIN merge_input |->
                                   IF s \in slice THEN << >> ELSE merge_input[s]]
      /\ UNCHANGED <<phase, pool, env, input, tasks, queued, inter, final, merge_len, result>>

(* The end of reduce, which frees the intermediate arrays, and the start of merge. *)
merge ==
  /\ phase = "reduce" /\ running = {}
  /\ inter' = << >> /\ final' = << >>
  /\ IF NumFinal(env) <= 1
     THEN /\ phase' = "done" /\ result' = final[0]
          /\ UNCHANGED <<running, merge_len, merge_input, merge_vals>>
     ELSE /\ start_workers("merge", env.num_merge_threads, pool)
          /\ merge_len' = NumFinal(env) /\ merge_input' = final
          /\ merge_vals' = NewMergeVals(env.num_merge_threads)
          /\ UNCHANGED result
  /\ UNCHANGED <<pool, env, input, tasks, queued>>

FewerMergeThreadsKept(n) == n

FewerMergeThreads(n) == Larger(n \div 2, 1)

merge_round ==
  LET len == env.num_merge_threads
      threads == FewerMergeThreads(len)
  IN  /\ phase = "merge" /\ running = {}
      /\ env' = [env EXCEPT !.num_merge_threads = threads]
      /\ merge_len' = len
      /\ IF len > 1
         THEN /\ start_workers("merge", threads, pool)
              /\ merge_input' = merge_vals /\ merge_vals' = NewMergeVals(threads)
              /\ UNCHANGED result
         ELSE /\ phase' = "done" /\ result' = merge_vals[0]
              /\ merge_input' = << >> /\ merge_vals' = << >>
              /\ UNCHANGED running
      /\ UNCHANGED <<pool, input, tasks, queued, inter, final>>

(***************************************************************************)
(* env_fini and the return; the pool stays for the next call, until        *)
(* map_reduce_finalize (and the map_reduce_init that has to follow).       *)
(***************************************************************************)
env_fini ==
  /\ phase = "done"
  /\ phase' = "idle" /\ env' = << >> /\ input' = << >> /\ tasks' = {} /\ queued' = 0
  /\ running' = {} /\ inter' = << >> /\ final' = << >>
  /\ merge_len' = 0 /\ merge_input' = << >> /\ merge_vals' = << >> /\ result' = << >>
  /\ UNCHANGED pool

map_reduce_finalize ==
  /\ phase = "idle" /\ pool > 0
  /\ pool' = 0
  /\ UNCHANGED <<phase, env, input, tasks, queued, running, inter, final,
                 merge_len, merge_input, merge_vals, result>>

Work(w) == \/ map_worker_do_next_task(w) \/ map_worker_returns(w)
           \/ reduce_worker_do_next_task(w) \/ reduce_worker_returns(w)
           \/ merge_worker(w)

Main == reduce \/ merge \/ merge_round \/ env_fini

Next == \/ \E a \in Calls, data \in Inputs : map_reduce(a, data)
        \/ \E w \in running : Work(w)
        \/ Main
        \/ map_reduce_finalize

(* A worker that can go on does, and so does the caller inside map_reduce; nobody
   has to call.                                                                *)
Spec == Init /\ [][Next]_vars /\ WF_vars(Main) /\ WF_vars(\E w \in running : Work(w))

(***************************************************************************)
(* Properties.                                                             *)
(***************************************************************************)
Emissions == UNION {{<<m, n>> : n \in DOMAIN input[m]} : m \in DOMAIN input}
KeyOf(e) == input[e[1]][e[2]]

(* The pairs of a key and a value that the call holds, wherever they are.      *)
PairsOf(arr) ==
  Concat([n \in DOMAIN arr |->
    LET values == IterVals(<<arr[n]>>)
    IN  [i \in DOMAIN values |-> [key |-> arr[n].key, val |-> values[i]]]])

Joined(arrays) == FoldFunction(LAMBDA a, b : a \o b, << >>, arrays)

Held ==
  Joined([t \in DOMAIN inter |-> Joined([r \in DOMAIN inter[t] |-> PairsOf(inter[t][r])])])
    \o Joined(final) \o Joined(merge_input) \o Joined(merge_vals) \o result

Expected(e) ==
  /\ phase = "map" => e[1] \notin tasks
  /\ phase \in {"merge", "done"} => partition(env.num_reduce_tasks, KeyOf(e)) < queued

(* From the map task that emits it to the result, a value is at every moment in exactly
   one place and under its key, whichever workers, combiner, reduce slots and merge
   rounds it goes through; only the values of reduce tasks that were not made are lost
   (map_reduce.c:676-797, 811-987, 1299-1437, 1625-1681).                           *)
NothingLostOrDoubled ==
  phase \notin {"idle", "aborted"} =>
    LET held == Held
    IN  /\ \A e \in Emissions :
             Cardinality({n \in DOMAIN held : e \in held[n].val}) = IF Expected(e) THEN 1 ELSE 0
        /\ \A n \in DOMAIN held :
             held[n].val # {} /\ \A e \in held[n].val : KeyOf(e) = held[n].key

(* The result is in the order of the keys; with a reduce function that emits once, each
   key is there once (map_reduce.c:1844-1894).                                      *)
ResultIsSorted ==
  phase = "done" =>
    \A m, n \in DOMAIN result : m < n =>
      IF env.reduce THEN result[m].key < result[n].key ELSE result[m].key <= result[n].key

(* Every reduce task is made whenever the map threads are no more than the reduce
   threads, or the tasks divide evenly, or there is less than one a thread
   (map_reduce.c:1254-1296).                                                        *)
TasksAreMade ==
  LET T == env.num_reduce_tasks
      R == env.num_reduce_threads
  IN  phase \in {"reduce", "merge", "done"}
        /\ (env.num_map_threads <= R \/ T % R = 0 \/ T < R) => queued = T

(* In every round each array is merged by exactly one worker and no worker is left
   without one, so that every merge_vals entry is written before it is read
   (map_reduce.c:1020-1042, 1868-1888).                                             *)
EveryArrayMergedOnce ==
  phase = "merge" =>
    LET workers == 0 .. env.num_merge_threads - 1
    IN  /\ \A w \in workers : MergeSlice(w) # {}
        /\ \A v, w \in workers : v # w => MergeSlice(v) \cap MergeSlice(w) = {}
        /\ UNION {MergeSlice(w) : w \in workers} = 0 .. merge_len - 1

(* The work of a phase is divided over its threads without a gap and without an overlap,
   whatever the remainders: each reduce task is made, each array merged once
   (map_reduce.c:1254-1296, 1020-1042).                                             *)
WorkIsDivided == TasksAreMade /\ EveryArrayMergedOnce

(* A call of map_reduce returns, or fails at once (map_reduce.c:243-334).           *)
CallEnds == (phase # "idle") ~> (phase \in {"idle", "aborted"})

(* map_reduce.h: the value of the partition function "is the # of the reduce task where
   the key will be processed", and emit's pair "will be in the final result array": the
   result has every value emitted (map_reduce.c:1262-1266).                         *)
ResultIsComplete ==
  phase = "done" => UNION {result[n].val : n \in DOMAIN result} = Emissions

(* tpool_set's assert (num_workers <= tpool->num_threads), for every combination of the
   counts that map_reduce_args_t lets a caller choose (map_reduce.c:264-277, tpool.c:145).       *)
EnoughPoolThreads == phase = "aborted" => input = << >>

=============================================================================
