-------------------------- MODULE MapReduce_proof --------------------------
(***************************************************************************)
(* Proofs about MapReduce, for every call, number of processors and input: *)
(* the work of each phase is divided over its threads without a gap and    *)
(* without an overlap (WorkIsDivided).                                     *)
(***************************************************************************)
EXTENDS MapReduce, FiniteSetTheorems, WellFoundedInduction, TLAPS

(* A set of numbers that is not empty has a least one.                        *)
LEMMA LeastElement ==
  ASSUME NEW S \in SUBSET Nat, S # {}
  PROVE  \E k \in S : \A j \in S : k <= j
<1>1. PICK k \in S : \A j \in S : ~(<<j, k>> \in OpToRel(<, Nat))
  BY NatLessThanWellFounded, WFMin, Zenon
<1>2. \A j \in S : ~(j < k)
  BY <1>1, Zenon DEF OpToRel
<1> QED
  BY <1>2

LEMMA Divided ==
  ASSUME NEW a \in Nat, NEW d \in Nat \ {0}
  PROVE  /\ a \div d \in Nat /\ a % d \in 0 .. d - 1
         /\ a = d * (a \div d) + (a % d)
  BY SMT

(* A product of numbers, one of them growing.                                 *)
LEMMA Product ==
  ASSUME NEW a \in Nat, NEW b \in Nat, NEW c \in Nat
  PROVE  /\ a * c \in Nat /\ (a + 1) * c = a * c + c /\ a * c = c * a
         /\ a <= b => a * c <= b * c
  BY SMT

-----------------------------------------------------------------------------
(* The loop of gen_reduce_tasks makes every task, if the leftover it computes with
   the number of map threads is not too small, or if it is of no use.          *)
LEMMA AllTasksMade ==
  ASSUME NEW T \in Nat \ {0}, NEW R \in Nat \ {0}, NEW N \in Nat \ {0},
         N <= R \/ T % R = 0 \/ T < R
  PROVE  gen_reduce_tasks(T, R, N) = T
<1> DEFINE share(tid) == (T \div R) + (IF tid < Leftover(T, R, N) THEN 1 ELSE 0)
           Loops(g, k) == g = [tid \in 0 .. k |->
                                 IF tid = 0 THEN 0
                                 ELSE IF share(tid - 1) = 0 THEN T
                                 ELSE UpToLast(T, g[tid - 1] + share(tid - 1))]
           made == CHOOSE g : Loops(g, R)
           q == T \div R
           m == T % R
<1>1. gen_reduce_tasks(T, R, N) = made[R]
  BY DEF gen_reduce_tasks
<1>2. q \in Nat /\ m \in 0 .. R - 1 /\ T = R * q + m
  BY Divided
<1>3. m = 0 \/ m <= Leftover(T, R, N)
  <2>1. Leftover(T, R, N) = T - q * N
    BY DEF Leftover, TasksLeftover
  <2>2. CASE N <= R
    <3>1. N * q <= R * q /\ N * q = q * N /\ N * q \in Nat /\ R * q \in Nat
      BY <1>2, <2>2, Product
    <3> QED
      BY <1>2, <2>1, <3>1
  <2>3. CASE T < R
    <3>1. q = 0 /\ m = T
      BY <1>2, <2>3
    <3> QED
      BY <2>1, <3>1
  <2> QED
    BY <2>2, <2>3
<1>4. \A tid \in Nat : share(tid) \in Nat /\ share(tid) >= q /\ (tid < m => share(tid) >= q + 1)
  BY <1>2, <1>3 DEF Leftover, TasksLeftover
<1> HIDE DEF share
<1>5. \A k \in Nat : \E g : Loops(g, k)
  <2> DEFINE S == {k \in Nat : ~ \E g : Loops(g, k)}
  <2> SUFFICES ASSUME S # {} PROVE FALSE
    OBVIOUS
  <2>1. PICK k \in S : \A j \in S : k <= j
    BY LeastElement
  <2>2. CASE k = 0
    <3>1. Loops([tid \in 0 .. 0 |-> 0], 0)
      OBVIOUS
    <3> QED
      BY <2>2, <3>1
  <2>3. CASE k # 0
    <3>1. k - 1 \in Nat /\ ~(k - 1 \in S)
      <4>1. k \in Nat
        OBVIOUS
      <4> HIDE DEF S
      <4> QED
        BY <2>1, <2>3, <4>1
    <3>2. PICK g : Loops(g, k - 1)
      BY <3>1
    <3> DEFINE e(tid) == IF tid = 0 THEN 0 ELSE IF share(tid - 1) = 0 THEN T
                         ELSE UpToLast(T, g[tid - 1] + share(tid - 1))
               f == [tid \in 0 .. k |-> e(tid)]
    <3>3. \A tid \in 0 .. k - 1 : g[tid] = e(tid)
      <4> DEFINE d == [tid \in 0 .. k - 1 |-> e(tid)]
      <4>1. g = d
        BY <3>2
      <4> HIDE DEF e
      <4>2. \A tid \in 0 .. k - 1 : d[tid] = e(tid)
        OBVIOUS
      <4> HIDE DEF d
      <4> QED
        BY <4>1, <4>2
    <3>4. \A tid \in 0 .. k : tid # 0 => tid - 1 \in 0 .. k - 1 /\ f[tid - 1] = g[tid - 1]
      <4> SUFFICES ASSUME NEW tid \in 0 .. k, tid # 0
                   PROVE  tid - 1 \in 0 .. k - 1 /\ f[tid - 1] = g[tid - 1]
        OBVIOUS
      <4>1. tid - 1 \in 0 .. k - 1 /\ tid - 1 \in 0 .. k
        BY <3>1
      <4> HIDE DEF e
      <4> QED
        BY <3>3, <4>1
    <3>5. Loops(f, k)
      <4> HIDE DEF f
      <4>1. \A tid \in 0 .. k : e(tid) = IF tid = 0 THEN 0 ELSE IF share(tid - 1) = 0 THEN T
                                        ELSE UpToLast(T, f[tid - 1] + share(tid - 1))
        BY <3>4
      <4> QED
        BY <4>1 DEF f
    <3> QED
      BY <3>5
  <2> QED
    BY <2>2, <2>3
<1>6. Loops(made, R)
  BY <1>5
<1> HIDE DEF made
<1>7. ASSUME NEW tid \in 0 .. R
      PROVE  made[tid] = IF tid = 0 THEN 0 ELSE IF share(tid - 1) = 0 THEN T
                         ELSE UpToLast(T, made[tid - 1] + share(tid - 1))
  BY <1>6
<1> HIDE DEF Loops
<1> DEFINE Enough(tid) == /\ made[tid] \in 0 .. T
                          /\ made[tid] = T \/ made[tid] >= tid * q + Smaller(tid, m)
<1> HIDE DEF q, m
<1>8. \A tid \in 0 .. R : Enough(tid)
  <2> DEFINE S == {k \in 0 .. R : ~Enough(k)}
  <2> SUFFICES ASSUME S # {} PROVE FALSE
    OBVIOUS
  <2>1. PICK k \in S : \A j \in S : k <= j
    <3>1. S \in SUBSET Nat
      OBVIOUS
    <3> HIDE DEF S
    <3> QED
      BY <3>1, LeastElement
  <2>2. k \in 0 .. R /\ ~Enough(k)
    OBVIOUS
  <2>3. CASE k = 0
    <3>1. made[0] = 0
      BY <1>7
    <3>2. 0 * q = 0 /\ Smaller(0, m) = 0
      BY <1>2 DEF Smaller
    <3> QED
      BY <2>2, <2>3, <3>1, <3>2
  <2>4. CASE k # 0
    <3>1. k - 1 \in 0 .. R /\ k - 1 \in Nat /\ Enough(k - 1)
      BY <2>1, <2>2, <2>4
    <3>2. made[k] = IF share(k - 1) = 0 THEN T ELSE UpToLast(T, made[k - 1] + share(k - 1))
      BY <1>7, <2>2, <2>4
    <3>3. share(k - 1) \in Nat /\ share(k - 1) >= q /\ (k - 1 < m => share(k - 1) >= q + 1)
      BY <1>4, <3>1
    <3>4. k * q = (k - 1) * q + q /\ (k - 1) * q \in Nat
      <4>1. (k - 1) + 1 = k
        BY <2>2
      <4> QED
        BY <1>2, <3>1, <4>1, Product
    <3>5. made[k] \in 0 .. T
      BY <3>1, <3>2, <3>3 DEF UpToLast, Smaller
    <3>6. made[k] = T \/ made[k] = made[k - 1] + share(k - 1)
      BY <3>2 DEF UpToLast, Smaller
    <3>7. made[k - 1] = T => made[k] = T
      BY <3>1, <3>2, <3>3 DEF UpToLast, Smaller
    <3>8. Smaller(k, m) = IF k - 1 < m THEN Smaller(k - 1, m) + 1 ELSE Smaller(k - 1, m)
      BY <1>2, <2>2 DEF Smaller
    <3>9. Smaller(k - 1, m) \in Nat
      BY <1>2, <3>1 DEF Smaller
    <3>10. made[k] = T \/ made[k] >= k * q + Smaller(k, m)
      BY <1>2, <3>1, <3>3, <3>4, <3>6, <3>7, <3>8, <3>9
    <3> QED
      BY <2>2, <3>5, <3>10
  <2> QED
    BY <2>3, <2>4
<1>9. R * q + Smaller(R, m) = T
  BY <1>2 DEF Smaller
<1> QED
  BY <1>1, <1>8, <1>9

-----------------------------------------------------------------------------
(* A round of the merge with at least two arrays a worker: the slices lie side by
   side, the first modlen of them one longer than the others.                  *)
LEMMA SlicesSideBySide ==
  ASSUME merge_len \in Nat, env.num_merge_threads \in Nat \ {0},
         2 * env.num_merge_threads <= merge_len
  PROVE  LET workers == 0 .. env.num_merge_threads - 1
         IN  /\ \A w \in workers : MergeSlice(w) # {}
             /\ \A v, w \in workers : v # w => MergeSlice(v) \cap MergeSlice(w) = {}
             /\ UNION {MergeSlice(w) : w \in workers} = 0 .. merge_len - 1
<1>n. PICK n \in Nat \ {0} : n = env.num_merge_threads
  OBVIOUS
<1>l. PICK l \in Nat : l = merge_len
  OBVIOUS
<1> DEFINE q == l \div n
           m == l % n
           Pos(w) == w * q + Smaller(w, m)
           workers == 0 .. n - 1
<1>1. q \in Nat /\ m \in 0 .. n - 1 /\ l = n * q + m
  BY Divided
<1>2. q >= 2
  <2> SUFFICES ASSUME q <= 1 PROVE FALSE
    BY <1>1
  <2>1. q * n <= 1 * n /\ q * n = n * q /\ q * n \in Nat
    BY <1>1, Product
  <2> HIDE DEF q, m
  <2> QED
    BY <1>n, <1>l, <1>1, <2>1
<1>3. \A w \in workers : MergeSlice(w) = IF Pos(w) >= l THEN {}
                                         ELSE Pos(w) .. Pos(w) + q + (IF w < m THEN 1 ELSE 0) - 1
  <2>1. merge_len \div env.num_merge_threads = q /\ merge_len % env.num_merge_threads = m
    BY <1>n, <1>l
  <2>2. ~(q <= 1)
    BY <1>1, <1>2
  <2> HIDE DEF q, m
  <2> QED
    BY <1>n, <1>l, <2>1, <2>2 DEF MergeSlice, ExtraBefore
<1> HIDE DEF q, m
<1>4. \A w \in Nat : /\ Pos(w) \in Nat
                     /\ Pos(w + 1) = Pos(w) + q + (IF w < m THEN 1 ELSE 0)
  <2> SUFFICES ASSUME NEW w \in Nat
               PROVE  Pos(w) \in Nat /\ Pos(w + 1) = Pos(w) + q + (IF w < m THEN 1 ELSE 0)
    OBVIOUS
  <2>1. w * q \in Nat /\ (w + 1) * q = w * q + q
    BY <1>1, Product
  <2> QED
    BY <1>1, <2>1 DEF Smaller
<1>5. \A v \in Nat, w \in Nat : v <= w => Pos(v) <= Pos(w)
  <2> SUFFICES ASSUME NEW v \in Nat, NEW w \in Nat, v <= w PROVE Pos(v) <= Pos(w)
    OBVIOUS
  <2>1. v * q <= w * q /\ v * q \in Nat /\ w * q \in Nat
    BY <1>1, Product
  <2> QED
    BY <1>1, <2>1 DEF Smaller
<1>6. Pos(0) = 0 /\ Pos(n) = l
  BY <1>1 DEF Smaller
<1> HIDE DEF Pos
<1>7. \A w \in workers : w \in Nat /\ w + 1 \in Nat /\ w + 1 <= n
  OBVIOUS
<1>8. \A w \in workers : MergeSlice(w) = Pos(w) .. Pos(w + 1) - 1
  <2> SUFFICES ASSUME NEW w \in workers PROVE MergeSlice(w) = Pos(w) .. Pos(w + 1) - 1
    OBVIOUS
  <2>1. Pos(w + 1) <= l
    BY <1>5, <1>6, <1>7
  <2>2. Pos(w) \in Nat /\ Pos(w + 1) = Pos(w) + q + (IF w < m THEN 1 ELSE 0)
    BY <1>4, <1>7
  <2>3. Pos(w) < l
    BY <1>1, <1>2, <2>1, <2>2
  <2>4. Pos(w + 1) - 1 = Pos(w) + q + (IF w < m THEN 1 ELSE 0) - 1 /\ ~(Pos(w) >= l)
    BY <1>1, <2>2, <2>3
  <2> QED
    BY <1>3, <2>4
<1>9. \A w \in workers : MergeSlice(w) # {}
  <2> SUFFICES ASSUME NEW w \in workers PROVE Pos(w) \in MergeSlice(w)
    OBVIOUS
  <2>1. Pos(w) \in Nat /\ Pos(w + 1) = Pos(w) + q + (IF w < m THEN 1 ELSE 0)
    BY <1>4, <1>7
  <2> QED
    BY <1>1, <1>2, <1>8, <2>1
<1>10. \A v, w \in workers : v # w => MergeSlice(v) \cap MergeSlice(w) = {}
  <2>1. ASSUME NEW v \in workers, NEW w \in workers, v < w
        PROVE  MergeSlice(v) \cap MergeSlice(w) = {}
    <3>1. Pos(v + 1) <= Pos(w)
      BY <1>5, <1>7, <2>1
    <3>2. Pos(v) \in Nat /\ Pos(v + 1) \in Nat /\ Pos(w) \in Nat /\ Pos(w + 1) \in Nat
      BY <1>4, <1>7
    <3> QED
      BY <1>8, <3>1, <3>2
  <2> SUFFICES ASSUME NEW v \in workers, NEW w \in workers, v # w
               PROVE  MergeSlice(v) \cap MergeSlice(w) = {}
    OBVIOUS
  <2>2. v < w \/ w < v
    OBVIOUS
  <2> QED
    BY <2>1, <2>2
<1>11. \A w \in workers : MergeSlice(w) \subseteq 0 .. l - 1
  <2> SUFFICES ASSUME NEW w \in workers PROVE MergeSlice(w) \subseteq 0 .. l - 1
    OBVIOUS
  <2>1. Pos(w + 1) <= l /\ Pos(w) \in Nat /\ Pos(w + 1) \in Nat
    BY <1>4, <1>5, <1>6, <1>7
  <2> QED
    BY <1>8, <2>1
<1>12. ASSUME NEW b \in 0 .. l - 1
       PROVE  \E w \in workers : b \in MergeSlice(w)
  <2> DEFINE S == {k \in 0 .. n : b < Pos(k)}
  <2>1. n \in S /\ S \in SUBSET Nat
    BY <1>6
  <2>2. PICK k \in S : \A j \in S : k <= j
    <3> HIDE DEF S
    <3> QED
      BY <2>1, LeastElement
  <2>3. k \in 0 .. n /\ b < Pos(k) /\ k # 0
    BY <1>6
  <2>4. k - 1 \in workers /\ (k - 1) + 1 = k
    BY <2>3
  <2>5. Pos(k - 1) <= b
    <3>1. k - 1 \notin S /\ k - 1 \in 0 .. n
      <4> HIDE DEF S
      <4> QED
        BY <2>2, <2>3, <2>4
    <3>2. Pos(k - 1) \in Nat
      BY <1>4, <2>4
    <3> QED
      BY <3>1, <3>2
  <2>6. Pos(k - 1) \in Nat /\ Pos(k) \in Nat
    BY <1>4, <2>3, <2>4
  <2>7. b \in MergeSlice(k - 1)
    BY <1>8, <2>3, <2>4, <2>5, <2>6
  <2> QED
    BY <2>4, <2>7
<1>13. UNION {MergeSlice(w) : w \in workers} = 0 .. l - 1
  BY <1>11, <1>12
<1> QED
  BY <1>n, <1>l, <1>9, <1>10, <1>13

-----------------------------------------------------------------------------
(* The inductive invariant: a call runs with counts that are not zero, enough reduce
   tasks or reduce threads for its merge threads, and every round of the merge has
   at least two arrays for each of its workers.                                  *)
Envs == [num_map_threads : Nat \ {0}, num_reduce_threads : Nat \ {0},
         num_merge_threads : Nat \ {0}, num_reduce_tasks : Nat \ {0},
         oneOutputQueuePerReduceTask : BOOLEAN, combiner : BOOLEAN, reduce : BOOLEAN]

CountsOk ==
  /\ phase \in {"map", "reduce", "merge"} => env \in Envs
  /\ phase \in {"map", "reduce"} /\ NumFinal(env) > 1
       => 2 * env.num_merge_threads <= NumFinal(env)
  /\ phase = "merge" => merge_len \in Nat /\ 2 * env.num_merge_threads <= merge_len
  /\ TasksAreMade

LEMMA InitCounts == Init => CountsOk
  BY DEF Init, CountsOk, TasksAreMade

(* The arguments of a call give counts that are not zero, whatever they ask for.  *)
LEMMA Parameters ==
  ASSUME NEW a \in Calls
  PROVE  /\ env_init(a) \in Envs
         /\ NumFinal(env_init(a)) > 1
              => 2 * env_init(a).num_merge_threads <= NumFinal(env_init(a))
<1>1. /\ NumProcs \in Nat \ {0}
      /\ ExtendedNumReduceTasks \in Nat \ {0, 1} /\ DefaultNumReduceTasks \in Nat \ {0, 1}
  BY MapReduceAssumption
<1>2. a \in [num_map_threads : Int, num_reduce_threads : Int, num_merge_threads : Int,
             use_one_queue_per_task : BOOLEAN, combiner : BOOLEAN, reduce : BOOLEAN]
  BY MapReduceAssumption
<1>3. /\ NumMapThreads(a) \in Nat \ {0} /\ NumReduceThreads(a) \in Nat \ {0}
      /\ NumReduceTasks(a) \in Nat \ {0, 1}
  BY <1>1, <1>2 DEF NumMapThreads, NumReduceThreads, NumReduceTasks
<1>4. /\ NumMergeThreads(a) \in Nat \ {0}
      /\ 2 * NumMergeThreads(a) <= NumReduceTasks(a)
      /\ ~a.use_one_queue_per_task /\ NumReduceThreads(a) > 1
           => 2 * NumMergeThreads(a) <= NumReduceThreads(a)
  BY <1>2, <1>3 DEF NumMergeThreads, Smaller, Larger
<1>5. env_init(a) \in Envs
  BY <1>2, <1>3, <1>4 DEF env_init, Envs
<1> QED
  BY <1>2, <1>3, <1>4, <1>5 DEF env_init, NumFinal

LEMMA CallStep ==
  ASSUME CountsOk, NEW a \in Calls, NEW data \in Inputs, map_reduce(a, data)
  PROVE  CountsOk'
<1> DEFINE e == env_init(a)
           threads == MapThreads(e, data)
<1>1. /\ e \in Envs
      /\ NumFinal(e) > 1 => 2 * e.num_merge_threads <= NumFinal(e)
  BY Parameters
<1> HIDE DEF e
<1>2. env' = [e EXCEPT !.num_map_threads = IF gen_map_tasks(data) = {} THEN @ ELSE threads]
  BY DEF map_reduce, e
<1>3. CASE gen_map_tasks(data) = {}
  <2>1. phase' = "aborted"
    BY <1>3 DEF map_reduce
  <2> QED
    BY <2>1 DEF CountsOk, TasksAreMade
<1>4. CASE gen_map_tasks(data) # {}
  <2>1. threads \in Nat \ {0}
    <3>1. data \in Seq(Seq(Nat))
      BY MapReduceAssumption
    <3>2. gen_map_tasks(data) = 1 .. Len(data) /\ Len(data) \in Nat
      BY <3>1 DEF gen_map_tasks
    <3>3. Cardinality(gen_map_tasks(data)) = Len(data) /\ Len(data) # 0
      <4>1. Cardinality(1 .. Len(data)) = IF 1 > Len(data) THEN 0 ELSE Len(data) - 1 + 1
        BY <3>2, FS_Interval
      <4>2. Len(data) # 0
        BY <1>4, <3>2
      <4> QED
        BY <3>2, <4>1, <4>2
    <3> QED
      BY <1>1, <3>2, <3>3 DEF MapThreads, Smaller, Envs
  <2> HIDE DEF threads
  <2>2. env' \in Envs /\ NumFinal(env') = NumFinal(e)
        /\ env'.num_merge_threads = e.num_merge_threads
    BY <1>1, <1>2, <1>4, <2>1 DEF Envs, NumFinal
  <2>3. phase' \in {"map", "aborted"}
    BY <1>4 DEF map_reduce, start_workers
  <2> QED
    BY <1>1, <2>2, <2>3 DEF CountsOk, TasksAreMade, NumFinal
<1> QED
  BY <1>3, <1>4

LEMMA ReduceStep ==
  ASSUME CountsOk, reduce
  PROVE  CountsOk'
<1> DEFINE T == env.num_reduce_tasks
           R == env.num_reduce_threads
           N == env.num_map_threads
<1>1. /\ env' = env /\ phase = "map" /\ phase' \in {"reduce", "aborted"}
      /\ queued' = gen_reduce_tasks(T, R, N)
  BY DEF reduce, start_workers
<1>2. env \in Envs /\ (NumFinal(env) > 1 => 2 * env.num_merge_threads <= NumFinal(env))
  BY <1>1 DEF CountsOk
<1>3. T \in Nat \ {0} /\ R \in Nat \ {0} /\ N \in Nat \ {0}
  BY <1>2 DEF Envs
<1>4. N <= R \/ T % R = 0 \/ T < R => gen_reduce_tasks(T, R, N) = T
  BY <1>3, AllTasksMade
<1>5. TasksAreMade'
  BY <1>1, <1>4 DEF TasksAreMade
<1> QED
  BY <1>1, <1>2, <1>5 DEF CountsOk, NumFinal

LEMMA MergeSteps ==
  ASSUME CountsOk, merge \/ merge_round
  PROVE  CountsOk'
<1>1. CASE merge
  <2>1. /\ phase = "reduce" /\ env' = env /\ queued' = queued
        /\ \/ phase' = "done"
           \/ ~(NumFinal(env) <= 1) /\ merge_len' = NumFinal(env) /\ phase' \in {"merge", "aborted"}
    BY <1>1 DEF merge, start_workers
  <2>2. env \in Envs /\ (NumFinal(env) > 1 => 2 * env.num_merge_threads <= NumFinal(env))
    BY <2>1 DEF CountsOk
  <2>3. TasksAreMade'
    BY <2>1 DEF CountsOk, TasksAreMade
  <2>4. NumFinal(env) \in Nat /\ (NumFinal(env) > 1 \/ NumFinal(env) <= 1)
    BY <2>2 DEF NumFinal, Envs
  <2> QED
    BY <2>1, <2>2, <2>3, <2>4 DEF CountsOk
<1>2. CASE merge_round
  <2> DEFINE len == env.num_merge_threads
             threads == FewerMergeThreads(len)
  <2>1. /\ phase = "merge" /\ queued' = queued /\ merge_len' = len
        /\ env' = [env EXCEPT !.num_merge_threads = threads]
        /\ \/ phase' = "done"
           \/ len > 1 /\ phase' \in {"merge", "aborted"}
    BY <1>2 DEF merge_round, start_workers
  <2>2. env \in Envs /\ len \in Nat \ {0}
    BY <2>1 DEF CountsOk, Envs
  <2>3. threads \in Nat \ {0} /\ (len > 1 => 2 * threads <= len)
    BY <2>2 DEF FewerMergeThreads, Larger
  <2> HIDE DEF threads
  <2>4. env' \in Envs /\ env'.num_merge_threads = threads
        /\ env'.num_reduce_tasks = env.num_reduce_tasks
        /\ env'.num_reduce_threads = env.num_reduce_threads
        /\ env'.num_map_threads = env.num_map_threads
    BY <2>1, <2>2, <2>3 DEF Envs
  <2>5. TasksAreMade'
    BY <2>1, <2>4 DEF CountsOk, TasksAreMade
  <2> QED
    BY <2>1, <2>2, <2>3, <2>4, <2>5 DEF CountsOk
<1> QED
  BY <1>1, <1>2

LEMMA CountsStep ==
  ASSUME CountsOk, [Next]_vars
  PROVE  CountsOk'
<1>1. ASSUME NEW w, Work(w)
      PROVE  CountsOk'
  <2>1. UNCHANGED <<phase, env, queued, merge_len>>
    BY <1>1 DEF Work, map_worker_do_next_task, map_worker_returns, reduce_worker_do_next_task,
                reduce_worker_returns, merge_worker
  <2> QED
    BY <2>1 DEF CountsOk, TasksAreMade, NumFinal
<1>2. CASE UNCHANGED vars
  BY <1>2 DEF CountsOk, TasksAreMade, NumFinal, vars
<1>3. CASE env_fini \/ map_reduce_finalize
  BY <1>3 DEF env_fini, map_reduce_finalize, CountsOk, TasksAreMade
<1> QED
  BY <1>1, <1>2, <1>3, CallStep, ReduceStep, MergeSteps DEF Next, Main

(* The counts of a call are fit for its phases at every moment.                    *)
THEOREM Counts == Spec => []CountsOk
<1>1. CountsOk /\ [Next]_vars => CountsOk'
  BY CountsStep
<1> QED
  BY <1>1, InitCounts, PTL DEF Spec

(* For every combination of thread counts, numbers of reduce tasks and processors,
   gen_reduce_tasks makes each task (where its leftover is right) and every round of
   the merge gives each array to exactly one worker and each worker at least one
   (map_reduce.c:1254-1296, 1020-1042).                                             *)
THEOREM WorkIsDividedHolds == Spec => []WorkIsDivided
<1>1. CountsOk => WorkIsDivided
  <2> SUFFICES ASSUME CountsOk PROVE TasksAreMade /\ EveryArrayMergedOnce
    BY DEF WorkIsDivided
  <2>1. ASSUME phase = "merge"
        PROVE  EveryArrayMergedOnce
    <3>1. /\ merge_len \in Nat /\ env.num_merge_threads \in Nat \ {0}
          /\ 2 * env.num_merge_threads <= merge_len
      BY <2>1 DEF CountsOk, Envs
    <3> QED
      BY <3>1, SlicesSideBySide DEF EveryArrayMergedOnce
  <2> QED
    BY <2>1 DEF CountsOk, EveryArrayMergedOnce
<1> QED
  BY <1>1, Counts, PTL
=============================================================================
