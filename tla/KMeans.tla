------------------------------- MODULE KMeans -------------------------------
(* kmeans.c of Phoenix: rounds of map_reduce that give every point to the      *)
(* cluster with the nearest mean and compute the means again, until a round    *)
(* gives no point to another cluster.  Map tasks of a round work at the same   *)
(* time; the runtime between map and reduce is that of MapReduce: the reduce   *)
(* function is called for each key once, with all values emitted for it.       *)
EXTENDS Integers, Sequences, FiniteSetsExt

CONSTANTS NumThreads,   \* map threads
          ReqUnits,     \* points in a piece
          Starts        \* what generate_points and generate_means may make

VARIABLES points,
          means,        \* per cluster its mean, and whether that is memory of its own
          clusters,     \* per point its cluster
          modified, first_run,
          next_point,   \* where the splitter is
          tasks,        \* pieces nobody has taken
          running,      \* tasks of map threads
          emitted,      \* keys and values given to emit_intermediate in this round
          result,       \* what the reduce tasks have emitted
          pc

vars == <<points, means, clusters, modified, first_run, next_point, tasks, running,
          emitted, result, pc>>

num_points == Len(points)
num_means  == Len(means)

sq(n) == n * n
get_sq_dist(v, w) == MapThenSumSet(LAMBDA i : sq(v[i] - w[i]), DOMAIN v)

(* The first of the clusters whose means are nearest. *)
Nearest(point) ==
  LET dist(j) == get_sq_dist(point, means[j].val)
  IN  CHOOSE j \in 1 .. num_means :
        \A k \in 1 .. num_means : IF k < j THEN dist(j) < dist(k) ELSE dist(j) <= dist(k)

(* main makes one array for all the initial means: none of them is memory that
   can be freed by itself.                                                     *)
Init ==
  /\ \E start \in Starts :
       /\ points = start.points
       /\ means = [j \in DOMAIN start.means |-> [val |-> start.means[j], own |-> FALSE]]
       /\ clusters = [i \in DOMAIN start.points |-> -1]
  /\ modified = TRUE /\ first_run = TRUE
  /\ next_point = 0 /\ tasks = {} /\ running = {} /\ emitted = {} /\ result = {}
  /\ pc = "loop"

StartRound ==
  /\ pc = "loop" /\ modified
  /\ modified' = FALSE /\ next_point' = 0
  /\ emitted' = {} /\ result' = {}
  /\ pc' = "split"
  /\ UNCHANGED <<points, means, clusters, first_run, tasks, running>>

PieceLength ==
  IF next_point + ReqUnits >= num_points
    THEN num_points - (next_point + ReqUnits) + ReqUnits
    ELSE ReqUnits

kmeans_splitter ==
  /\ pc = "split" /\ next_point < num_points
  /\ tasks' = tasks \cup {[first |-> next_point + 1, length |-> PieceLength]}
  /\ next_point' = next_point + ReqUnits
  /\ UNCHANGED <<points, means, clusters, modified, first_run, running, emitted, result, pc>>

AllSplit ==
  /\ pc = "split" /\ next_point >= num_points
  /\ pc' = "map"
  /\ UNCHANGED <<points, means, clusters, modified, first_run, next_point, tasks, running,
                 emitted, result>>

TakeTask ==
  /\ pc = "map" /\ Cardinality(running) < NumThreads
  /\ \E t \in tasks :
       /\ tasks' = tasks \ {t}
       /\ running' = running \cup {[first |-> t.first, length |-> t.length, i |-> 0]}
  /\ UNCHANGED <<points, means, clusters, modified, first_run, next_point, emitted, result, pc>>

(* Whether a point has changed its cluster: of the last point only. *)
ModifiedByLast(point, min_idx) == clusters[point] # min_idx

(* Tasks set modified, none of them ever clears it. *)
Modified(point, min_idx) == modified \/ clusters[point] # min_idx

(* The next point of task t. *)
find_clusters(t) ==
  LET point   == t.first + t.i
      min_idx == Nearest(points[point])
  IN  /\ t.i < t.length
      /\ clusters' = [clusters EXCEPT ![point] = min_idx]
      /\ modified' = Modified(point, min_idx)
      /\ emitted' = emitted \cup {[key |-> min_idx, point |-> point, task |-> t.first]}
      /\ running' = (running \ {t}) \cup {[t EXCEPT !.i = @ + 1]}
      /\ UNCHANGED <<points, means, first_run, next_point, tasks, result, pc>>

TaskReturns(t) ==
  /\ t.i = t.length
  /\ running' = running \ {t}
  /\ UNCHANGED <<points, means, clusters, modified, first_run, next_point, tasks, emitted,
                 result, pc>>

kmeans_map == pc = "map" /\ \E t \in running : find_clusters(t) \/ TaskReturns(t)

AllMapped ==
  /\ pc = "map" /\ tasks = {} /\ running = {}
  /\ pc' = "reduce"
  /\ UNCHANGED <<points, means, clusters, modified, first_run, next_point, tasks, running,
                 emitted, result>>

(* Sums divided by their number, rounded down. *)
MeanOf(vals) ==
  [d \in DOMAIN points[1] |->
     MapThenSumSet(LAMBDA e : points[e.point][d], vals) \div Cardinality(vals)]

ReducedKeys == {r.key : r \in result}

kmeans_reduce ==
  /\ pc = "reduce"
  /\ \E k \in {e.key : e \in emitted} \ ReducedKeys :
       result' = result \cup {[key |-> k, val |-> MeanOf({e \in emitted : e.key = k})]}
  /\ UNCHANGED <<points, means, clusters, modified, first_run, next_point, tasks, running,
                 emitted, pc>>

(* A cluster without points keeps its mean. *)
Adopted(j) ==
  IF j \in ReducedKeys
    THEN [val |-> (CHOOSE r \in result : r.key = j).val, own |-> TRUE]
    ELSE means[j]

(* In every round but the first, main frees the mean it replaces.  That of a
   cluster without a point until now lies in main's array: what follows the
   call of free() is undefined.                                               *)
AdoptMeans ==
  /\ pc = "reduce" /\ ReducedKeys = {e.key : e \in emitted}
  /\ means' = [j \in 1 .. num_means |-> Adopted(j)]
  /\ first_run' = FALSE
  /\ pc' = IF ~first_run /\ \E j \in ReducedKeys : ~means[j].own THEN "undefined" ELSE "loop"
  /\ UNCHANGED <<points, clusters, modified, next_point, tasks, running, emitted, result>>

(* At the end main frees the means one by one. *)
Finish ==
  /\ pc = "loop" /\ ~modified
  /\ pc' = IF \E j \in 1 .. num_means : ~means[j].own THEN "undefined" ELSE "done"
  /\ UNCHANGED <<points, means, clusters, modified, first_run, next_point, tasks, running,
                 emitted, result>>

Done == pc \in {"done", "undefined"} /\ UNCHANGED vars

Next == \/ StartRound \/ kmeans_splitter \/ AllSplit \/ TakeTask \/ kmeans_map
        \/ AllMapped \/ kmeans_reduce \/ AdoptMeans \/ Finish \/ Done

PointsOf(j) == {i \in DOMAIN points : clusters[i] = j}

(* When no round is to follow, the clusters are a fixpoint although means and
   clusters were computed one after the other: every point is in the cluster
   whose mean, as it is now, is nearest, and every cluster's mean is that of the
   points in it.  In each round every point is emitted once, for the cluster it
   was given (kmeans.c:228-256, 273-292, 426-455).                            *)
ClustersAreRight ==
  /\ pc = "reduce" =>
       /\ Cardinality(emitted) = num_points
       /\ \A i \in DOMAIN points : \E e \in emitted : e.point = i /\ e.key = clusters[i]
  /\ (pc = "loop" /\ ~modified) =>
       \A j \in 1 .. num_means :
         /\ \A i \in PointsOf(j) : Nearest(points[i]) = j
         /\ PointsOf(j) # {} =>
              means[j].val = MeanOf({[point |-> i] : i \in PointsOf(j)})

(* main frees what malloc or calloc returned, and once. *)
FreesItsOwn == pc # "undefined"

=============================================================================
