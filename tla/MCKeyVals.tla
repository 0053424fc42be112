----------------------------- MODULE MCKeyVals -----------------------------
(***************************************************************************)
(* The algorithms of KeyVals against what they should compute, for every   *)
(* sequence of pairs [thread, key] that the two threads emit: facts about  *)
(* constants, which TLC evaluates once.  The value of a pair is its place  *)
(* in the sequence, as a set since combining values unites them.           *)
(***************************************************************************)
EXTENDS KeyVals

LOCAL Threads == 1 .. 2
LOCAL Keys    == 1 .. 4

(* Every sequence of at most five pairs; what each thread's insertions make of it. *)
PairSequences == UNION {[1 .. n -> [thread : Threads, key : Keys]] : n \in 0 .. 5}

MergedArrays(e) ==
  Loop(LAMBDA arrs, n : [arrs EXCEPT ![e[n].thread] = insert_keyval_merged(@, e[n].key, {n})],
       [t \in Threads |-> << >>], Len(e))
SortedArrays(e) ==
  Loop(LAMBDA arrs, n : [arrs EXCEPT ![e[n].thread] = insert_keyval(@, e[n].key, {n}, FALSE)],
       [t \in Threads |-> << >>], Len(e))

ValsOf(e, t, k) == {n \in DOMAIN e : e[n].key = k /\ e[n].thread = t}
Listed(vs, S) == Len(vs) = Cardinality(S) /\ ToSet(vs) = {{n} : n \in S}

(* An intermediate array has each key once, in increasing order, with all the
   values emitted with it (map_reduce.c:1439-1556, iterator.c:113-154).        *)
MergedIsRight(e, merged) ==
  \A t \in Threads :
    /\ \A m, n \in DOMAIN merged[t] : m < n => merged[t][m].key < merged[t][n].key
    /\ {merged[t][n].key : n \in DOMAIN merged[t]} = {k \in Keys : ValsOf(e, t, k) # {}}
    /\ \A n \in DOMAIN merged[t] :
         Listed(IterVals(<<merged[t][n]>>), ValsOf(e, t, merged[t][n].key))

(* A final array has all the pairs emitted, in the order of their keys
   (map_reduce.c:1558-1622).                                                   *)
IsSortedListOf(e, arr, S) ==
  /\ \A m, n \in DOMAIN arr : m < n => arr[m].key <= arr[n].key
  /\ Listed([n \in DOMAIN arr |-> arr[n].val], S)
  /\ \A n \in DOMAIN arr : arr[n].key = e[CHOOSE m \in arr[n].val : TRUE].key

SortedIsRight(e, sorted) ==
  \A t \in Threads : IsSortedListOf(e, sorted[t], {n \in DOMAIN e : e[n].thread = t})

(* The reduce function is called for each key once, in the order of the keys, with
   every value that any thread emitted; the iterator, which has room for one list
   a thread, never overflows (map_reduce.c:838-911, iterator.c:93-97).          *)
ReduceIsRight(e, calls) ==
  /\ \A m, n \in DOMAIN calls : m < n => calls[m].key < calls[n].key
  /\ {calls[n].key : n \in DOMAIN calls} = {e[n].key : n \in DOMAIN e}
  /\ \A n \in DOMAIN calls :
       /\ Listed(IterVals(calls[n].lists), {m \in DOMAIN e : e[m].key = calls[n].key})
       /\ Len(calls[n].lists) <= Cardinality(Threads)

(* Merging sorted arrays gives all their pairs, sorted (map_reduce.c:1624-1681).  *)
MergeIsRight(e, result) == IsSortedListOf(e, result, DOMAIN e)

ASSUME KeyValsAreRight ==
  \A e \in PairSequences :
    \A merged \in {MergedArrays(e)}, sorted \in {SortedArrays(e)} :
      /\ MergedIsRight(e, merged)
      /\ SortedIsRight(e, sorted)
      /\ ReduceIsRight(e, ReduceCalls(merged))
      /\ MergeIsRight(e, merge_results(sorted))

=============================================================================
