---------------------------- MODULE MCMapReduce ----------------------------
(***************************************************************************)
(* Calls and inputs for the runs of MapReduce.                             *)
(***************************************************************************)
EXTENDS MapReduce, MCKeyVals

Call(maps, reduces, merges, perTask, comb, red) ==
  [num_map_threads |-> maps, num_reduce_threads |-> reduces, num_merge_threads |-> merges,
   use_one_queue_per_task |-> perTask, combiner |-> comb, reduce |-> red]

(* Counts equal, smaller and larger from phase to phase, and the defaults; both kinds of
   final arrays; a combiner before a reduce function, or neither.                   *)
MixedCalls ==
  {Call(maps, reduces, merges, perTask, comb, comb) :
     maps \in {0, 1, 3}, reduces \in {0, 1, 4}, merges \in {0, 2},
     perTask \in BOOLEAN, comb \in BOOLEAN}

(* Three map tasks that share keys; one; none.                                      *)
MixedInputs == {<< <<1, 4>>, <<4, 0, 4>>, <<2>> >>, << <<3, 3>> >>, << >>}

(* Reduce tasks that do not divide evenly over fewer threads than map threads.      *)
UnevenCalls == {Call(3, 2, 0, FALSE, FALSE, TRUE), Call(2, 2, 0, FALSE, FALSE, TRUE)}

ThreeTasks == {<< <<1, 4>>, <<4, 0>>, <<2>> >>}

=============================================================================
