------------------------------ MODULE KeyVals ------------------------------
(***************************************************************************)
(* The key-value arrays of the Phoenix runtime (map_reduce.c, iterator.c): *)
(* sorted insertion of intermediate and of final pairs, the combiner's     *)
(* pass, the reduce worker's walk over the arrays of all map threads, and  *)
(* the k-way merge.                                                        *)
(*                                                                         *)
(* An intermediate array is a sequence of [key, vals]; vals is the list of *)
(* chunks, newest first, each [size, array].  A final array is a sequence  *)
(* of [key, val].  Keys are integers, key_cmp is their difference; C's     *)
(* index n is position n + 1.                                              *)
(***************************************************************************)
EXTENDS Integers, FiniteSets, SequencesExt

CONSTANT ChunkLen    (* DEFAULT_VALS_ARR_LEN                                *)

ASSUME KeyValsAssumption == ChunkLen \in Nat \ {0}

(* What n rounds of a loop make of first.  The state of a round is a bound variable,
   which TLC, unlike a parameter, evaluates once.                              *)
Loop(Round(_, _), first, n) ==
  LET after[m \in 0 .. n] ==
        IF m = 0 THEN first
        ELSE CHOOSE t \in {Round(s, m) : s \in {after[m - 1]}} : TRUE
  IN  after[n]

Concat(seqs) == Loop(LAMBDA s, n : s \o seqs[n], << >>, Len(seqs))

KeyAt(arr, n) == arr[n + 1].key

(***************************************************************************)
(* Both insertions search the same way.                                    *)
(***************************************************************************)
BisectLeft(arr, key) ==
  LET b[high \in 0 .. Len(arr), low \in -1 .. Len(arr)] ==
        IF high - low <= 1 THEN low
        ELSE LET next == (high + low) \div 2
             IN  IF KeyAt(arr, next) >= key THEN b[next, low] ELSE b[high, next]
  IN  b[Len(arr), -1]

(* The binary search: the last index with a key not above the given one, or -1. *)
Bisect(arr, key) ==
  LET b[high \in 0 .. Len(arr), low \in -1 .. Len(arr)] ==
        IF high - low <= 1 THEN low
        ELSE LET next == (high + low) \div 2
             IN  IF KeyAt(arr, next) > key THEN b[next, low] ELSE b[high, next]
  IN  b[Len(arr), -1]

(* Where the search ends, and its correction when the key there is smaller.   *)
Low(arr, key) == IF Bisect(arr, key) < 0 THEN 0 ELSE Bisect(arr, key)

UncorrectedPos(arr, key) == Low(arr, key)

SearchedPos(arr, key) ==
  IF Len(arr) > 0 /\ KeyAt(arr, Low(arr, key)) < key
  THEN Low(arr, key) + 1 ELSE Low(arr, key)

BelowLast(arr, key) == arr = << >> \/ Last(arr).key > key

(* insert_keyval_merged: whether the key is there, and its place.            *)
Found(arr, key) ==
  /\ arr # << >>
  /\ IF BelowLast(arr, key) THEN KeyAt(arr, Low(arr, key)) = key ELSE Last(arr).key = key

MergedPos(arr, key) ==
  IF BelowLast(arr, key) THEN SearchedPos(arr, key)
  ELSE IF Last(arr).key < key THEN Len(arr) ELSE Len(arr) - 1

(* A full chunk is followed by one of twice its size, put before it.         *)
AddVal(vals, val) ==
  CASE vals = << >> -> << [size |-> ChunkLen, array |-> <<val>>] >>
    [] vals # << >> /\ Len(Head(vals).array) >= Head(vals).size ->
         << [size |-> 2 * Head(vals).size, array |-> <<val>>] >> \o vals
    [] OTHER -> [vals EXCEPT ![1].array = Append(@, val)]

insert_keyval_merged(arr, key, val) ==
  LET low  == MergedPos(arr, key)
      room == IF Found(arr, key) THEN arr ELSE InsertAt(arr, low + 1, [key |-> key, vals |-> << >>])
  IN  [room EXCEPT ![low + 1].vals = AddVal(@, val)]

(* insert_keyval, with one queue per reduce task (no sorting) or without.    *)
insert_keyval(arr, key, val, oneQueue) ==
  LET low == IF BelowLast(arr, key) THEN SearchedPos(arr, key) ELSE Len(arr)
  IN  IF oneQueue THEN Append(arr, [key |-> key, val |-> val])
      ELSE InsertAt(arr, low + 1, [key |-> key, val |-> val])

(***************************************************************************)
(* iter_next over lists of chunks, and run_combiner for one array.         *)
(***************************************************************************)
IterVals(lists) ==
  Concat([n \in DOMAIN lists |->
    Concat([c \in DOMAIN lists[n].vals |-> lists[n].vals[c].array])])

CombinedChunksKept(arr) ==
  [n \in DOMAIN arr |->
    [arr[n] EXCEPT !.vals = << [Head(@) EXCEPT !.array = << UNION ToSet(IterVals(<<arr[n]>>)) >>] >>
                            \o Tail(@)]]

(* Only the newest chunk is kept; it holds the one value the combiner makes of
   all of them: a value is the set of the emissions it was made of.           *)
Combined(arr) ==
  [n \in DOMAIN arr |->
    [arr[n] EXCEPT !.vals = << [size  |-> Head(@).size,
                                array |-> << UNION ToSet(IterVals(<<arr[n]>>)) >>] >>]]

(***************************************************************************)
(* reduce_worker_do_next_task: the passes of the do loop over the arrays   *)
(* of the map threads.  A pass takes from every array the entries with the *)
(* key that the pass before found least, and finds the next least key.     *)
(* A key that may be missing is a sequence of at most one.                 *)
(***************************************************************************)
Exhausted(arrays, pos) == \A t \in DOMAIN arrays : pos[t] >= Len(arrays[t])

FoundFirst(key, next) == next = << >>

FoundLess(key, next) == next = << >> \/ key < next[1]

Taken(arr, pos, min) ==
  CHOOSE n \in pos .. Len(arr) :
    /\ \A m \in pos .. n - 1 : <<KeyAt(arr, m)>> = min
    /\ n < Len(arr) => <<KeyAt(arr, n)>> # min

ScanArray(arr, s, t) ==
  LET n == Taken(arr, s.pos[t], s.min)
  IN  [s EXCEPT !.pos[t] = n,
                !.lists = @ \o SubSeq(arr, s.pos[t] + 1, n),
                !.next = IF n < Len(arr) /\ FoundLess(KeyAt(arr, n), @)
                         THEN <<KeyAt(arr, n)>> ELSE @]

Pass(arrays, s) ==
  LET scanned == Loop(LAMBDA u, t : ScanArray(arrays[t], u, t), s, Len(arrays))
  IN  [scanned EXCEPT !.min = scanned.next, !.next = << >>, !.lists = << >>,
         !.calls = IF s.min = << >> THEN @
                   ELSE Append(@, [key |-> s.min[1], lists |-> scanned.lists])]

(* The calls of the reduce function, in order: [key, lists].                 *)
ReduceCalls(arrays) ==
  LET first == [pos |-> [t \in DOMAIN arrays |-> 0],
                min |-> << >>, next |-> << >>, lists |-> << >>, calls |-> << >>]
      pass(s, n) == IF n > 1 /\ Exhausted(arrays, s.pos) THEN s ELSE Pass(arrays, s)
  IN  Loop(pass, first, 1 + Len(Concat(arrays))).calls

(***************************************************************************)
(* merge_results: repeatedly the least of the first pairs, of equal keys    *)
(* the one of the earliest array.                                          *)
(***************************************************************************)
FirstNonEmpty(arrays, pos) ==
  CHOOSE t \in DOMAIN arrays : pos[t] < Len(arrays[t])

LeastHead(arrays, pos) ==
  CHOOSE t \in DOMAIN arrays :
    /\ pos[t] < Len(arrays[t])
    /\ \A u \in DOMAIN arrays : pos[u] < Len(arrays[u]) =>
         \/ KeyAt(arrays[t], pos[t]) < KeyAt(arrays[u], pos[u])
         \/ KeyAt(arrays[t], pos[t]) = KeyAt(arrays[u], pos[u]) /\ t <= u

merge_results(arrays) ==
  LET next(s, n) ==
        LET t == LeastHead(arrays, s.pos)
        IN  [pos |-> [s.pos EXCEPT ![t] = @ + 1],
             out |-> Append(s.out, arrays[t][s.pos[t] + 1])]
  IN  Loop(next, [pos |-> [t \in DOMAIN arrays |-> 0], out |-> << >>],
           Len(Concat(arrays))).out

=============================================================================
