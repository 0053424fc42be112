-------------------------------- MODULE Radix -------------------------------
(***************************************************************************)
(* The parallel radix sort of splash2/radix.C.  Every process counts the   *)
(* digits of its keys; the counts are summed over a binary tree of nodes,  *)
(* first upwards, then downwards, where a process waits for another with   *)
(* WAITPAUSE and CLEARPAUSE until it says SETPAUSE (ENV.h); then every     *)
(* process moves its keys to their places.  Barriers are between these     *)
(* phases.                                                                 *)
(*                                                                         *)
(* A loop over the digits or over a process's keys is one step; NoRace     *)
(* shows that no other process can tell.                                   *)
(***************************************************************************)
EXTENDS Integers, FiniteSets

CONSTANTS P,             (* number_of_processors                               *)
          R,             (* radix                                              *)
          NumKeys,       (* num_keys                                           *)
          NumDigits,     (* max_num_digits                                     *)
          Inputs,        (* the arrays of keys that init may produce           *)
          Spurious       (* does pthread_cond_wait return without a signal?    *)

ASSUME RadixAssumption ==
  /\ {P, R, NumKeys, NumDigits} \subseteq Nat \ {0}
  /\ Inputs \subseteq [0 .. NumKeys - 1 -> 0 .. R ^ NumDigits - 1]
  /\ Spurious \in BOOLEAN

Procs     == 0 .. P - 1
Digits    == 0 .. R - 1
Positions == 0 .. NumKeys - 1
Heights   == 0 .. P

(* main's partition of num_keys: after p rounds of its loop sum_i is the       *)
(* quotient and sum_f the remainder of p * num_keys by the number of           *)
(* processes.                                                                  *)
key_partition(p) == (p * NumKeys) \div P
MyKeys(p) == key_partition(p) .. key_partition(p + 1) - 1

(***************************************************************************)
(* The nodes of prefix_tree: level nodes at each height, from base on; a   *)
(* process climbs from Node(p, h) to Node(p, h + 1).  main accepts every P, *)
(* but these nodes are a tree only when P is a power of two.               *)
(***************************************************************************)
level[h \in Heights] == IF h = 0 THEN P ELSE level[h - 1] \div 2
base[h \in Heights]  == IF h = 0 THEN 0 ELSE base[h - 1] + level[h - 1]

Offset(p, h) == p \div 2 ^ h
Odd(n)       == n % 2 = 1
Node(p, h)   == base[h] + Offset(p, h)
Nodes        == 0 .. 2 * P - 1
Root         == 2 * P - 2

(* The height at which p stops climbing, looking from h upwards.             *)
StopFrom(p, h) == CHOOSE k \in h .. P : /\ ~Odd(Offset(p, k))
                                        /\ \A j \in h .. k - 1 : Odd(Offset(p, j))

my_node(p)    == IF p = P - 1 THEN Root ELSE Node(p, StopFrom(p, 0))
TheirNodeAbove(p) == Node(p, StopFrom(p, 0) + 1)
their_node(p) == Node(p, StopFrom(p, StopFrom(p, 0) + 1))

VARIABLES
  key,                  (* the two arrays keys are sorted from and into        *)
  densities, ranks,     (* of each node of prefix_tree                         *)
  Flag,                 (* of each node's PAUSE                                *)
  rank_me, rank_ff,     (* of each process                                     *)
  pc, h, loopnum, from, (* location and local variables of each process        *)
  input                 (* history: the keys that init made                    *)

treeVars == <<densities, ranks>>
rankVars == <<rank_me, rank_ff>>
vars == <<key, treeVars, Flag, rankVars, pc, h, loopnum, from, input>>

AtBarrier == {"counted", "summed", "ranked", "moved", "sorted"}

Zeros == [d \in Digits |-> 0]
Plus(f, g) == [d \in Digits |-> f[d] + g[d]]

Digit(k, n) == (k \div R ^ n) % R

(* key_density: the keys of p with this digit or a smaller one.              *)
UpTo(f) == LET sum[d \in Digits] == IF d = 0 THEN f[0] ELSE sum[d - 1] + f[d]
           IN  [d \in Digits |-> sum[d]]

Init ==
  /\ input \in Inputs
  /\ key = [a \in {0, 1} |-> IF a = 0 THEN input ELSE [x \in Positions |-> 0]]
  /\ densities = [n \in Nodes |-> Zeros] /\ ranks = [n \in Nodes |-> Zeros]
  /\ Flag = [n \in Nodes |-> 0]
  /\ rank_me = [p \in Procs |-> Zeros] /\ rank_ff = [p \in Procs |-> Zeros]
  /\ pc = [p \in Procs |-> "count"] /\ h = [p \in Procs |-> 0]
  /\ loopnum = [p \in Procs |-> 0] /\ from = [p \in Procs |-> 0]

Goto(p, there) == pc' = [pc EXCEPT ![p] = there]

(* The histogram of p's digits.                                              *)
Count(p) ==
  /\ pc[p] = "count"
  /\ rank_me' = [rank_me EXCEPT ![p] =
       [d \in Digits |-> Cardinality({x \in MyKeys(p) : Digit(key[from[p]][x], loopnum[p]) = d})]]
  /\ Goto(p, "counted")
  /\ UNCHANGED <<key, treeVars, Flag, rank_ff, h, loopnum, from, input>>

(* A barrier opens when every process has come to one.                       *)
Behind(place, p) ==
  CASE place = "counted" -> "leaf"
    [] place = "summed"  -> IF p = P - 1 THEN "left" ELSE "take"
    [] place = "ranked"  -> "move"
    [] place = "moved"   -> IF loopnum[p] < NumDigits - 1 THEN "count" ELSE "sorted"
    [] place = "sorted"  -> "done"

Barrier ==
  /\ \A p \in Procs : pc[p] \in AtBarrier
  /\ pc' = [p \in Procs |-> Behind(pc[p], p)]
  /\ loopnum' = [p \in Procs |-> IF pc[p] = "moved" THEN loopnum[p] + 1 ELSE loopnum[p]]
  /\ h' = [p \in Procs |-> 0]
  /\ UNCHANGED <<key, treeVars, Flag, rankVars, from, input>>

(* Upwards: p fills its leaf and climbs while it comes from the right; it    *)
(* waits for the one that comes from the left, or tells the one that will.   *)
Climb(p, k) == /\ h' = [h EXCEPT ![p] = k]
               /\ Goto(p, IF Odd(Offset(p, k - 1)) THEN "wait" ELSE "tell")

Leaf(p) ==
  /\ pc[p] = "leaf"
  /\ densities' = [densities EXCEPT ![p] = UpTo(rank_me[p])]
  /\ ranks' = [ranks EXCEPT ![p] = rank_me[p]]
  /\ Climb(p, 1)
  /\ UNCHANGED <<key, Flag, rankVars, loopnum, from, input>>

(* SETPAUSE.                                                                 *)
SetPause(n) == Flag' = [Flag EXCEPT ![n] = 1]

Tell(p) ==
  /\ pc[p] = "tell"
  /\ SetPause(Node(p, h[p]))
  /\ Goto(p, "summed")
  /\ UNCHANGED <<key, treeVars, rankVars, h, loopnum, from, input>>

(* WAITPAUSE and CLEARPAUSE: the mutex is held from one to the other, and    *)
(* the condition is not looked at again after the wait.                      *)
MayPassAtOnce(n) == TRUE
MayPass(n) == Flag[n] = 1 \/ Spurious

WaitAndClear(n) == MayPass(n) /\ Flag' = [Flag EXCEPT ![n] = 0]

Wait(p) ==
  /\ pc[p] = "wait"
  /\ WaitAndClear(Node(p, h[p]))
  /\ Goto(p, "combine")
  /\ UNCHANGED <<key, treeVars, rankVars, h, loopnum, from, input>>

(* The ranks of the nodes at the right edge are not needed.                  *)
RightEdge(p) == Offset(p, h[p]) = level[h[p]] - 1

Combine(p) ==
  LET n == Node(p, h[p])
      r == Node(p, h[p] - 1)
  IN  /\ pc[p] = "combine"
      /\ densities' = [densities EXCEPT ![n] = Plus(densities[r], densities[r - 1])]
      /\ ranks' = IF RightEdge(p) THEN ranks
                  ELSE [ranks EXCEPT ![n] = Plus(ranks[r], ranks[r - 1])]
      /\ Climb(p, h[p] + 1)
      /\ UNCHANGED <<key, Flag, rankVars, loopnum, from, input>>

(* Downwards: all but the last process take the densities of a node further  *)
(* up for their own, then tell the nodes at their left.                      *)
Take(p) ==
  /\ pc[p] = "take"
  /\ WaitAndClear(my_node(p))
  /\ Goto(p, "copy")
  /\ UNCHANGED <<key, treeVars, rankVars, h, loopnum, from, input>>

Copy(p) ==
  /\ pc[p] = "copy"
  /\ densities' = [densities EXCEPT ![my_node(p)] = densities[their_node(p)]]
  /\ Goto(p, "left")
  /\ UNCHANGED <<key, ranks, Flag, rankVars, h, loopnum, from, input>>

TellLeftForever(p) ==
  /\ pc[p] = "left" /\ Odd(Offset(p, h[p]))
  /\ SetPause(Node(p, h[p]) - 1)
  /\ UNCHANGED <<key, treeVars, rankVars, pc, h, loopnum, from, input>>

TellLeft(p) ==
  /\ pc[p] = "left" /\ Odd(Offset(p, h[p]))
  /\ SetPause(Node(p, h[p]) - 1)
  /\ h' = [h EXCEPT ![p] = @ + 1]
  /\ UNCHANGED <<key, treeVars, rankVars, pc, loopnum, from, input>>

(* The ranks of all processes at p's left: those of the nodes to the left of *)
(* p's way up.                                                               *)
LeftNodes(p) == {Node(p, k) - 1 : k \in {j \in Heights : Odd(Offset(p, j))}}

SumOfRanks(ns, d) ==
  LET sum[n \in -1 .. 2 * P - 1] ==
        IF n = -1 THEN 0 ELSE sum[n - 1] + IF n \in ns THEN ranks[n][d] ELSE 0
  IN  sum[2 * P - 1]

(* The keys of all processes with a smaller digit.                            *)
DensityBelow(p, d) == IF d = 0 THEN 0 ELSE densities[my_node(p)][d - 1]

Rank(p) ==
  /\ pc[p] = "left" /\ ~Odd(Offset(p, h[p]))
  /\ rank_ff' = [rank_ff EXCEPT ![p] =
       [d \in Digits |-> SumOfRanks(LeftNodes(p), d) + DensityBelow(p, d)]]
  /\ Goto(p, "ranked")
  /\ UNCHANGED <<key, treeVars, Flag, rank_me, h, loopnum, from, input>>

(* The places of p's keys, in order: rank_ff of the digit, which grows.      *)
PlaceOfDigit(p, x) == rank_ff[p][Digit(key[from[p]][x], loopnum[p])]
Place(p, x) ==
  LET mine == {y \in MyKeys(p) : y < x /\ Digit(key[from[p]][y], loopnum[p])
                                            = Digit(key[from[p]][x], loopnum[p])}
  IN  rank_ff[p][Digit(key[from[p]][x], loopnum[p])] + Cardinality(mine)

Places(p) == {Place(p, x) : x \in MyKeys(p)}

Move(p) ==
  /\ pc[p] = "move"
  /\ key' = [key EXCEPT ![1 - from[p]] =
       [y \in Positions |->
          IF y \in Places(p)
          THEN key[from[p]][CHOOSE x \in MyKeys(p) :
                              /\ Place(p, x) = y
                              /\ \A z \in MyKeys(p) : Place(p, z) = y => z <= x]
          ELSE @[y]]]
  /\ rank_ff' = [rank_ff EXCEPT ![p] = [d \in Digits |-> @[d] + rank_me[p][d]]]
  /\ from' = IF loopnum[p] = NumDigits - 1 THEN from
             ELSE [from EXCEPT ![p] = 1 - @]
  /\ Goto(p, "moved")
  /\ UNCHANGED <<treeVars, Flag, rank_me, h, loopnum, input>>

slave_sort(p) == \/ Count(p) \/ Leaf(p) \/ Tell(p) \/ Wait(p) \/ Combine(p) \/ Take(p)
                 \/ Copy(p) \/ TellLeft(p) \/ Rank(p) \/ Move(p)

(* WAIT_FOR_END joins the processes and main ends.                           *)
Done == (\A p \in Procs : pc[p] = "done") /\ UNCHANGED vars

Next == Barrier \/ (\E p \in Procs : slave_sort(p)) \/ Done

Spec == Init /\ [][Next]_vars

(***************************************************************************)
(* Properties.                                                             *)
(***************************************************************************)
(* What a process's next step reads and writes of the shared arrays.         *)
Reads(p) ==
  CASE pc[p] = "count"   -> {<<"key", from[p], x>> : x \in MyKeys(p)}
    [] pc[p] = "combine" -> LET r == Node(p, h[p] - 1)
                            IN  {<<a, n>> : a \in {"densities", "ranks"}, n \in {r, r - 1}}
    [] pc[p] = "copy"    -> {<<"densities", their_node(p)>>}
    [] pc[p] = "left"    -> {<<"densities", my_node(p)>>}
                            \cup {<<"ranks", n>> : n \in LeftNodes(p)}
    [] pc[p] = "move"    -> {<<"key", from[p], x>> : x \in MyKeys(p)}
    [] OTHER             -> {}

Writes(p) ==
  CASE pc[p] = "leaf"    -> {<<"densities", p>>, <<"ranks", p>>}
    [] pc[p] = "combine" -> {<<"densities", Node(p, h[p])>>, <<"ranks", Node(p, h[p])>>}
    [] pc[p] = "copy"    -> {<<"densities", my_node(p)>>}
    [] pc[p] = "move"    -> {<<"key", 1 - from[p], x>> : x \in Places(p)}
    [] OTHER             -> {}

(* No two processes are about to access the same part of prefix_tree or of a *)
(* key array, one of them writing: the barriers and pauses are all the       *)
(* protection these have (radix.C:514-620).                                  *)
NoRace == \A p, q \in Procs : p # q => Writes(p) \cap (Reads(q) \cup Writes(q)) = {}

(* The keys of this loop with a smaller digit, and those with the same digit *)
(* at other processes before p: p's first key of digit d goes there.         *)
FirstPlace(p, d) ==
  LET dig == [x \in Positions |-> Digit(key[from[p]][x], loopnum[p])]
  IN  Cardinality({x \in Positions : dig[x] < d})
      + Cardinality({x \in Positions : dig[x] = d /\ x < key_partition(p)})

(* The sweeps over the tree compute each process's first places, whatever the *)
(* order in which the processes come through them (radix.C:552-607).          *)
RanksAreRight == \A p \in Procs : pc[p] \in {"ranked", "move"} =>
                                    \A d \in Digits : rank_ff[p][d] = FirstPlace(p, d)

(* test_sort: "All keys in place", and they are the keys there were.          *)
AllKeysInPlace ==
  (\A p \in Procs : pc[p] = "done") =>
    LET sorted == key[1 - from[0]]
    IN  /\ \A x \in Positions : x > 0 => sorted[x - 1] <= sorted[x]
        /\ \A k \in 0 .. R ^ NumDigits - 1 :
              Cardinality({x \in Positions : sorted[x] = k})
                = Cardinality({x \in Positions : input[x] = k})

(* Every digit's keys are counted and placed right, and so is the whole array *)
(* at the end (radix.C:487-648).                                              *)
SortIsRight == RanksAreRight /\ AllKeysInPlace
=============================================================================
