----------------------------- MODULE MCCholesky -----------------------------
(* Model checking of Cholesky.                                               *)
EXTENDS Cholesky

(* Three partitions that fill up, with a domain below the outer two.         *)
Dense == [n |-> 3,
          below |-> [k \in 0 .. 2 |-> k + 1 .. 2],
          domains |-> <<[owner |-> P - 1, rows |-> {0, 2}]>>]

(* Two independent partitions with a common parent.                          *)
Tree == [n |-> 3,
         below |-> [k \in 0 .. 2 |-> IF k = 2 THEN {} ELSE {2}],
         domains |-> <<[owner |-> 0, rows |-> {0}], [owner |-> P - 1, rows |-> {1, 2}]>>]

const_Matrices == {Dense, Tree}
=============================================================================
