------------------------------ MODULE MCTaskQ ------------------------------
(* Model checking of TaskQ.                                                  *)
EXTENDS TaskQ

(* A locality group of any number, and the random choice of a negative hint.  *)
const_Hints == {-1, 4}

=============================================================================
