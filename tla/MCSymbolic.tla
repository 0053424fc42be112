----------------------------- MODULE MCSymbolic -----------------------------
(* Model checking of Symbolic.                                               *)
EXTENDS Symbolic

const_Graphs == SUBSET Lower
=============================================================================
