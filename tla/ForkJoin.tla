------------------------------ MODULE ForkJoin ------------------------------
(***************************************************************************)
(* What the clients of a thread pool rely on: a dispatch starts one job per *)
(* worker, every worker does its job once, and the client joins only when  *)
(* no job of the dispatch is left.                                         *)
(***************************************************************************)
EXTENDS Integers

CONSTANTS NumThreads, MaxPhases

VARIABLES state,     (* "down", "idle", "running" or "stopped"              *)
          phase,     (* the number of the current dispatch                  *)
          pending    (* the workers that have not done their job            *)

fjVars == <<state, phase, pending>>

FJInit == state = "down" /\ phase = 0 /\ pending = {}

Start == state = "down" /\ state' = "idle" /\ UNCHANGED <<phase, pending>>

Abort == state = "down" /\ state' = "stopped" /\ UNCHANGED <<phase, pending>>

Fork(w) == /\ state = "idle"
           /\ state' = "running"
           /\ phase' = phase + 1
           /\ pending' = 0 .. w - 1

Work(t) == /\ t \in pending
           /\ pending' = pending \ {t}
           /\ UNCHANGED <<state, phase>>

Join == /\ state = "running"
        /\ pending = {}
        /\ state' = "idle"
        /\ UNCHANGED <<phase, pending>>

Stop == state = "idle" /\ state' = "stopped" /\ UNCHANGED <<phase, pending>>

FJNext == \/ Start \/ Abort \/ Join \/ Stop
          \/ \E w \in 0 .. NumThreads : Fork(w)
          \/ \E t \in pending : Work(t)

FJSpec == FJInit /\ [][FJNext]_fjVars
=============================================================================
