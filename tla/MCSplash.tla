------------------------------ MODULE MCSplash ------------------------------
(* Model checking of the programs of splash2 whose processes have barriers,   *)
(* pauses and the ownership of data between them, but no locks: Radix, Lu in  *)
(* both its forms and Fft with two sizes.  One of them is run.                *)
EXTENDS Radix, Sequences

VARIABLES program,
          a, stage, left, matrix,                              (* of Lu       *)
          mem, place, direction, test_result, doprint, signal  (* of Fft      *)

luVars  == <<a, stage, left, matrix>>
fftVars == <<mem, place, direction, test_result, doprint, signal>>
allVars == <<vars, program, luVars, fftVars>>

(* The blocks at the edge are smaller than the others, and no process owns a  *)
(* whole row or column of blocks.                                             *)
InitA(n) == [x \in (0 .. n - 1) \X (0 .. n - 1) |->
               IF x[1] = x[2] THEN 3 ELSE (x[1] * x[1] + 2 * x[2] + x[1] * x[2]) % 11]

LuBlocks   == INSTANCE Lu WITH P <- 5, n <- 7, block_size <- 3, Contiguous <- TRUE,
                Q <- 11, Matrices <- {InitA(7)}, input <- matrix
LuOneArray == INSTANCE Lu WITH P <- 3, n <- 5, block_size <- 2, Contiguous <- FALSE,
                Q <- 11, Matrices <- {InitA(5)}, input <- matrix

(* Four processes with two columns each, transposed one at a time, and two    *)
(* processes with two columns each at once.                                   *)
InitX(columns, q) ==
  [e \in columns \X columns |-> (e[1] * e[1] + 3 * e[2] + e[1] * e[2] * e[2]) % q]

Fft64 == INSTANCE Fft WITH P <- 4, M <- 6, num_cache_lines <- 2, Q <- 193, Root <- 125,
           Inputs <- {InitX(0 .. 7, 193)}, pc <- place, input <- signal
Fft16 == INSTANCE Fft WITH P <- 2, M <- 4, num_cache_lines <- 64, Q <- 17, Root <- 3,
           Inputs <- {InitX(0 .. 3, 17)}, pc <- place, input <- signal

ASSUME SplashAssumption == /\ LuBlocks!LuAssumption /\ LuOneArray!LuAssumption
                           /\ Fft64!FftAssumption /\ Fft16!FftAssumption

(* Falling keys, and equal keys in the parts of several processes.            *)
AsArray(s) == [x \in Positions |-> s[x + 1]]
const_Inputs == {AsArray(<<3, 3, 2, 2, 1, 1, 1, 0, 0>>),
                 AsArray(<<2, 0, 2, 2, 3, 2, 1, 2, 2>>)}

Idle == <<>>
RadixIdle == /\ key = Idle /\ densities = Idle /\ ranks = Idle /\ Flag = Idle
             /\ rank_me = Idle /\ rank_ff = Idle /\ pc = Idle /\ h = Idle
             /\ loopnum = Idle /\ from = Idle /\ input = Idle
LuIdle  == a = Idle /\ stage = Idle /\ left = Idle /\ matrix = Idle
FftIdle == /\ mem = Idle /\ place = Idle /\ direction = Idle
           /\ test_result = Idle /\ doprint = Idle /\ signal = Idle

InitSplash ==
  \/ program = "radix" /\ Init /\ LuIdle /\ FftIdle
  \/ program = "lu contiguous" /\ LuBlocks!Init /\ RadixIdle /\ FftIdle
  \/ program = "lu non-contiguous" /\ LuOneArray!Init /\ RadixIdle /\ FftIdle
  \/ program = "fft 64" /\ Fft64!Init /\ RadixIdle /\ LuIdle
  \/ program = "fft 16" /\ Fft16!Init /\ RadixIdle /\ LuIdle

NextSplash ==
  /\ UNCHANGED program
  /\ \/ program = "radix" /\ Next /\ UNCHANGED <<luVars, fftVars>>
     \/ program = "lu contiguous" /\ LuBlocks!Next /\ UNCHANGED <<vars, fftVars>>
     \/ program = "lu non-contiguous" /\ LuOneArray!Next /\ UNCHANGED <<vars, fftVars>>
     \/ program = "fft 64" /\ Fft64!Next /\ UNCHANGED <<vars, luVars>>
     \/ program = "fft 16" /\ Fft16!Next /\ UNCHANGED <<vars, luVars>>

(* Some process that can go on does; these programs need no more to end.      *)
SpecSplash == InitSplash /\ [][NextSplash]_allVars /\ WF_allVars(NextSplash)

(* No two processes are about to access the same data, one of them writing,   *)
(* in any of the programs (NoRace of Radix, Lu and Fft).                      *)
NoConflict ==
  /\ program = "radix" => NoRace
  /\ program = "lu contiguous" => LuBlocks!NoRace
  /\ program = "lu non-contiguous" => LuOneArray!NoRace
  /\ program = "fft 64" => Fft64!NoRace
  /\ program = "fft 16" => Fft16!NoRace

(* Radix sorts, both LU programs factor the matrix, and the Fourier transform *)
(* and its inverse are the right ones (SortIsRight of Radix, FactorsAreRight  *)
(* of Lu, TransformIsRight of Fft).                                           *)
ResultsAreRight ==
  /\ program = "radix" => SortIsRight
  /\ program = "lu contiguous" => LuBlocks!FactorsAreRight
  /\ program = "lu non-contiguous" => LuOneArray!FactorsAreRight
  /\ program = "fft 64" => Fft64!TransformIsRight
  /\ program = "fft 16" => Fft16!TransformIsRight

(* Whichever program runs, it ends: no barrier or pause waits for ever.       *)
Ended == CASE program = "radix" -> \A p \in Procs : pc[p] = "done"
           [] program \in {"lu contiguous", "lu non-contiguous"} -> stage[1] = "done"
           [] OTHER -> \A p \in DOMAIN place : place[p] = "done"
ProgramEnds == <>Ended
=============================================================================
