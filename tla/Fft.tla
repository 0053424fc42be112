---------------------------------- MODULE Fft -------------------------------
(***************************************************************************)
(* The Fourier transform of splash2/fft.C: N = rootN * rootN elements in   *)
(* rootN columns, every process the owner of as many consecutive columns,  *)
(* and barriers between the steps: transpose, transform the columns and    *)
(* turn them; transpose, transform the columns; transpose.                 *)
(*                                                                         *)
(* What a process does between two barriers is at most two steps, the      *)
(* transpose and the work on its own columns; NoRace shows that nobody can *)
(* tell.  The numbers are integers modulo the prime Q, in which Root is an *)
(* N-th root of unity, and sums and products are exact.                    *)
(***************************************************************************)
EXTENDS Integers, FiniteSetsExt

CONSTANTS P, M,               (* the options -p and -m                         *)
          num_cache_lines,    (* the option -n                                 *)
          Q, Root,            (* a prime, and a root of unity modulo Q         *)
          Inputs              (* the arrays that InitX may make                *)

N       == 2 ^ M
rootN   == 2 ^ (M \div 2)
Columns == 0 .. rootN - 1
Procs   == 0 .. P - 1
Numbers == 0 .. Q - 1

(***************************************************************************)
(* Transpose works through numblks blocks of blksize columns a process.    *)
(***************************************************************************)
MyFirst(p) == (rootN * p) \div P
MyLast(p)  == (rootN * (p + 1)) \div P
MyColumns(p) == MyFirst(p) .. MyLast(p) - 1

numblks(p) == LET size == 2 * (MyLast(p) - MyFirst(p))
              IN  IF (size \div num_cache_lines) * num_cache_lines # size
                  THEN size \div num_cache_lines + 1
                  ELSE size \div num_cache_lines
blksize(p) == (MyLast(p) - MyFirst(p)) \div numblks(p)
row_count  == rootN \div P

(* The elements p transposes: from the rows of every process to its columns.  *)
Done(p) == numblks(p) * blksize(p)
Transposed(p) == (MyFirst(p) .. MyFirst(p) + Done(p) - 1)
                   \X UNION {l * row_count .. l * row_count + Done(p) - 1 : l \in Procs}

(* main's checks, and what main does not check: the blocks that              *)
(* num_cache_lines makes must fit the columns, or some are left out.          *)
FftAssumption ==
  /\ M \in Nat /\ M % 2 = 0 /\ num_cache_lines \in Nat \ {0}
  /\ P \in Nat \ {0} /\ rootN \in Nat \ {0}
  /\ P \in {2 ^ k : k \in 0 .. M} /\ P <= rootN
  /\ \A p \in Procs : Done(p) = MyLast(p) - MyFirst(p)
  /\ Q \in Nat \ {0, 1} /\ Root \in Numbers
  /\ Inputs \subseteq [Columns \X Columns -> Numbers]

VARIABLES mem,                (* x and trans, the element at column and row    *)
          pc,                 (* of each process                               *)
          direction,          (* of each process: 1, then -1                   *)
          test_result, doprint, (* the options -t and -o                       *)
          input               (* history: what InitX made                      *)

vars == <<mem, pc, direction, test_result, doprint, input>>

AtBarrier == {"touched", "turned", "transformed", "transposed", "copied"}

Goto(p, there) == pc' = [pc EXCEPT ![p] = there]

(***************************************************************************)
(* Arithmetic.                                                             *)
(***************************************************************************)
Power(b, k) == LET pow[i \in Nat] == IF i = 0 THEN 1 ELSE (b * pow[i - 1]) % Q
               IN  pow[k]
(* Root to the k-th, or to the -k-th when going back: the conjugate.          *)
Omega(dir, k) == Power(Root, IF dir = 1 THEN k % N ELSE (N - k) % N)
Recip(v) == CHOOSE w \in Numbers : (v * w) % Q = 1

BitReverse(m, k) ==
  LET digit(i) == (k \div 2 ^ i) % 2
  IN  MapThenSumSet(LAMBDA i : digit(i) * 2 ^ (m - 1 - i), 0 .. m - 1)

(* InitU: the roots for the butterflies over Lstar elements are those from    *)
(* Lstar - 1 on.                                                              *)
umain == [k \in 0 .. rootN - 2 |->
            LET n1 == CHOOSE s \in {2 ^ q : q \in 0 .. M} : s - 1 <= k /\ k < 2 * s - 1
            IN  (k - (n1 - 1)) * (N \div (2 * n1))]

(* FFT1DOnce, on a column: after Reverse, the butterflies of rounds 1 to q.   *)
FFT1DOnce(dir, col) ==
  LET m == M \div 2
      round[q \in 0 .. m] ==
        IF q = 0 THEN [i \in Columns |-> col[BitReverse(m, i)]]
        ELSE LET before == round[q - 1]
                 Lstar  == 2 ^ (q - 1)
                 low(i) == i % (2 * Lstar) < Lstar
                 tau(i) == Omega(dir, umain[Lstar - 1 + (i % Lstar)]) * before[i]
             IN  [i \in Columns |-> IF low(i) THEN (before[i] + tau(i + Lstar)) % Q
                                              ELSE (before[i - Lstar] - tau(i)) % Q]
  IN  round[m]

TwiddleOneCol(dir, j, col) == [i \in Columns |-> (Omega(dir, i * j) * col[i]) % Q]
Scale(col) == [i \in Columns |-> (col[i] * Recip(N % Q)) % Q]

(***************************************************************************)
(* The steps.                                                              *)
(***************************************************************************)
Init ==
  /\ input \in Inputs
  /\ mem = [x |-> input, trans |-> [e \in Columns \X Columns |-> 0]]
  /\ pc = [p \in Procs |-> "touch"]
  /\ direction = [p \in Procs |-> 1]
  /\ test_result \in BOOLEAN /\ doprint \in BOOLEAN

TouchArray(p) ==
  /\ pc[p] = "touch"
  /\ Goto(p, "touched")
  /\ UNCHANGED <<mem, direction, test_result, doprint, input>>

Transpose(p, from, src, dest, to) ==
  /\ pc[p] = from
  /\ mem' = [mem EXCEPT ![dest] =
       [e \in DOMAIN mem[dest] |-> IF e \in Transposed(p) THEN mem[src][<<e[2], e[1]>>]
                                   ELSE mem[dest][e]]]
  /\ Goto(p, to)
  /\ UNCHANGED <<direction, test_result, doprint, input>>

(* The columns of p in an array become those of the function column.          *)
Column(array, j) == [i \in Columns |-> mem[array][j, i]]

OnColumns(p, from, array, column, to) ==
  /\ pc[p] = from
  /\ mem' = [mem EXCEPT ![array] =
       [e \in DOMAIN mem[array] |-> IF e[1] \in MyColumns(p) THEN column[e[1]][e[2]]
                                    ELSE mem[array][e]]]
  /\ Goto(p, to)
  /\ UNCHANGED <<direction, test_result, doprint, input>>

Turned(dir, j)      == TwiddleOneCol(dir, j, FFT1DOnce(dir, Column("trans", j)))
Transformed(dir, j) == IF dir = -1 THEN Scale(FFT1DOnce(dir, Column("x", j)))
                                   ELSE FFT1DOnce(dir, Column("x", j))

Turn(p) == OnColumns(p, "turn", "trans",
                     [j \in MyColumns(p) |-> Turned(direction[p], j)], "turned")
Transform(p) == OnColumns(p, "transform", "x",
                          [j \in MyColumns(p) |-> Transformed(direction[p], j)], "transformed")
CopyColumns(p) == OnColumns(p, "copy", "x",
                            [j \in MyColumns(p) |-> Column("trans", j)], "copied")

FFT1D(p) == \/ Transpose(p, "first", "x", "trans", "turn")
            \/ Turn(p)
            \/ Transpose(p, "second", "trans", "x", "transform")
            \/ Transform(p)
            \/ Transpose(p, "third", "x", "trans", "transposed")
            \/ CopyColumns(p)

(* Behind the barriers; SlaveStart goes back only for the test.               *)
BehindWithoutCopy(p) ==
  IF pc[p] = "touched" THEN "first"
  ELSE IF pc[p] = "turned" THEN "second"
  ELSE IF pc[p] = "transformed" THEN "third"
  ELSE IF pc[p] = "transposed" THEN "copied"
  ELSE IF test_result /\ direction[p] = 1 THEN "first" ELSE "done"

Behind(p) ==
  IF pc[p] = "touched" THEN "first"
  ELSE IF pc[p] = "turned" THEN "second"
  ELSE IF pc[p] = "transformed" THEN "third"
  ELSE IF pc[p] = "transposed" THEN IF test_result \/ doprint THEN "copy" ELSE "copied"
  ELSE IF test_result /\ direction[p] = 1 THEN "first" ELSE "done"

Barrier ==
  /\ \A p \in Procs : pc[p] \in AtBarrier
  /\ pc' = [p \in Procs |-> Behind(p)]
  /\ direction' = [p \in Procs |-> IF pc[p] = "copied" /\ Behind(p) = "first" THEN -1
                                   ELSE direction[p]]
  /\ UNCHANGED <<mem, test_result, doprint, input>>

Ended == (\A p \in Procs : pc[p] = "done") /\ UNCHANGED vars

SlaveStart(p) == TouchArray(p) \/ FFT1D(p)

Next == Barrier \/ (\E p \in Procs : SlaveStart(p)) \/ Ended

Spec == Init /\ [][Next]_vars

(***************************************************************************)
(* Properties.                                                             *)
(***************************************************************************)
(* What is read and written of the arrays by p's next step.                  *)
All(array, cells) == {<<array, e>> : e \in cells}
Own(p) == MyColumns(p) \X Columns

Reads(p) ==
  CASE pc[p] = "touch"              -> All("x", Own(p)) \cup All("trans", Own(p))
    [] pc[p] \in {"first", "third"} -> All("x", {<<e[2], e[1]>> : e \in Transposed(p)})
    [] pc[p] = "second"             -> All("trans", {<<e[2], e[1]>> : e \in Transposed(p)})
    [] pc[p] \in {"turn", "copy"}   -> All("trans", Own(p))
    [] pc[p] = "transform"          -> All("x", Own(p))
    [] OTHER                        -> {}
Writes(p) ==
  CASE pc[p] \in {"first", "third"}    -> All("trans", Transposed(p))
    [] pc[p] = "turn"                  -> All("trans", Own(p))
    [] pc[p] = "second"                -> All("x", Transposed(p))
    [] pc[p] \in {"transform", "copy"} -> All("x", Own(p))
    [] OTHER                           -> {}

(* No process is about to write what another is about to read or to write;   *)
(* the barriers are all that separates a transpose, which reads the columns   *)
(* of every process, from the work on these (fft.C:611-674).                  *)
NoRace == \A p, q \in Procs : p # q => Writes(p) \cap (Reads(q) \cup Writes(q)) = {}

(* The element in place k, column by column.                                  *)
Place(k) == <<k \div rootN, k % rootN>>
Fourier(k) == MapThenSumSet(LAMBDA i : input[Place(i)] * Omega(1, i * k), 0 .. N - 1) % Q

(* The forward transform leaves the discrete Fourier transform of the input,  *)
(* in order, in trans and, if somebody wants to see it, in x; the test comes  *)
(* back to the input itself, of which CheckSum compares the sum (fft.C:411).  *)
TransformIsRight ==
  (\A p \in Procs : pc[p] = "done") =>
    IF test_result THEN mem.x = input
    ELSE \A k \in 0 .. N - 1 : /\ mem.trans[Place(k)] = Fourier(k)
                               /\ doprint => mem.x[Place(k)] = Fourier(k)
=============================================================================
