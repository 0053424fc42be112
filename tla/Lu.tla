---------------------------------- MODULE Lu --------------------------------
(***************************************************************************)
(* The two blocked LU factorizations of splash2, lu_contiguous_blocks.C    *)
(* and lu_non_contiguous_blocks.C.  The matrix is cut into blocks, every   *)
(* block has an owner, and the work of a process between two barriers is   *)
(* the block operations on what it owns.  The first program stores each    *)
(* block as an array of its own, in memory of its owner; the second keeps  *)
(* the matrix in one array.                                                *)
(*                                                                         *)
(* One block operation is a step; NoRace shows that nobody can tell.  The  *)
(* numbers are integers modulo Q, in which the algorithm is exact.         *)
(***************************************************************************)
EXTENDS Integers, FiniteSets, SequencesExt

CONSTANTS P, n, block_size,    (* the options -p, -n and -b                   *)
          Contiguous,          (* which of the two programs                   *)
          Q, Matrices          (* a prime; the matrices that InitA may make   *)

(* With blocks longer than the matrix InitA of the contiguous program divides *)
(* by zero.  Elimination without pivoting needs the pivots it divides by.     *)
LuAssumption ==
  /\ {P, n, block_size} \subseteq Nat \ {0}
  /\ Q \in Nat \ {0, 1}
  /\ Contiguous \in BOOLEAN
  /\ Contiguous => block_size <= n
  /\ Matrices \subseteq [(0 .. n - 1) \X (0 .. n - 1) -> 0 .. Q - 1]

VARIABLES a,                   (* the memory of the matrix                    *)
          stage,               (* between which barriers the processes are    *)
          left,                (* the operations each process has yet to do   *)
          input                (* history: what InitA made                    *)

vars == <<a, stage, left, input>>

Procs   == 0 .. P - 1
Index   == 0 .. n - 1
nblocks == IF block_size * (n \div block_size) # n THEN n \div block_size + 1
                                                   ELSE n \div block_size
Blocks  == 0 .. nblocks - 1

(***************************************************************************)
(* Owners.                                                                 *)
(***************************************************************************)
BlockOwner(I, J)       == (I + J) % P
BlockOwnerColumn(I, K) == I % P
BlockOwnerRow(K, J)    == ((J % P) + (P \div 2)) % P

ColumnOwner(I, K) == IF Contiguous THEN BlockOwnerColumn(I, K) ELSE BlockOwner(I, K)
RowOwner(K, J)    == IF Contiguous THEN BlockOwnerRow(K, J) ELSE BlockOwner(K, J)

(***************************************************************************)
(* Where the elements are.                                                 *)
(***************************************************************************)
Rows(I) == {i \in Index : i \div block_size = I}
edge    == IF n % block_size = 0 THEN block_size ELSE n % block_size
Dim(I)  == IF I = nblocks - 1 THEN edge ELSE block_size

(* main hands the blocks out of each owner's memory, one after the other.     *)
Before(I, J) == {b \in Blocks \X Blocks :
                   /\ BlockOwner(b[1], b[2]) = BlockOwner(I, J)
                   /\ b[1] < I \/ (b[1] = I /\ b[2] < J)}
Place(I, J) == MapThenSumSet(LAMBDA b : Dim(b[1]) * Dim(b[2]), Before(I, J))

(* A block is stored by columns, as long as the block is high.                *)
Stride(I) == Dim(I)
Element(i, j) ==
  LET I == i \div block_size
      J == j \div block_size
  IN  IF Contiguous
      THEN <<BlockOwner(I, J),
             Place(I, J) + (i - I * block_size) + (j - J * block_size) * Stride(I)>>
      ELSE <<0, i + j * n>>

(* InitA, PrintA and CheckResult find it with remainders.                     *)
InitElement(i, j) ==
  LET rest   == n % block_size
      ibs(k) == IF n - k <= rest THEN n - rest ELSE block_size
      skip   == IF n - i <= rest THEN rest ELSE block_size
      I == i \div block_size
      J == j \div block_size
  IN  IF Contiguous
      THEN <<BlockOwner(I, J), Place(I, J) + (i % ibs(i)) + (j % ibs(j)) * skip>>
      ELSE <<0, i + j * n>>

Elements == [x \in Index \X Index |-> Element(x[1], x[2])]
InitElements == [x \in Index \X Index |-> InitElement(x[1], x[2])]

(***************************************************************************)
(* The block operations: block (I, J) of o, from matrix m and block K.       *)
(***************************************************************************)
Recip(v) == CHOOSE w \in 1 .. Q - 1 : (v * w) % Q = 1

(* lu0, bdiv, bmodd and bmod all go once through the columns k of block K     *)
(* and take column k, times the element of row k, off the columns of block    *)
(* (I, J); lu0 and bmodd divide what is right of the diagonal by it.  So does *)
(* element (i, j) come out:                                                   *)
Compute(o, m) ==
  LET value[x \in Rows(o.I) \X Rows(o.J)] ==
        LET i == x[1]
            j == x[2]
            at(r, c) == IF r \in Rows(o.I) /\ c \in Rows(o.J) THEN value[r, c] ELSE m[r, c]
            rest == m[i, j] - MapThenSumSet(LAMBDA k : at(i, k) * at(k, j),
                                            {k \in Rows(o.K) : k < i /\ k < j})
        IN  (IF i < j /\ i \in Rows(o.K) THEN rest * Recip(at(i, i)) ELSE rest) % Q
  IN  value

(***************************************************************************)
(* What a process does in a stage.  An operation on block (I, J) reads     *)
(* diagonal block K, or blocks (I, K) and (K, J).                          *)
(***************************************************************************)
Op(kind, I, J, K) == [kind |-> kind, I |-> I, J |-> J, K |-> K]

(* The blocks after the first K + 1 in a row or column.                       *)
After(K) == {I \in Blocks : I > K}

(* From the second barrier of step K - 1 of the loop in lu to the first one of
   step K: no barrier is between the two steps.                               *)
Updates(p, K) == {Op("bmod", b[1], b[2], K) :
                    b \in {c \in After(K) \X After(K) : K >= 0 /\ BlockOwner(c[1], c[2]) = p}}
Diagonal(p, K) == {Op("lu0", I, I, I) : I \in {J \in Blocks : J = K /\ BlockOwner(J, J) = p}}
Perimeter(p, K) ==
  {Op("bdiv", I, K, K) : I \in {J \in After(K) : ColumnOwner(J, K) = p}}
    \cup {Op("bmodd", K, J, K) : J \in {I \in After(K) : RowOwner(K, I) = p}}
Touched(p) == {Op("touch", b[1], b[2], 0) :
                 b \in {c \in Blocks \X Blocks : BlockOwner(c[1], c[2]) = p}}

WorkWithoutBarrier(p, s) ==
  IF s[1] = "touch" THEN Touched(p)
  ELSE IF s[1] = "pivot"
       THEN Updates(p, s[2] - 1) \cup Diagonal(p, s[2]) \cup Perimeter(p, s[2])
       ELSE {}

Work(p, s) ==
  IF s[1] = "touch" THEN Touched(p)
  ELSE IF s[1] = "pivot" THEN Updates(p, s[2] - 1) \cup Diagonal(p, s[2])
  ELSE IF s[1] = "perimeter" THEN Perimeter(p, s[2])
  ELSE {}

Reads(o) == IF o.kind \in {"touch", "lu0"} THEN {<<o.I, o.J>>}
            ELSE IF o.kind = "bmod" THEN {<<o.I, o.K>>, <<o.K, o.J>>, <<o.I, o.J>>}
            ELSE {<<o.K, o.K>>, <<o.I, o.J>>}
Writes(o) == IF o.kind = "touch" THEN {} ELSE {<<o.I, o.J>>}

(* Between two barriers: TouchA; to the first barrier of step K, <<"pivot", K>>;
   to its second, <<"perimeter", K>>; what is left after the last step.        *)
Stage0 == <<"touch", 0>>
NextStage(s) ==
  IF s[1] = "touch" THEN <<"pivot", 0>>
  ELSE IF s[1] = "perimeter" THEN <<"pivot", s[2] + 1>>
  ELSE IF s[2] = nblocks THEN <<"done", 0>>
  ELSE <<"perimeter", s[2]>>

(* In the order of the loops of lu; TouchA's order does not matter.           *)
Earlier(o, q) ==
  LET Nr(kind) == CHOOSE i \in 1 .. 5 : <<"touch", "bdiv", "bmodd", "bmod", "lu0">>[i] = kind
  IN  \/ Nr(o.kind) < Nr(q.kind)
      \/ o.kind = q.kind /\ o.I < q.I
      \/ o.kind = q.kind /\ o.I = q.I /\ o.J < q.J

Init ==
  /\ input \in Matrices
  /\ a = [c \in {InitElements[x] : x \in Index \X Index} |->
            input[CHOOSE x \in Index \X Index : InitElements[x] = c]]
  /\ stage = Stage0
  /\ left = [p \in Procs |-> Work(p, Stage0)]

(* The block of o is computed where it is stored.                             *)
Cells(o) == {Elements[x] : x \in Rows(o.I) \X Rows(o.J)}
At(o, c) == CHOOSE x \in Rows(o.I) \X Rows(o.J) : Elements[x] = c

Store(o) == LET new == Compute(o, [x \in Index \X Index |-> a[Elements[x]]])
            IN  [c \in DOMAIN a |-> IF c \in Cells(o) THEN new[At(o, c)] ELSE a[c]]

Operate(p) ==
  \E o \in left[p] :
    /\ \A q \in left[p] : q # o => Earlier(o, q)
    /\ left' = [left EXCEPT ![p] = @ \ {o}]
    /\ a' = IF o.kind = "touch" THEN a ELSE Store(o)
    /\ UNCHANGED <<stage, input>>

Barrier ==
  /\ \A p \in Procs : left[p] = {}
  /\ stage # <<"done", 0>>
  /\ stage' = NextStage(stage)
  /\ left' = [p \in Procs |-> Work(p, NextStage(stage))]
  /\ UNCHANGED <<a, input>>

Done == stage = <<"done", 0>> /\ UNCHANGED vars

Next == Barrier \/ (\E p \in Procs : Operate(p)) \/ Done

Spec == Init /\ [][Next]_vars

(***************************************************************************)
(* Properties.                                                             *)
(***************************************************************************)
(* Whatever two processes have left to do before the next barrier, neither   *)
(* writes a block that the other reads or writes: there are no locks, and no *)
(* barrier between the updates of one step and lu0 of the next, which rests  *)
(* on the owners alone (lu_contiguous_blocks.C:604, 677).                     *)
NoRace ==
  \A p, q \in Procs : p # q =>
    \A o \in left[p], r \in left[q] : Writes(o) \cap (Reads(r) \cup Writes(r)) = {}

(* What CheckResult solves with: the two factors that InitA's way of finding *)
(* the elements shows make the matrix again (lu_contiguous_blocks.C:831).     *)
Product(L, U, i, j) == MapThenSumSet(LAMBDA k : L[i, k] * U[k, j], Index) % Q
FactorsAreRight ==
  stage[1] = "done" =>
    LET r == [x \in Index \X Index |-> a[InitElements[x]]]
        L == [x \in Index \X Index |-> IF x[2] <= x[1] THEN r[x] ELSE 0]
        U == [x \in Index \X Index |-> IF x[2] > x[1] THEN r[x]
                                       ELSE IF x[2] = x[1] THEN 1 ELSE 0]
    IN  \A x \in Index \X Index : Product(L, U, x[1], x[2]) = input[x]
=============================================================================
