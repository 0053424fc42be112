----------------------------- MODULE Splash_proof ---------------------------
(***************************************************************************)
(* NoRace of Lu and of Fft hold for every number of processes and every    *)
(* size.                                                                   *)
(*                                                                         *)
(* Lu: what is left to a process is part of its work of the stage          *)
(* (LeftIsWork), every block has one owner, who alone writes it, and a     *)
(* stage reads no other's block that somebody writes in it.                *)
(*                                                                         *)
(* Fft: all processes are between the same two barriers (Together), and    *)
(* there each writes only its own columns, of an array of which the others *)
(* read only their own columns, or nothing.                                *)
(***************************************************************************)
EXTENDS Lu, TLAPS

CONSTANTS M, num_cache_lines, Root, Inputs
VARIABLES mem, pc, direction, test_result, doprint, signal

F == INSTANCE Fft WITH input <- signal

Stages == {Stage0, <<"done", 0>>} \cup {<<k, K>> : k \in {"pivot", "perimeter"}, K \in Nat}

(* Blocks can be compared.                                                    *)
LEMMA BlocksAreNumbers == LuAssumption => Blocks \subseteq Int
  <1> SUFFICES ASSUME LuAssumption PROVE Blocks \subseteq Int
    OBVIOUS
  <1>1. n \in Nat /\ block_size \in Nat /\ block_size > 0
    BY SMT DEF LuAssumption
  <1>2. n \div block_size \in Int
    BY <1>1, SMT
  <1>3. nblocks \in Int
    BY <1>1, <1>2, SMT DEF nblocks
  <1> QED
    BY <1>3, SMT DEF Blocks

(* Updates write blocks of their process after column and row K.              *)
LEMMA UpdatesAreOwn ==
  ASSUME NEW p, NEW K, NEW o \in Updates(p, K)
  PROVE  /\ o.kind = "bmod" /\ o.K = K
         /\ o.I \in After(K) /\ o.J \in After(K) /\ BlockOwner(o.I, o.J) = p
  BY SMT DEF Updates, Op

LEMMA DiagonalIsOwn ==
  ASSUME NEW p, NEW K, NEW o \in Diagonal(p, K)
  PROVE  o.kind = "lu0" /\ o.I = K /\ o.J = K /\ o.K = K /\ BlockOwner(K, K) = p
  BY SMT DEF Diagonal, Op

LEMMA PerimeterIsOwn ==
  ASSUME NEW p, NEW K, NEW o \in Perimeter(p, K)
  PROVE  \/ /\ o.kind = "bdiv" /\ o.J = K /\ o.K = K
            /\ o.I \in After(K) /\ ColumnOwner(o.I, K) = p
         \/ /\ o.kind = "bmodd" /\ o.I = K /\ o.K = K
            /\ o.J \in After(K) /\ RowOwner(K, o.J) = p
  BY SMT DEF Perimeter, Op

LEMMA TouchedIsTouch ==
  ASSUME NEW p, NEW o \in Touched(p)
  PROVE  o.kind = "touch"
  BY SMT DEF Touched, Op

(* In one stage, what one process writes no other reads or writes.            *)
LEMMA WorkIsApart ==
  ASSUME LuAssumption, NEW s \in Stages, NEW p \in Procs, NEW q \in Procs, p # q,
         NEW o \in Work(p, s), NEW r \in Work(q, s)
  PROVE  Writes(o) \cap (Reads(r) \cup Writes(r)) = {}
  <1>1. CASE s = Stage0
    <2>1. o.kind = "touch"
      BY <1>1, TouchedIsTouch DEF Work, Stage0
    <2> QED
      BY <2>1 DEF Writes
  <1>2. CASE s = <<"done", 0>>
    BY <1>2 DEF Work
  <1>3. ASSUME NEW K \in Nat, s = <<"pivot", K>> PROVE Writes(o) \cap (Reads(r) \cup Writes(r)) = {}
    <2>1. /\ o \in Updates(p, K - 1) \/ o \in Diagonal(p, K)
          /\ r \in Updates(q, K - 1) \/ r \in Diagonal(q, K)
      BY <1>3 DEF Work
    <2>2. \A I \in After(K - 1) : I \in Int /\ I > K - 1
      BY BlocksAreNumbers DEF After
    <2>3. CASE o \in Updates(p, K - 1) /\ r \in Updates(q, K - 1)
      <3>1. /\ o.kind = "bmod" /\ o.I \in After(K - 1) /\ o.J \in After(K - 1)
            /\ BlockOwner(o.I, o.J) = p
        BY <2>3, UpdatesAreOwn
      <3>2. /\ r.kind = "bmod" /\ r.K = K - 1 /\ r.I \in After(K - 1) /\ r.J \in After(K - 1)
            /\ BlockOwner(r.I, r.J) = q
        BY <2>3, UpdatesAreOwn
      <3>3. o.I # K - 1 /\ o.J # K - 1
        BY <3>1, <2>2
      <3>4. <<o.I, o.J>> # <<r.I, r.J>>
        BY <3>1, <3>2
      <3>5. Writes(o) = {<<o.I, o.J>>} /\ Writes(r) = {<<r.I, r.J>>}
            /\ Reads(r) = {<<r.I, r.K>>, <<r.K, r.J>>, <<r.I, r.J>>}
        BY <3>1, <3>2 DEF Writes, Reads
      <3> QED
        BY <3>2, <3>3, <3>4, <3>5
    <2>4. CASE o \in Updates(p, K - 1) /\ r \in Diagonal(q, K)
      <3>1. o.kind = "bmod" /\ BlockOwner(o.I, o.J) = p
        BY <2>4, UpdatesAreOwn
      <3>2. r.kind = "lu0" /\ r.I = K /\ r.J = K /\ BlockOwner(K, K) = q
        BY <2>4, DiagonalIsOwn
      <3>3. <<o.I, o.J>> # <<r.I, r.J>>
        BY <3>1, <3>2
      <3>4. Writes(o) = {<<o.I, o.J>>} /\ Writes(r) = {<<r.I, r.J>>} /\ Reads(r) = {<<r.I, r.J>>}
        BY <3>1, <3>2 DEF Writes, Reads
      <3> QED
        BY <3>3, <3>4
    <2>5. CASE o \in Diagonal(p, K) /\ r \in Updates(q, K - 1)
      <3>1. o.kind = "lu0" /\ o.I = K /\ o.J = K /\ BlockOwner(K, K) = p
        BY <2>5, DiagonalIsOwn
      <3>2. r.kind = "bmod" /\ r.K = K - 1 /\ BlockOwner(r.I, r.J) = q
        BY <2>5, UpdatesAreOwn
      <3>3. <<o.I, o.J>> # <<r.I, r.J>>
        BY <3>1, <3>2
      <3>4. K # K - 1
        BY <1>3
      <3>5. Writes(o) = {<<K, K>>} /\ Writes(r) = {<<r.I, r.J>>}
            /\ Reads(r) = {<<r.I, K - 1>>, <<K - 1, r.J>>, <<r.I, r.J>>}
        BY <3>1, <3>2 DEF Writes, Reads
      <3> QED
        BY <3>1, <3>3, <3>4, <3>5
    <2>6. CASE o \in Diagonal(p, K) /\ r \in Diagonal(q, K)
      BY <2>6, DiagonalIsOwn
    <2> QED
      BY <2>1, <2>3, <2>4, <2>5, <2>6
  <1>4. ASSUME NEW K \in Nat, s = <<"perimeter", K>> PROVE Writes(o) \cap (Reads(r) \cup Writes(r)) = {}
    <2>1. o \in Perimeter(p, K) /\ r \in Perimeter(q, K)
      BY <1>4 DEF Work
    <2>2. \A I \in After(K) : I # K
      BY BlocksAreNumbers DEF After
    <2>3. \/ /\ o.kind = "bdiv" /\ o.J = K /\ o.K = K
             /\ o.I \in After(K) /\ ColumnOwner(o.I, K) = p
          \/ /\ o.kind = "bmodd" /\ o.I = K /\ o.K = K
             /\ o.J \in After(K) /\ RowOwner(K, o.J) = p
      BY <2>1, PerimeterIsOwn
    <2>4. \/ /\ r.kind = "bdiv" /\ r.J = K /\ r.K = K
             /\ r.I \in After(K) /\ ColumnOwner(r.I, K) = q
          \/ /\ r.kind = "bmodd" /\ r.I = K /\ r.K = K
             /\ r.J \in After(K) /\ RowOwner(K, r.J) = q
      BY <2>1, PerimeterIsOwn
    <2>5. <<o.I, o.J>> # <<r.I, r.J>> /\ <<o.I, o.J>> # <<K, K>>
      BY <2>2, <2>3, <2>4
    <2>6. Writes(o) = {<<o.I, o.J>>} /\ Writes(r) = {<<r.I, r.J>>}
          /\ Reads(r) = {<<K, K>>, <<r.I, r.J>>}
      BY <2>3, <2>4 DEF Writes, Reads
    <2> QED
      BY <2>5, <2>6
  <1> QED
    BY <1>1, <1>2, <1>3, <1>4 DEF Stages

(***************************************************************************)
(* The inductive invariant: a process has left a part of its work.         *)
(***************************************************************************)
LeftIsWork == /\ stage \in Stages
              /\ DOMAIN left = Procs
              /\ \A p \in Procs : left[p] \subseteq Work(p, stage)

LEMMA NextStageIsStage ==
  ASSUME NEW s \in Stages, s # <<"done", 0>>
  PROVE  NextStage(s) \in Stages
  <1>1. CASE s = Stage0
    BY <1>1 DEF NextStage, Stage0, Stages
  <1>2. ASSUME NEW K \in Nat, s = <<"pivot", K>> PROVE NextStage(s) \in Stages
    BY <1>2 DEF NextStage, Stages
  <1>3. ASSUME NEW K \in Nat, s = <<"perimeter", K>> PROVE NextStage(s) \in Stages
    <2>1. NextStage(s) = <<"pivot", K + 1>> /\ K + 1 \in Nat
      BY <1>3 DEF NextStage
    <2> QED
      BY <2>1 DEF Stages
  <1> QED
    BY <1>1, <1>2, <1>3 DEF Stages

LEMMA InitLeftIsWork == Init => LeftIsWork
  BY DEF Init, LeftIsWork, Stages

LEMMA NextLeftIsWork == LeftIsWork /\ [Next]_vars => LeftIsWork'
  <1> SUFFICES ASSUME LeftIsWork, [Next]_vars PROVE LeftIsWork'
    OBVIOUS
  <1>1. CASE Barrier
    <2>1. stage' = NextStage(stage) /\ left' = [p \in Procs |-> Work(p, NextStage(stage))]
      BY <1>1 DEF Barrier
    <2>2. stage' \in Stages
      BY <1>1, <2>1, NextStageIsStage DEF Barrier, LeftIsWork
    <2> QED
      BY <2>1, <2>2 DEF LeftIsWork
  <1>2. ASSUME NEW p \in Procs, Operate(p) PROVE LeftIsWork'
    <2>1. PICK o : left' = [left EXCEPT ![p] = @ \ {o}] /\ stage' = stage
      BY <1>2 DEF Operate
    <2>2. DOMAIN left' = Procs /\ \A q \in Procs : left'[q] \subseteq left[q]
      BY <2>1 DEF LeftIsWork
    <2> QED
      BY <2>1, <2>2 DEF LeftIsWork
  <1>3. CASE UNCHANGED vars
    BY <1>3 DEF LeftIsWork, vars
  <1> QED
    BY <1>1, <1>2, <1>3 DEF Next, Done

(* Between two barriers the processes keep out of each other's way, whatever  *)
(* the sizes (lu in both programs).                                           *)
THEOREM LuNoRace == LuAssumption => (Spec => []NoRace)
  <1> SUFFICES ASSUME LuAssumption PROVE Spec => []NoRace
    OBVIOUS
  <1>1. LeftIsWork => NoRace
    BY WorkIsApart DEF LeftIsWork, NoRace
  <1> QED
    BY <1>1, InitLeftIsWork, NextLeftIsWork, PTL DEF Spec

(***************************************************************************)
(* The columns of two processes.                                           *)
(***************************************************************************)
LEMMA DivGrows ==
  ASSUME NEW k \in Nat, NEW l \in Nat, k <= l, NEW d \in Nat, d > 0
  PROVE  k \div d <= l \div d
  BY SMT

LEMMA ProductGrows ==
  ASSUME NEW k \in Nat, NEW l \in Nat, k <= l, NEW d \in Nat
  PROVE  d * k \in Nat /\ d * k <= d * l
  BY SMT

LEMMA ColumnsAreNumbers ==
  ASSUME F!FftAssumption, NEW p \in F!Procs
  PROVE  F!MyFirst(p) \in Int /\ F!MyLast(p) \in Int
  <1>1. P \in Nat /\ P > 0 /\ F!rootN \in Nat
    BY DEF F!FftAssumption
  <1>2. p \in Nat /\ p + 1 \in Nat
    BY <1>1 DEF F!Procs
  <1>3. F!rootN * p \in Nat /\ F!rootN * (p + 1) \in Nat
    BY <1>1, <1>2, ProductGrows
  <1> QED
    BY <1>1, <1>3 DEF F!MyFirst, F!MyLast

LEMMA ColumnsFollow ==
  ASSUME F!FftAssumption, NEW p \in F!Procs, NEW q \in F!Procs, p < q
  PROVE  F!MyLast(p) <= F!MyFirst(q)
  <1>1. P \in Nat /\ P > 0 /\ F!rootN \in Nat
    BY DEF F!FftAssumption
  <1>2. p \in Nat /\ q \in Nat /\ p + 1 <= q
    BY <1>1 DEF F!Procs
  <1>3. F!rootN * (p + 1) \in Nat /\ F!rootN * q \in Nat /\ F!rootN * (p + 1) <= F!rootN * q
    BY <1>1, <1>2, ProductGrows
  <1> QED
    BY <1>1, <1>3, DivGrows DEF F!MyLast, F!MyFirst

LEMMA ColumnsAreApart ==
  ASSUME F!FftAssumption, NEW p \in F!Procs, NEW q \in F!Procs, p # q
  PROVE  F!MyColumns(p) \cap F!MyColumns(q) = {}
  <1>1. p \in Int /\ q \in Int
    BY DEF F!FftAssumption, F!Procs
  <1>2. /\ F!MyFirst(p) \in Int /\ F!MyLast(p) \in Int
        /\ F!MyFirst(q) \in Int /\ F!MyLast(q) \in Int
    BY ColumnsAreNumbers
  <1>3. F!MyLast(p) <= F!MyFirst(q) \/ F!MyLast(q) <= F!MyFirst(p)
    BY <1>1, ColumnsFollow
  <1> QED
    BY <1>2, <1>3 DEF F!MyColumns

(* A transpose writes its process's columns and no others.                    *)
LEMMA TransposesOwnColumns ==
  ASSUME F!FftAssumption, NEW p \in F!Procs, NEW e \in F!Transposed(p)
  PROVE  e[1] \in F!MyColumns(p)
  <1>1. F!Done(p) = F!MyLast(p) - F!MyFirst(p)
    BY DEF F!FftAssumption
  <1>2. e[1] \in F!MyFirst(p) .. F!MyFirst(p) + F!Done(p) - 1
    BY DEF F!Transposed
  <1> QED
    BY <1>1, <1>2, ColumnsAreNumbers DEF F!MyColumns

(***************************************************************************)
(* The inductive invariant.                                                *)
(***************************************************************************)
Between == {{"touch", "touched"}, {"first", "turn", "turned"},
            {"second", "transform", "transformed"}, {"third", "transposed"},
            {"copy", "copied"}, {"done"}}

Together ==
  /\ DOMAIN pc = F!Procs
  /\ DOMAIN direction = F!Procs
  /\ \E places \in Between, d \in {1, -1} :
       \A p \in F!Procs : pc[p] \in places /\ direction[p] = d

LEMMA InitTogether == F!Init => Together
  BY DEF F!Init, Together, Between

(* A step of a process stays between its barriers.                            *)
LEMMA StepStays ==
  ASSUME Together, NEW p \in F!Procs, F!SlaveStart(p)
  PROVE  Together'
  <1>1. /\ direction' = direction
        /\ \E to : /\ pc' = [pc EXCEPT ![p] = to]
                   /\ \/ pc[p] = "touch" /\ to = "touched"
                      \/ pc[p] = "first" /\ to = "turn"
                      \/ pc[p] = "turn" /\ to = "turned"
                      \/ pc[p] = "second" /\ to = "transform"
                      \/ pc[p] = "transform" /\ to = "transformed"
                      \/ pc[p] = "third" /\ to = "transposed"
                      \/ pc[p] = "copy" /\ to = "copied"
    BY DEF F!SlaveStart, F!TouchArray, F!FFT1D, F!Transpose, F!Turn, F!Transform, F!CopyColumns,
           F!OnColumns, F!Goto
  <1>2. PICK to : /\ pc' = [pc EXCEPT ![p] = to]
                  /\ \A places \in Between : pc[p] \in places => to \in places
    <2>1. PICK to : /\ pc' = [pc EXCEPT ![p] = to]
                    /\ \/ pc[p] = "touch" /\ to = "touched"
                       \/ pc[p] = "first" /\ to = "turn"
                       \/ pc[p] = "turn" /\ to = "turned"
                       \/ pc[p] = "second" /\ to = "transform"
                       \/ pc[p] = "transform" /\ to = "transformed"
                       \/ pc[p] = "third" /\ to = "transposed"
                       \/ pc[p] = "copy" /\ to = "copied"
      BY <1>1
    <2>2. ASSUME NEW places \in Between, pc[p] \in places PROVE to \in places
      BY <2>1, <2>2 DEF Between
    <2> QED
      BY <2>1, <2>2
  <1> QED
    BY <1>1, <1>2 DEF Together

LEMMA BarrierMovesAll ==
  ASSUME Together, F!Barrier
  PROVE  Together'
  <1>1. PICK places \in Between, d \in {1, -1} :
          \A p \in F!Procs : pc[p] \in places /\ direction[p] = d
    BY DEF Together
  <1>2. \A p \in F!Procs : pc[p] \in F!AtBarrier
    BY DEF F!Barrier
  <1>3. PICK at \in F!AtBarrier \cup {"done"} : \A p \in F!Procs : pc[p] = at
    BY <1>1, <1>2 DEF Between, F!AtBarrier
  <1> DEFINE to == IF at = "touched" THEN "first"
                   ELSE IF at = "turned" THEN "second"
                   ELSE IF at = "transformed" THEN "third"
                   ELSE IF at = "transposed"
                        THEN IF test_result \/ doprint THEN "copy" ELSE "copied"
                   ELSE IF test_result /\ d = 1 THEN "first" ELSE "done"
             back == IF at = "copied" /\ to = "first" THEN -1 ELSE d
  <1>4. \A p \in F!Procs : F!Behind(p) = to
    BY <1>1, <1>3, Zenon DEF F!Behind
  <1>5. PICK next \in Between : to \in next
    <2>1. to \in {"first", "second", "third", "copy", "copied", "done"}
      BY Zenon
    <2> HIDE DEF to
    <2> QED
      BY <2>1 DEF Between
  <1>6. back \in {1, -1}
    BY <1>1
  <1>7. \A p \in F!Procs : pc'[p] = to /\ direction'[p] = back
    <2> HIDE DEF to
    <2> QED
      BY <1>1, <1>3, <1>4 DEF F!Barrier
  <1>8. DOMAIN pc' = F!Procs /\ DOMAIN direction' = F!Procs
    BY DEF F!Barrier
  <1> HIDE DEF to, back
  <1> QED
    BY <1>5, <1>6, <1>7, <1>8 DEF Together

LEMMA NextTogether == Together /\ [F!Next]_(F!vars) => Together'
  <1>1. CASE UNCHANGED F!vars
    BY <1>1 DEF Together, F!vars
  <1> QED
    BY <1>1, StepStays, BarrierMovesAll DEF F!Next, F!Ended

(***************************************************************************)
(* The theorem.                                                            *)
(***************************************************************************)
LEMMA TogetherIsApart ==
  ASSUME F!FftAssumption, Together, NEW p \in F!Procs, NEW q \in F!Procs, p # q
  PROVE  F!Writes(p) \cap (F!Reads(q) \cup F!Writes(q)) = {}
  <1>1. PICK places \in Between : pc[p] \in places /\ pc[q] \in places
    BY DEF Together
  <1>2. \A e \in F!Own(p) : e[1] \in F!MyColumns(p)
    BY DEF F!Own
  <1>3. \A e \in F!Own(q) \cup F!Transposed(q) : e[1] \in F!MyColumns(q)
    BY TransposesOwnColumns DEF F!Own
  <1>4. \A e \in F!Own(p) \cup F!Transposed(p) : e[1] \in F!MyColumns(p)
    BY TransposesOwnColumns DEF F!Own
  <1>5. (F!Own(p) \cup F!Transposed(p)) \cap (F!Own(q) \cup F!Transposed(q)) = {}
    BY <1>3, <1>4, ColumnsAreApart
  <1>6. CASE places = {"touch", "touched"} \/ places = {"done"}
    BY <1>1, <1>6 DEF F!Writes
  <1>7. CASE places \in {{"first", "turn", "turned"}, {"third", "transposed"}}
    <2>1. F!Writes(p) \subseteq F!All("trans", F!Own(p) \cup F!Transposed(p))
      BY <1>1, <1>7 DEF F!Writes, F!All
    <2>2. /\ F!Writes(q) \subseteq F!All("trans", F!Own(q) \cup F!Transposed(q))
          /\ \E cells : F!Reads(q) \subseteq F!All("trans", F!Own(q)) \cup F!All("x", cells)
      BY <1>1, <1>7 DEF F!Writes, F!Reads, F!All
    <2> QED
      BY <2>1, <2>2, <1>5 DEF F!All
  <1>8. CASE places \in {{"second", "transform", "transformed"}, {"copy", "copied"}}
    <2>1. F!Writes(p) \subseteq F!All("x", F!Own(p) \cup F!Transposed(p))
      BY <1>1, <1>8 DEF F!Writes, F!All
    <2>2. /\ F!Writes(q) \subseteq F!All("x", F!Own(q) \cup F!Transposed(q))
          /\ \E cells : F!Reads(q) \subseteq F!All("x", F!Own(q)) \cup F!All("trans", cells)
      BY <1>1, <1>8 DEF F!Writes, F!Reads, F!All
    <2> QED
      BY <2>1, <2>2, <1>5 DEF F!All
  <1> QED
    BY <1>6, <1>7, <1>8 DEF Between

(* Between two barriers no process writes what another uses, whatever the     *)
(* sizes (FFT1D).                                                             *)
THEOREM FftNoRace == F!FftAssumption => (F!Spec => []F!NoRace)
  <1> SUFFICES ASSUME F!FftAssumption PROVE F!Spec => []F!NoRace
    OBVIOUS
  <1>1. Together => F!NoRace
    BY TogetherIsApart DEF F!NoRace
  <1> QED
    BY <1>1, InitTogether, NextTogether, PTL DEF F!Spec
=============================================================================
