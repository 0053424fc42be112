----------------------------- MODULE Cholesky_proof --------------------------
(***************************************************************************)
(* FactoredWhenRight, ForgetsWhatIsUsed and StopsWhenDone hold for every   *)
(* number of processes and every block structure.                          *)
(*                                                                         *)
(* First what the orders of loops, the grid of processes and the sequences *)
(* of messages are made of; then the mail, where a block or an update is   *)
(* on its way at most once; then the inductive invariant IInv and what     *)
(* follows from it; then one lemma for each action.                        *)
(***************************************************************************)
EXTENDS Cholesky, TLAPS, FiniteSetTheorems

(***************************************************************************)
(* Orders.                                                                 *)
(***************************************************************************)
LEMMA RankFacts ==
  ASSUME NEW A \in SUBSET Int, IsFiniteSet(A)
  PROVE  /\ Cardinality(A) \in Nat
         /\ \A e \in A : Rank(A, e) \in 1 .. Cardinality(A)
         /\ \A d, e \in A : Rank(A, d) = Rank(A, e) => d = e
         /\ \A d, e \in A : d < e => Rank(A, d) < Rank(A, e)
         /\ \A x \in 1 .. Cardinality(A) : \E e \in A : Rank(A, e) = x
  <1> DEFINE Upto(e) == {f \in A : f <= e}
  <1>1. Cardinality(A) \in Nat
    BY FS_CardinalityType
  <1>2. \A e \in A : IsFiniteSet(Upto(e)) /\ Cardinality(Upto(e)) \in Nat
                     /\ Cardinality(Upto(e)) <= Cardinality(A)
    <2> TAKE e \in A
    <2>1. Upto(e) \in SUBSET A
      OBVIOUS
    <2> QED
      BY <2>1, FS_Subset, FS_CardinalityType
  <1>3. \A e \in A : Rank(A, e) = Cardinality(Upto(e))
    BY DEF Rank
  <1>4. \A e \in A : Rank(A, e) \in 1 .. Cardinality(A)
    <2> TAKE e \in A
    <2>1. e \in Upto(e)
      OBVIOUS
    <2>2. Cardinality(Upto(e)) # 0
      BY <1>2, <2>1, FS_EmptySet
    <2> QED
      BY <1>1, <1>2, <1>3, <2>2
  <1>5. ASSUME NEW d \in A, NEW e \in A, d < e PROVE Rank(A, d) < Rank(A, e)
    <2>1. Upto(d) \in SUBSET Upto(e) /\ Upto(d) # Upto(e)
      <3>1. A \subseteq Int
        OBVIOUS
      <3>2. \A f \in A : f <= d => f <= e
        BY <1>5, <3>1
      <3>3. e <= e /\ ~(e <= d)
        BY <1>5, <3>1
      <3> QED
        BY <3>2, <3>3
    <2>2. Cardinality(Upto(d)) # Cardinality(Upto(e)) /\ Cardinality(Upto(d)) <= Cardinality(Upto(e))
      BY <1>2, <2>1, FS_Subset
    <2>3. Cardinality(Upto(d)) < Cardinality(Upto(e))
      BY <2>2, <1>2
    <2> QED
      BY <2>3, <1>3
  <1>6. \A d, e \in A : Rank(A, d) = Rank(A, e) => d = e
    <2> TAKE d \in A, e \in A
    <2>1. d \in Int /\ e \in Int
      OBVIOUS
    <2>2. d = e \/ d < e \/ e < d
      BY <2>1
    <2>3. Rank(A, d) \in Int /\ Rank(A, e) \in Int
      BY <1>4
    <2> QED
      BY <2>2, <2>3, <1>5
  <1>7. \A x \in 1 .. Cardinality(A) : \E e \in A : Rank(A, e) = x
    <2> DEFINE f == [e \in A |-> Rank(A, e)]
               T == 1 .. Cardinality(A)
    <2>1. f \in Injection(A, T)
      BY <1>4, <1>6, Zenon DEF Injection, IsInjective
    <2>2. IsFiniteSet(T) /\ Cardinality(T) = Cardinality(A)
      BY <1>1, FS_Interval
    <2>3. f \in Surjection(A, T)
      BY <2>1, <2>2, FS_Injection
    <2> QED
      BY <2>3 DEF Surjection
  <1> QED
    BY <1>1, <1>4, <1>5, <1>6, <1>7

(* InOrder gives every number once.                                           *)
LEMMA InOrderFacts ==
  ASSUME NEW A \in SUBSET Int, IsFiniteSet(A)
  PROVE  /\ Cardinality(A) \in Nat /\ InOrder(A) \in [1 .. Cardinality(A) -> A]
         /\ IsInjective(InOrder(A))
         /\ ToSet(InOrder(A)) = A
         /\ \A x, y \in 1 .. Cardinality(A) : y <= x => InOrder(A)[y] <= InOrder(A)[x]
  <1>1. /\ Cardinality(A) \in Nat
        /\ \A e \in A : Rank(A, e) \in 1 .. Cardinality(A)
        /\ \A d, e \in A : Rank(A, d) = Rank(A, e) => d = e
        /\ \A d, e \in A : d < e => Rank(A, d) < Rank(A, e)
        /\ \A x \in 1 .. Cardinality(A) : \E e \in A : Rank(A, e) = x
    BY RankFacts
  <1> DEFINE N == Cardinality(A)
  <1>2. \A x \in 1 .. N : InOrder(A)[x] \in A /\ Rank(A, InOrder(A)[x]) = x
    BY <1>1 DEF InOrder
  <1>3. DOMAIN InOrder(A) = 1 .. N /\ InOrder(A) = [x \in 1 .. N |-> InOrder(A)[x]]
    BY DEF InOrder
  <1>4. InOrder(A) \in [1 .. N -> A]
    BY <1>2, <1>3, Zenon
  <1>5. IsInjective(InOrder(A))
    BY <1>2, <1>3, Zenon DEF IsInjective
  <1>6. \A e \in A : \E x \in 1 .. N : InOrder(A)[x] = e
    <2> SUFFICES ASSUME NEW e \in A PROVE InOrder(A)[Rank(A, e)] = e /\ Rank(A, e) \in 1 .. N
      BY Zenon
    <2>1. Rank(A, e) \in 1 .. N
      BY <1>1, Zenon
    <2>2. InOrder(A)[Rank(A, e)] \in A /\ Rank(A, InOrder(A)[Rank(A, e)]) = Rank(A, e)
      BY <1>2, <2>1, Zenon
    <2> QED
      BY <1>1, <2>1, <2>2, Zenon
  <1>7. ToSet(InOrder(A)) = A
    BY <1>2, <1>3, <1>6, Zenon DEF ToSet
  <1>8. ASSUME NEW x \in 1 .. N, NEW y \in 1 .. N, y <= x PROVE InOrder(A)[y] <= InOrder(A)[x]
    <2> DEFINE d == InOrder(A)[x]
               e == InOrder(A)[y]
    <2>1. d \in A /\ e \in A /\ Rank(A, d) = x /\ Rank(A, e) = y
      BY <1>2
    <2> HIDE DEF d, e
    <2>2. d < e => x < y
      BY <2>1, <1>1
    <2>3. d \in Int /\ e \in Int /\ x \in Int /\ y \in Int
      BY <2>1, <1>1
    <2>4. e <= d
      BY <2>2, <2>3, <1>8
    <2> QED
      BY <2>4 DEF d, e
  <1> QED
    BY <1>1, <1>4, <1>5, <1>7, <1>8

(* Only keeps what is in the set, and in a sequence without repetitions it    *)
(* repeats nothing.                                                           *)
LEMMA OnlyFacts ==
  ASSUME NEW T, NEW s \in Seq(T), NEW S
  PROVE  /\ Only(s, S) \in Seq(T)
         /\ ToSet(Only(s, S)) = ToSet(s) \cap S
         /\ IsInjective(s) => IsInjective(Only(s, S))
  <1> DEFINE A == {x \in DOMAIN s : s[x] \in S}
             at == InOrder(A)
  <1>1. DOMAIN s = 1 .. Len(s) /\ Len(s) \in Nat
    OBVIOUS
  <1>2. A \in SUBSET Int /\ IsFiniteSet(A)
    <2>1. IsFiniteSet(1 .. Len(s))
      BY <1>1, FS_Interval
    <2>2. A \in SUBSET (1 .. Len(s))
      BY <1>1
    <2> QED
      BY <1>1, <2>1, <2>2, FS_Subset
  <1>3. /\ Cardinality(A) \in Nat /\ at \in [1 .. Cardinality(A) -> A]
        /\ IsInjective(at) /\ ToSet(at) = A
    BY <1>2, InOrderFacts
  <1>4. Only(s, S) = [x \in DOMAIN at |-> s[at[x]]]
    BY DEF Only
  <1> DEFINE o == Only(s, S)
  <1>5. DOMAIN at = 1 .. Cardinality(A) /\ \A x \in DOMAIN at : at[x] \in A
    BY <1>3
  <1>6. DOMAIN o = 1 .. Cardinality(A) /\ \A x \in DOMAIN o : o[x] = s[at[x]] /\ at[x] \in A
    BY <1>4, <1>5
  <1>7. o \in Seq(T)
    <2>1. \A x \in 1 .. Cardinality(A) : o[x] \in T
      <3> TAKE x \in 1 .. Cardinality(A)
      <3>1. at[x] \in 1 .. Len(s)
        BY <1>1, <1>5
      <3> QED
        BY <1>6, <3>1
    <2>2. o = [x \in 1 .. Cardinality(A) |-> s[at[x]]]
      BY <1>4, <1>5
    <2>3. o \in [1 .. Cardinality(A) -> T]
      <3> HIDE DEF A, at, o
      <3> QED
        BY <2>1, <2>2, <1>6, Zenon
    <2> HIDE DEF A, at, o
    <2> QED
      BY <2>3, <1>3
  <1>8. ToSet(o) = ToSet(s) \cap S
    <2>1. \A x \in DOMAIN o : o[x] \in ToSet(s) /\ o[x] \in S
      <3> TAKE x \in DOMAIN o
      <3>1. at[x] \in DOMAIN s /\ s[at[x]] \in S /\ o[x] = s[at[x]]
        BY <1>6
      <3> QED
        BY <3>1, Zenon DEF ToSet
    <2>2. \A y \in DOMAIN s : s[y] \in S => \E x \in DOMAIN o : o[x] = s[y]
      <3> SUFFICES ASSUME NEW y \in DOMAIN s, s[y] \in S PROVE \E x \in DOMAIN o : o[x] = s[y]
        OBVIOUS
      <3>1. y \in ToSet(at)
        BY <1>3
      <3>2. PICK x \in DOMAIN at : at[x] = y
        BY <3>1, Zenon DEF ToSet
      <3> QED
        BY <3>2, <1>5, <1>6
    <2> HIDE DEF o
    <2> QED
      BY <2>1, <2>2, Zenon DEF ToSet
  <1>9. IsInjective(s) => IsInjective(o)
    <2> SUFFICES ASSUME IsInjective(s), NEW x \in DOMAIN o, NEW y \in DOMAIN o, o[x] = o[y]
                 PROVE x = y
      BY Zenon DEF IsInjective
    <2>1. at[x] \in DOMAIN s /\ at[y] \in DOMAIN s /\ s[at[x]] = s[at[y]]
      BY <1>6
    <2>2. at[x] = at[y]
      BY <2>1, Zenon DEF IsInjective
    <2>3. x \in DOMAIN at /\ y \in DOMAIN at
      BY <1>5, <1>6
    <2> HIDE DEF at, o
    <2> QED
      BY <2>2, <2>3, <1>3, Zenon DEF IsInjective
  <1> QED
    BY <1>7, <1>8, <1>9

(* Quotient and remainder.                                                    *)
LEMMA Parts ==
  ASSUME NEW n \in Nat \ {0}, NEW a \in Nat
  PROVE  /\ a \div n \in Nat /\ a % n \in 0 .. n - 1
         /\ a = n * (a \div n) + (a % n)
  BY SMT

(* A product grows with its factor.                                           *)
LEMMA Product ==
  ASSUME NEW n \in Nat, NEW a \in Nat, NEW b \in Nat, a <= b
  PROVE  n * a \in Nat /\ n * b \in Nat /\ n * a <= n * b
  BY SMT

(* One more row of n.                                                         *)
LEMMA Distribute ==
  ASSUME NEW n \in Nat, NEW a \in Nat
  PROVE  n * (a + 1) = n * a + n
  BY SMT

(* The order of factors does not matter.                                      *)
LEMMA Commute ==
  ASSUME NEW n \in Nat, NEW a \in Nat
  PROVE  n * a = a * n
  BY SMT

(* A number below m * n has one row and one column. *)
LEMMA OneWay ==
  ASSUME NEW n \in Nat \ {0}, NEW a \in Nat, NEW b \in Nat, NEW c \in 0 .. n - 1, NEW d \in 0 .. n - 1,
         n * a + c = n * b + d
  PROVE  a = b /\ c = d
  <1>1. ASSUME NEW x \in Nat, NEW y \in Nat, x < y PROVE n * x + n <= n * y
    <2>1. n * (x + 1) <= n * y
      BY <1>1, Product
    <2>2. n * (x + 1) = n * x + n
      BY Distribute
    <2> QED
      BY <2>1, <2>2
  <1>2. n * a \in Nat /\ n * b \in Nat
    BY Product
  <1>3. ~(a < b)
    <2> SUFFICES ASSUME a < b PROVE FALSE
      OBVIOUS
    <2>1. n * a + n <= n * b
      BY <1>1
    <2> QED
      BY <2>1, <1>2
  <1>4. ~(b < a)
    <2> SUFFICES ASSUME b < a PROVE FALSE
      OBVIOUS
    <2>1. n * b + n <= n * a
      BY <1>1
    <2> QED
      BY <2>1, <1>2
  <1>5. a = b
    BY <1>3, <1>4
  <1> QED
    BY <1>5, <1>2

(* Grid goes once through every place. *)
LEMMA GridFacts ==
  ASSUME NEW m \in Nat, NEW n \in Nat \ {0}
  PROVE  /\ Grid(m, n) \in Seq((1 .. m) \X (1 .. n))
         /\ IsInjective(Grid(m, n))
         /\ ToSet(Grid(m, n)) = (1 .. m) \X (1 .. n)
         /\ DOMAIN Grid(m, n) = 1 .. m * n
  <1> DEFINE g == Grid(m, n)
  <1>1. m * n \in Nat /\ n * m = m * n
    BY Product, Commute
  <1>2. DOMAIN g = 1 .. m * n /\ \A x \in DOMAIN g : g[x] = <<(x - 1) \div n + 1, ((x - 1) % n) + 1>>
    BY DEF Grid
  <1>3. ASSUME NEW x \in DOMAIN g
        PROVE  /\ g[x] \in (1 .. m) \X (1 .. n)
               /\ x = n * (g[x][1] - 1) + g[x][2]
    <2> DEFINE q == (x - 1) \div n
               r == (x - 1) % n
    <2>1. x - 1 \in Nat /\ x <= m * n
      BY <1>1, <1>2
    <2>2. q \in Nat /\ r \in 0 .. n - 1 /\ x - 1 = n * q + r
      BY <2>1, Parts
    <2>3. g[x] = <<q + 1, r + 1>>
      BY <1>2
    <2> HIDE DEF q, r, g
    <2>4. q < m
      <3> SUFFICES ASSUME m <= q PROVE FALSE
        BY <2>2
      <3> DEFINE u == n * q
                 v == n * m
      <3>1. u \in Nat /\ v \in Nat /\ v <= u
        BY <2>2, Product
      <3>2. x <= v /\ x - 1 = u + r /\ x \in Int
        BY <2>1, <2>2, <1>1, <1>2
      <3> HIDE DEF u, v
      <3> QED
        BY <3>1, <3>2, <2>2
    <2>5. g[x][1] = q + 1 /\ g[x][2] = r + 1
      BY <2>3
    <2>6. g[x][1] - 1 = q
      BY <2>2, <2>5
    <2>7. n * q \in Nat /\ x \in Int
      BY <2>2, <1>1, <1>2, Product
    <2>8. x = n * q + (r + 1)
      <3> DEFINE u == n * q
      <3>1. u \in Nat /\ x - 1 = u + r
        BY <2>2, <2>7
      <3> HIDE DEF u
      <3> QED
        BY <3>1, <2>2, <2>7
    <2>9. g[x] \in (1 .. m) \X (1 .. n)
      BY <2>2, <2>3, <2>4
    <2> QED
      BY <2>5, <2>6, <2>8, <2>9, Zenon
  <1>4. g \in Seq((1 .. m) \X (1 .. n))
    <2> DEFINE R == (1 .. m) \X (1 .. n)
               k == m * n
    <2>1. g = [x \in 1 .. k |-> g[x]]
      BY DEF Grid
    <2>2. k \in Nat /\ \A x \in 1 .. k : g[x] \in R
      BY <1>1, <1>2, <1>3
    <2> HIDE DEF g, R, k
    <2>3. g \in [1 .. k -> R]
      BY <2>1, <2>2, Zenon
    <2>4. g \in Seq(R)
      BY <2>2, <2>3
    <2> QED
      BY <2>4 DEF R
  <1>5. ASSUME NEW x \in DOMAIN g, NEW y \in DOMAIN g, g[x] = g[y] PROVE x = y
    BY <1>3, <1>5
  <1>6. ASSUME NEW e \in (1 .. m) \X (1 .. n) PROVE \E x \in DOMAIN g : g[x] = e
    <2> DEFINE a == e[1] - 1
               c == e[2] - 1
               x == n * a + c + 1
    <2>1. a \in Nat /\ a + 1 <= m /\ c \in 0 .. n - 1 /\ e = <<a + 1, c + 1>>
      OBVIOUS
    <2> HIDE DEF a, c, g
    <2>2. n * a \in Nat /\ n * (a + 1) <= n * m /\ n * (a + 1) = n * a + n
      BY <2>1, Product, Distribute
    <2>3. x \in 1 .. m * n
      BY <2>1, <2>2, <1>1
    <2>4. x - 1 = n * a + c /\ x - 1 \in Nat
      BY <2>1, <2>2
    <2>5. (x - 1) \div n \in Nat /\ (x - 1) % n \in 0 .. n - 1
          /\ x - 1 = n * ((x - 1) \div n) + ((x - 1) % n)
      BY <2>4, Parts
    <2>6. (x - 1) \div n = a /\ (x - 1) % n = c
      BY <2>1, <2>4, <2>5, OneWay
    <2>7. g[x] = e
      BY <2>1, <2>3, <2>6, <1>2
    <2> QED
      BY <2>3, <2>7, <1>2
  <1>7. IsInjective(g)
    <2> HIDE DEF g
    <2> QED
      BY <1>5, Zenon DEF IsInjective
  <1>8. ToSet(g) = (1 .. m) \X (1 .. n)
    <2> DEFINE R == (1 .. m) \X (1 .. n)
    <2> HIDE DEF g
    <2>1. \A x \in DOMAIN g : g[x] \in R
      BY <1>3
    <2>2. \A e \in R : \E x \in DOMAIN g : g[x] = e
      BY <1>6
    <2> HIDE DEF R
    <2>3. ToSet(g) = R
      BY <2>1, <2>2, Zenon DEF ToSet
    <2> QED
      BY <2>3 DEF R
  <1> QED
    BY <1>2, <1>4, <1>7, <1>8

(***************************************************************************)
(* The grid of processes.                                                  *)
(***************************************************************************)
LEMMA Largest ==
  ASSUME NEW A \in SUBSET Int, IsFiniteSet(A), A # {}
  PROVE  \E t \in A : \A s \in A : s <= t
  <1>1. Cardinality(A) # 0 /\ Cardinality(A) \in Nat
    BY FS_EmptySet, FS_CardinalityType
  <1>2. PICK t \in A : Rank(A, t) = Cardinality(A)
    BY <1>1, RankFacts
  <1> DEFINE U == {s \in A : s <= t}
  <1>3. Cardinality(U) = Cardinality(A) /\ U \in SUBSET A
    BY <1>2 DEF Rank
  <1>4. U = A
    BY <1>3, FS_Subset
  <1> QED
    BY <1>4

(* FindMachineDimensions gives a grid that holds all processes.               *)
LEMMA MachineDimensions ==
  /\ P_dimi \in Nat \ {0} /\ P_dimj \in Nat \ {0}
  /\ P = P_dimi * P_dimj
  <1>1. P \in Nat \ {0}
    BY CholeskyAssumption
  <1> DEFINE D == {t \in 1 .. P : P % t = 0 /\ t * t <= P}
  <1>2. 1 \in D
    <2>1. P % 1 = 0
      BY <1>1, SMT
    <2> QED
      BY <1>1, <2>1
  <1>3. D \in SUBSET Int /\ IsFiniteSet(D)
    <2>1. IsFiniteSet(1 .. P) /\ D \in SUBSET (1 .. P)
      BY <1>1, FS_Interval
    <2>2. IsFiniteSet(D)
      BY <2>1, FS_Subset
    <2> QED
      BY <2>1, <2>2
  <1>4. \E t \in D : \A s \in D : s <= t
    <2> HIDE DEF D
    <2> QED
      BY <1>2, <1>3, Largest
  <1>5. PICK t \in D : \A s \in D : s <= t
    BY <1>4
  <1>6. \A s \in t + 1 .. P : P % s = 0 => s * s > P
    <2> SUFFICES ASSUME NEW s \in t + 1 .. P, P % s = 0, ~(s * s > P) PROVE FALSE
      OBVIOUS
    <2>1. s \in 1 .. P /\ s > t
      BY <1>1
    <2>2. s * s <= P
      BY <1>1, <2>1
    <2> QED
      BY <2>1, <2>2, <1>5
  <1>7. P_dimj \in 1 .. P /\ P % P_dimj = 0
    BY <1>5, <1>6, Zenon DEF P_dimj
  <1>8. P_dimj \in Nat \ {0} /\ P \in Nat
    BY <1>1, <1>7
  <1>9. P \div P_dimj \in Nat /\ P = P_dimj * (P \div P_dimj) + (P % P_dimj)
    BY <1>8, Parts
  <1>10. P_dimi \in Nat /\ P = P_dimj * P_dimi + 0
    BY <1>7, <1>9 DEF P_dimi
  <1>11. P_dimj * P_dimi \in Nat /\ P_dimj * P_dimi = P_dimi * P_dimj
    BY <1>8, <1>10, Product, Commute
  <1>12. P_dimi # 0
    BY <1>1, <1>8, <1>10
  <1> QED
    BY <1>8, <1>10, <1>11, <1>12

(* A row and a column of the grid give one process, and no others give it.    *)
LEMMA InMachine ==
  ASSUME NEW r \in 0 .. P_dimi - 1, NEW c \in 0 .. P_dimj - 1
  PROVE  /\ r + c * P_dimi \in Procs
         /\ \A s \in 0 .. P_dimi - 1, d \in 0 .. P_dimj - 1 :
              r + c * P_dimi = s + d * P_dimi => r = s /\ c = d
  <1>1. P_dimi \in Nat \ {0} /\ P_dimj \in Nat \ {0} /\ P = P_dimi * P_dimj
    BY MachineDimensions
  <1>2. c \in Nat /\ P_dimj - 1 \in Nat /\ c <= P_dimj - 1
    BY <1>1
  <1>3. /\ P_dimi * c \in Nat /\ P_dimi * (P_dimj - 1) \in Nat
        /\ P_dimi * c <= P_dimi * (P_dimj - 1)
    BY <1>1, <1>2, Product
  <1>4. P_dimi * ((P_dimj - 1) + 1) = P_dimi * (P_dimj - 1) + P_dimi
    BY <1>1, <1>2, Distribute
  <1>5. (P_dimj - 1) + 1 = P_dimj
    BY <1>1
  <1>6. \A d \in 0 .. P_dimj - 1 : d \in Nat /\ d * P_dimi = P_dimi * d /\ P_dimi * d \in Nat
    BY <1>1, Commute, Product
  <1>7. r + c * P_dimi \in Procs
    <2> DEFINE u == P_dimi * c
               v == P_dimi * (P_dimj - 1)
    <2>1. u \in Nat /\ v \in Nat /\ u <= v /\ P = v + P_dimi /\ c * P_dimi = u
      BY <1>1, <1>3, <1>4, <1>5, <1>6
    <2> HIDE DEF u, v
    <2>2. r + u \in 0 .. P - 1
      BY <2>1, <1>1
    <2> QED
      BY <2>1, <2>2 DEF Procs
  <1>8. ASSUME NEW s \in 0 .. P_dimi - 1, NEW d \in 0 .. P_dimj - 1,
               r + c * P_dimi = s + d * P_dimi
        PROVE  r = s /\ c = d
    <2>1. /\ d \in Nat /\ d * P_dimi = P_dimi * d /\ P_dimi * d \in Nat
          /\ c \in Nat /\ c * P_dimi = P_dimi * c /\ P_dimi * c \in Nat
      BY <1>6
    <2>2. P_dimi * c + r = P_dimi * d + s
      <3> DEFINE u == P_dimi * c
                 v == P_dimi * d
      <3>1. u \in Nat /\ v \in Nat /\ r + u = s + v
        BY <2>1, <1>8
      <3> HIDE DEF u, v
      <3>2. u + r = v + s
        BY <3>1, <1>1
      <3> QED
        BY <3>2 DEF u, v
    <2> QED
      BY <2>1, <2>2, <1>1, OneWay
  <1> QED
    BY <1>7, <1>8

(* Every partition has a row and a column of the grid.                        *)
LEMMA Places ==
  ASSUME NEW i \in Nat
  PROVE  i % P_dimi \in 0 .. P_dimi - 1 /\ i % P_dimj \in 0 .. P_dimj - 1
  BY MachineDimensions, Parts

(* EmbeddedOwner is a process.                                                *)
LEMMA OwnerInMachine ==
  ASSUME NEW b \in Nat \X Nat
  PROVE  EmbeddedOwner(b) \in Procs
  <1>1. b[1] \in Nat /\ b[2] \in Nat
    OBVIOUS
  <1> QED
    BY <1>1, Places, InMachine DEF EmbeddedOwner

(* A block goes once to every process of its row and of its column. *)
LEMMA DoneToFacts ==
  ASSUME NEW b \in Nat \X Nat
  PROVE  /\ DoneTo(b) \in Seq(Procs) /\ Len(DoneTo(b)) = P_dimi + P_dimj - 1
         /\ IsInjective(DoneTo(b))
         /\ \A c \in 0 .. P_dimj - 1 : (b[1] % P_dimi) + c * P_dimi \in ToSet(DoneTo(b))
         /\ \A r \in 0 .. P_dimi - 1 : r + (b[1] % P_dimj) * P_dimi \in ToSet(DoneTo(b))
  <1> DEFINE I == P_dimi
             J == P_dimj
             row == b[1] % P_dimi
             col == b[1] % P_dimj
             R(x) == IF x <= J THEN row ELSE IF x - J > row THEN x - J ELSE x - J - 1
             C(x) == IF x <= J THEN x - 1 ELSE col
             u == DoneToRow(b)
             v == [x \in 1 .. I - 1 |-> (IF x > row THEN x ELSE x - 1) + col * I]
  <1>1. I \in Nat \ {0} /\ J \in Nat \ {0}
    BY MachineDimensions
  <1>2. b[1] \in Nat /\ row \in 0 .. I - 1 /\ col \in 0 .. J - 1
    BY Places
  <1>3. DoneTo(b) = u \o v
    BY DEF DoneTo, DoneToColumn
  <1>4. u = [x \in 1 .. J |-> row + (x - 1) * I]
    BY DEF DoneToRow
  <1> HIDE DEF I, J, row, col, u
  <1>5. \A x \in 1 .. I + J - 1 : R(x) \in 0 .. I - 1 /\ C(x) \in 0 .. J - 1
    BY <1>1, <1>2
  <1>6. \A x \in 1 .. I + J - 1, y \in 1 .. I + J - 1 : R(x) = R(y) /\ C(x) = C(y) => x = y
    BY <1>1, <1>2
  <1>7. /\ u \in Seq(Procs) /\ Len(u) = J
        /\ \A x \in 1 .. J : u[x] = R(x) + C(x) * I
    <2>1. \A x \in 1 .. J : u[x] = row + (x - 1) * I /\ u[x] \in Procs
      <3> TAKE x \in 1 .. J
      <3>1. u[x] = row + (x - 1) * I /\ x - 1 \in 0 .. J - 1
        BY <1>1, <1>4
      <3> QED
        BY <3>1, <1>2, InMachine DEF I, J
    <2>2. u \in [1 .. J -> Procs]
      BY <1>4, <2>1, Zenon
    <2>3. \A x \in 1 .. J : R(x) = row /\ C(x) = x - 1
      BY <1>1
    <2> QED
      BY <1>1, <2>1, <2>2, <2>3
  <1>8. /\ v \in Seq(Procs) /\ Len(v) = I - 1
        /\ \A x \in J + 1 .. I + J - 1 : v[x - J] = R(x) + C(x) * I
    <2> DEFINE r(x) == IF x > row THEN x ELSE x - 1
    <2>1. \A x \in 1 .. I - 1 : r(x) \in 0 .. I - 1
      BY <1>1, <1>2
    <2>2. \A x \in 1 .. I - 1 : v[x] = r(x) + col * I /\ v[x] \in Procs
      <3> TAKE x \in 1 .. I - 1
      <3>1. v[x] = r(x) + col * I /\ r(x) \in 0 .. I - 1
        BY <2>1
      <3> QED
        BY <3>1, <1>2, InMachine DEF I, J
    <2>3. v \in [1 .. I - 1 -> Procs]
      <3>1. v = [x \in 1 .. I - 1 |-> v[x]]
        OBVIOUS
      <3> HIDE DEF v, r
      <3> QED
        BY <2>2, <3>1, Zenon
    <2>4. v \in Seq(Procs) /\ Len(v) = I - 1
      <3> HIDE DEF v
      <3> QED
        BY <1>1, <2>3
    <2>5. \A x \in J + 1 .. I + J - 1 : x - J \in 1 .. I - 1 /\ R(x) = r(x - J) /\ C(x) = col
      BY <1>1
    <2> HIDE DEF v, r, R, C
    <2> QED
      BY <2>2, <2>4, <2>5
  <1> DEFINE s == u \o v
  <1> HIDE DEF v, R, C
  <1>9. s \in Seq(Procs) /\ Len(s) = I + J - 1
    BY <1>1, <1>7, <1>8
  <1>10. ASSUME NEW x \in 1 .. I + J - 1 PROVE s[x] = R(x) + C(x) * I
    <2>1. CASE x <= J
      <3>1. s[x] = u[x] /\ x \in 1 .. J
        BY <1>1, <1>7, <1>8, <2>1
      <3> QED
        BY <3>1, <1>7
    <2>2. CASE ~(x <= J)
      <3>1. s[x] = v[x - J] /\ x \in J + 1 .. I + J - 1
        BY <1>1, <1>7, <1>8, <2>2
      <3> QED
        BY <3>1, <1>8
    <2> QED
      BY <2>1, <2>2
  <1>11. DOMAIN s = 1 .. I + J - 1
    BY <1>9
  <1> HIDE DEF s
  <1>12. IsInjective(s)
    <2> SUFFICES ASSUME NEW x \in DOMAIN s, NEW y \in DOMAIN s, s[x] = s[y] PROVE x = y
      BY Zenon DEF IsInjective
    <2>1. x \in 1 .. I + J - 1 /\ y \in 1 .. I + J - 1
      BY <1>11
    <2>2. R(x) + C(x) * I = R(y) + C(y) * I
      BY <2>1, <1>10
    <2>3. R(x) = R(y) /\ C(x) = C(y)
      BY <2>1, <2>2, <1>5, InMachine DEF I, J
    <2> QED
      BY <2>1, <2>3, <1>6
  <1>13. ASSUME NEW x \in 1 .. I + J - 1 PROVE R(x) + C(x) * I \in ToSet(s)
    BY <1>10, <1>11, <1>13, Zenon DEF ToSet
  <1>14. \A c \in 0 .. J - 1 : row + c * I \in ToSet(s)
    <2> TAKE c \in 0 .. J - 1
    <2>1. c + 1 \in 1 .. I + J - 1 /\ R(c + 1) = row /\ C(c + 1) = c
      BY <1>1 DEF R, C
    <2> QED
      BY <2>1, <1>13
  <1>15. \A r \in 0 .. I - 1 : r + col * I \in ToSet(s)
    <2> TAKE r \in 0 .. I - 1
    <2>1. CASE r = row
      BY <2>1, <1>14, <1>2
    <2>2. CASE r < row
      <3>1. J + r + 1 \in 1 .. I + J - 1 /\ R(J + r + 1) = r /\ C(J + r + 1) = col
        BY <1>1, <1>2, <2>2 DEF R, C
      <3> QED
        BY <3>1, <1>13
    <2>3. CASE r > row
      <3>1. J + r \in 1 .. I + J - 1 /\ R(J + r) = r /\ C(J + r) = col
        BY <1>1, <1>2, <2>3 DEF R, C
      <3> QED
        BY <3>1, <1>13
    <2> QED
      BY <2>1, <2>2, <2>3, <1>2
  <1> QED
    BY <1>3, <1>9, <1>12, <1>14, <1>15 DEF s, I, J, row, col

(***************************************************************************)
(* What happens to the members of a sequence.                              *)
(***************************************************************************)
Once(s, e) == \A x, y \in DOMAIN s : s[x] = e /\ s[y] = e => x = y

(* In a sequence without repetitions everything is once.                      *)
LEMMA InjectiveOnce ==
  ASSUME NEW s, IsInjective(s)
  PROVE  \A e : Once(s, e)
  BY Zenon DEF IsInjective, Once

(* What is in a sequence.                                                     *)
LEMMA MemberFacts ==
  ASSUME NEW T, NEW s \in Seq(T)
  PROVE  /\ \A e \in ToSet(s) : e \in T
         /\ ToSet(s) = {} <=> s = <<>>
  <1>1. /\ DOMAIN s = 1 .. Len(s) /\ Len(s) \in Nat
        /\ \A x \in DOMAIN s : s[x] \in T
    OBVIOUS
  <1>2. \A e \in ToSet(s) : e \in T
    BY <1>1, Zenon DEF ToSet
  <1>3. CASE s = <<>>
    BY <1>2, <1>3 DEF ToSet
  <1>4. CASE s # <<>>
    <2>1. 1 \in DOMAIN s
      BY <1>1, <1>4
    <2> QED
      BY <1>2, <1>4, <2>1 DEF ToSet
  <1> QED
    BY <1>2, <1>3, <1>4

(* The head of a sequence leaves it.                                          *)
LEMMA TailFacts ==
  ASSUME NEW T, NEW s \in Seq(T), s # <<>>
  PROVE  /\ Tail(s) \in Seq(T) /\ Head(s) \in T
         /\ ToSet(s) = {Head(s)} \cup ToSet(Tail(s))
         /\ \A e : Once(s, e) => /\ Once(Tail(s), e)
                                 /\ e = Head(s) => e \notin ToSet(Tail(s))
  <1>1. /\ Tail(s) \in Seq(T) /\ Head(s) = s[1] /\ Head(s) \in T /\ 1 \in DOMAIN s
        /\ \A x \in DOMAIN Tail(s) : x + 1 \in DOMAIN s /\ Tail(s)[x] = s[x + 1] /\ x + 1 # 1
        /\ \A x \in DOMAIN s : x # 1 => x - 1 \in DOMAIN Tail(s) /\ Tail(s)[x - 1] = s[x]
        /\ \A x, y \in DOMAIN Tail(s) : x + 1 = y + 1 => x = y
    OBVIOUS
  <1> DEFINE t == Tail(s)
             h == Head(s)
  <1> HIDE DEF t, h
  <1>2. ToSet(s) = {h} \cup ToSet(t)
    <2>1. ToSet(s) \subseteq {h} \cup ToSet(t)
      <3>1. ASSUME NEW x \in DOMAIN s, x # 1 PROVE s[x] \in ToSet(t)
        <4>1. x - 1 \in DOMAIN t /\ t[x - 1] = s[x]
          BY <1>1, <3>1 DEF t
        <4> QED
          BY <4>1, Zenon DEF ToSet
      <3>2. s[1] = h
        BY <1>1 DEF h
      <3>3. \A x \in DOMAIN s : s[x] \in {h} \cup ToSet(t)
        BY <3>1, <3>2
      <3> HIDE DEF h
      <3>4. \A e \in ToSet(s) : \E x \in DOMAIN s : e = s[x]
        BY Zenon DEF ToSet
      <3> QED
        BY <3>3, <3>4
    <2>2. h \in ToSet(s)
      BY <1>1, Zenon DEF ToSet, h
    <2>3. ToSet(t) \subseteq ToSet(s)
      <3> SUFFICES ASSUME NEW x \in DOMAIN t PROVE t[x] \in ToSet(s)
        BY Zenon DEF ToSet
      <3>1. x + 1 \in DOMAIN s /\ t[x] = s[x + 1]
        BY <1>1 DEF t
      <3> QED
        BY <3>1, Zenon DEF ToSet
    <2> QED
      BY <2>1, <2>2, <2>3
  <1>3. ASSUME NEW e, Once(s, e) PROVE Once(t, e)
    <2> SUFFICES ASSUME NEW x \in DOMAIN t, NEW y \in DOMAIN t, t[x] = e, t[y] = e PROVE x = y
      BY Zenon DEF Once
    <2>1. x + 1 \in DOMAIN s /\ y + 1 \in DOMAIN s /\ s[x + 1] = e /\ s[y + 1] = e
      BY <1>1 DEF t
    <2>2. x + 1 = y + 1
      BY <2>1, <1>3, Zenon DEF Once
    <2> QED
      BY <2>2, <1>1 DEF t
  <1>4. ASSUME NEW e, Once(s, e), e = h PROVE e \notin ToSet(t)
    <2> SUFFICES ASSUME NEW x \in DOMAIN t, t[x] = e PROVE FALSE
      BY Zenon DEF ToSet
    <2>1. x + 1 \in DOMAIN s /\ s[x + 1] = e /\ s[1] = e /\ 1 \in DOMAIN s /\ x + 1 # 1
      BY <1>1, <1>4 DEF t, h
    <2> QED
      BY <2>1, <1>4, Zenon DEF Once
  <1> QED
    BY <1>1, <1>2, <1>3, <1>4 DEF t, h

(* One more at the end.                                                       *)
LEMMA AppendFacts ==
  ASSUME NEW T, NEW s \in Seq(T), NEW f \in T
  PROVE  /\ Append(s, f) \in Seq(T)
         /\ ToSet(Append(s, f)) = ToSet(s) \cup {f}
         /\ \A e : Once(s, e) /\ (e # f \/ e \notin ToSet(s)) => Once(Append(s, f), e)
         /\ IsInjective(s) /\ f \notin ToSet(s) => IsInjective(Append(s, f))
  <1> DEFINE t == Append(s, f)
             N == Len(s) + 1
  <1>1. /\ t \in Seq(T) /\ DOMAIN t = DOMAIN s \cup {N} /\ N \notin DOMAIN s
        /\ t[N] = f /\ \A x \in DOMAIN s : t[x] = s[x]
    OBVIOUS
  <1> HIDE DEF t, N
  <1>2. ToSet(t) = ToSet(s) \cup {f}
    <2>1. ASSUME NEW e \in ToSet(t) PROVE e \in ToSet(s) \cup {f}
      BY <1>1, Zenon DEF ToSet
    <2>2. ASSUME NEW e \in ToSet(s) PROVE e \in ToSet(t)
      BY <1>1, Zenon DEF ToSet
    <2>3. f \in ToSet(t)
      BY <1>1, Zenon DEF ToSet
    <2> QED
      BY <2>1, <2>2, <2>3
  <1>3. \A e : Once(s, e) /\ (e # f \/ e \notin ToSet(s)) => Once(t, e)
    BY <1>1, Zenon DEF ToSet, Once
  <1>4. IsInjective(s) /\ f \notin ToSet(s) => IsInjective(t)
    BY <1>1, Zenon DEF ToSet, IsInjective
  <1> QED
    BY <1>1, <1>2, <1>3, <1>4 DEF t

(* One sequence after another.                                                *)
LEMMA ConcatFacts ==
  ASSUME NEW T, NEW s \in Seq(T), NEW r \in Seq(T)
  PROVE  /\ s \o r \in Seq(T)
         /\ ToSet(s \o r) = ToSet(s) \cup ToSet(r)
         /\ \A e : Once(s, e) /\ e \notin ToSet(r) => Once(s \o r, e)
         /\ IsInjective(s) /\ IsInjective(r) /\ ToSet(s) \cap ToSet(r) = {} => IsInjective(s \o r)
  <1> DEFINE t == s \o r
             R == {x \in DOMAIN t : x \notin DOMAIN s}
  <1>1. /\ t \in Seq(T)
        /\ \A x \in DOMAIN s : x \in DOMAIN t /\ t[x] = s[x]
        /\ \A x \in DOMAIN t : x \in DOMAIN s \/ (x - Len(s) \in DOMAIN r /\ t[x] = r[x - Len(s)])
        /\ \A x \in DOMAIN r : Len(s) + x \in DOMAIN t /\ Len(s) + x \notin DOMAIN s /\ t[Len(s) + x] = r[x]
        /\ \A x, y \in DOMAIN t : x - Len(s) = y - Len(s) => x = y
    OBVIOUS
  <1> HIDE DEF t
  <1>2. ToSet(t) = ToSet(s) \cup ToSet(r)
    <2>1. ASSUME NEW x \in DOMAIN t PROVE t[x] \in ToSet(s) \/ t[x] \in ToSet(r)
      BY <1>1, <2>1, Zenon DEF ToSet
    <2>2. ASSUME NEW x \in DOMAIN s PROVE s[x] \in ToSet(t)
      BY <1>1, <2>2, Zenon DEF ToSet
    <2>3. ASSUME NEW x \in DOMAIN r PROVE r[x] \in ToSet(t)
      <3>1. Len(s) + x \in DOMAIN t /\ t[Len(s) + x] = r[x]
        BY <1>1
      <3> QED
        BY <3>1, Zenon DEF ToSet
    <2>4. ToSet(t) \subseteq ToSet(s) \cup ToSet(r)
      BY <2>1, Zenon DEF ToSet
    <2>5. ToSet(s) \subseteq ToSet(t) /\ ToSet(r) \subseteq ToSet(t)
      BY <2>2, <2>3, Zenon DEF ToSet
    <2> QED
      BY <2>4, <2>5
  <1>3. ASSUME NEW x \in DOMAIN t, t[x] \notin ToSet(r) PROVE x \in DOMAIN s
    BY <1>1, <1>3, Zenon DEF ToSet
  <1>4. \A e : Once(s, e) /\ e \notin ToSet(r) => Once(t, e)
    BY <1>1, <1>3, Zenon DEF Once
  <1>5. ASSUME IsInjective(s), IsInjective(r), ToSet(s) \cap ToSet(r) = {},
               NEW x \in DOMAIN t, NEW y \in DOMAIN t, t[x] = t[y]
        PROVE  x = y
    <2>1. CASE t[x] \notin ToSet(r)
      <3>1. x \in DOMAIN s /\ y \in DOMAIN s /\ s[x] = s[y]
        BY <1>1, <1>3, <1>5, <2>1
      <3> QED
        BY <3>1, <1>5, Zenon DEF IsInjective
    <2>2. CASE t[x] \in ToSet(r)
      <3>1. t[x] \notin ToSet(s)
        BY <1>5, <2>2
      <3>2. x \notin DOMAIN s /\ y \notin DOMAIN s
        BY <1>1, <1>5, <3>1, Zenon DEF ToSet
      <3>3. x - Len(s) \in DOMAIN r /\ y - Len(s) \in DOMAIN r /\ r[x - Len(s)] = r[y - Len(s)]
        BY <3>2, <1>1, <1>5
      <3>4. x - Len(s) = y - Len(s)
        BY <3>3, <1>5, Zenon DEF IsInjective
      <3> QED
        BY <3>4, <1>1
    <2> QED
      BY <2>1, <2>2
  <1>6. IsInjective(s) /\ IsInjective(r) /\ ToSet(s) \cap ToSet(r) = {} => IsInjective(t)
    BY <1>5, Zenon DEF IsInjective
  <1> QED
    BY <1>1, <1>2, <1>4, <1>6 DEF t

(***************************************************************************)
(* The structure.                                                          *)
(***************************************************************************)
LEMMA Structure ==
  ASSUME LB \in Matrices
  PROVE  /\ LB.n \in Nat \ {0} /\ Columns \subseteq Nat /\ IsFiniteSet(Columns) /\ LB.n - 1 \in Columns
         /\ Blocks \subseteq Nat \X Nat /\ Blocks \subseteq Columns \X Columns /\ IsFiniteSet(Blocks)
         /\ \A k \in Columns : /\ <<k, k>> \in Blocks
                               /\ LB.below[k] \subseteq Columns /\ IsFiniteSet(LB.below[k])
                               /\ \A i \in LB.below[k] : i > k /\ <<i, k>> \in Blocks
                               /\ LB.below[k] = {} => k = LB.n - 1
         /\ \A b \in Blocks : /\ b[1] \in Columns /\ b[2] \in Columns
                              /\ b = <<b[1], b[2]>> /\ b[1] >= b[2]
                              /\ b[1] = b[2] \/ (b[1] \in LB.below[b[2]] /\ b[1] > b[2])
         /\ \A k \in Columns : \A i, j \in LB.below[k] : Pair(i, j) \in Blocks
  <1>1. /\ LB.n \in Nat \ {0}
        /\ LB.below \in [0 .. LB.n - 1 -> SUBSET (0 .. LB.n - 1)]
        /\ \A k \in 0 .. LB.n - 1 : /\ \A i \in LB.below[k] : i > k
                                    /\ IsFilled(LB, LB.below[k])
                                    /\ LB.below[k] = {} => k = LB.n - 1
    BY CholeskyAssumption
  <1>2. Columns \subseteq Nat /\ IsFiniteSet(Columns) /\ LB.n - 1 \in Columns
    <2>1. LB.n - 1 \in Nat /\ 0 \in Int
      BY <1>1
    <2>2. IsFiniteSet(0 .. LB.n - 1)
      BY <2>1, FS_Interval
    <2> QED
      BY <2>1, <2>2 DEF Columns
  <1>3. Blocks \subseteq Nat \X Nat /\ Blocks \subseteq Columns \X Columns
    BY <1>2 DEF Blocks
  <1>4. IsFiniteSet(Blocks)
    BY <1>2, <1>3, FS_Product, FS_Subset
  <1>5. \A k \in Columns : LB.below[k] \subseteq Columns /\ IsFiniteSet(LB.below[k])
    <2> TAKE k \in Columns
    <2>1. LB.below[k] \in SUBSET Columns
      BY <1>1 DEF Columns
    <2> QED
      BY <2>1, <1>2, FS_Subset
  <1>6. ASSUME NEW k \in Columns
        PROVE  /\ <<k, k>> \in Blocks
               /\ \A i \in LB.below[k] : i > k /\ <<i, k>> \in Blocks
               /\ LB.below[k] = {} => k = LB.n - 1
    BY <1>1, <1>5 DEF Blocks, Columns
  <1>7. ASSUME NEW b \in Blocks
        PROVE  /\ b[1] \in Columns /\ b[2] \in Columns
               /\ b = <<b[1], b[2]>> /\ b[1] >= b[2]
               /\ b[1] = b[2] \/ (b[1] \in LB.below[b[2]] /\ b[1] > b[2])
    <2>1. b[1] \in Columns /\ b[2] \in Columns /\ b = <<b[1], b[2]>>
          /\ (b[1] = b[2] \/ b[1] \in LB.below[b[2]])
      BY DEF Blocks
    <2>2. b[1] \in Nat /\ b[2] \in Nat
      BY <2>1, <1>2
    <2>3. b[1] \in LB.below[b[2]] => b[1] > b[2]
      BY <2>1, <1>6
    <2> QED
      BY <2>1, <2>2, <2>3
  <1>8. ASSUME NEW k \in Columns, NEW i \in LB.below[k], NEW j \in LB.below[k]
        PROVE  Pair(i, j) \in Blocks
    <2>1. i \in Columns /\ j \in Columns /\ i \in Nat /\ j \in Nat
      BY <1>2, <1>5
    <2>2. IsFilled(LB, LB.below[k])
      BY <1>1 DEF Columns
    <2>3. i > j => i \in LB.below[j]
      BY <2>2 DEF IsFilled
    <2>4. j > i => j \in LB.below[i]
      BY <2>2 DEF IsFilled
    <2> QED
      BY <2>1, <2>3, <2>4 DEF Pair, Blocks
  <1> QED
    BY <1>1, <1>2, <1>3, <1>4, <1>5, <1>6, <1>7, <1>8

(* Each pair of rows of a domain is a block.                                  *)
LEMMA DomainFacts ==
  ASSUME LB \in Matrices
  PROVE  \A d \in Domains : /\ LB.domains[d].owner \in Procs
                            /\ LB.domains[d].rows \subseteq Columns
                            /\ \A i, j \in LB.domains[d].rows : i >= j => <<i, j>> \in Blocks
  <1> SUFFICES ASSUME NEW d \in Domains
               PROVE  /\ LB.domains[d].owner \in Procs
                      /\ LB.domains[d].rows \subseteq Columns
                      /\ \A i, j \in LB.domains[d].rows : i >= j => <<i, j>> \in Blocks
    OBVIOUS
  <1> DEFINE R == [owner : Procs, rows : SUBSET (0 .. LB.n - 1)]
  <1>1. LB.domains \in Seq(R) /\ d \in 1 .. Len(LB.domains) /\ IsFilled(LB, LB.domains[d].rows)
    BY CholeskyAssumption DEF Domains
  <1>2. LB.domains[d] \in R
    <2> HIDE DEF R
    <2> QED
      BY <1>1
  <1>3. LB.domains[d].owner \in Procs /\ LB.domains[d].rows \subseteq Columns
    BY <1>2 DEF Columns
  <1>4. Columns \subseteq Nat
    BY Structure
  <1>5. ASSUME NEW i \in LB.domains[d].rows, NEW j \in LB.domains[d].rows, i >= j
        PROVE  <<i, j>> \in Blocks
    <2>1. i \in Columns /\ j \in Columns /\ i \in Nat /\ j \in Nat
      BY <1>3, <1>4
    <2>2. i = j \/ i \in LB.below[j]
      BY <2>1, <1>1, <1>5 DEF IsFilled
    <2> QED
      BY <2>1, <2>2 DEF Blocks
  <1> QED
    BY <1>3, <1>5

(***************************************************************************)
(* What is sent.                                                           *)
(***************************************************************************)
Task == {Terminate} \cup {BlockTask(b) : b \in Blocks}
                    \cup {UpdateTask(d, b) : d \in Domains, b \in Blocks}
Message == {To(q, t) : q \in Procs, t \in Task}

(* A task tells its block,                                                    *)
LEMMA SameBlock == \A b, c : BlockTask(b) = BlockTask(c) => b = c
  <1> SUFFICES ASSUME NEW b, NEW c, BlockTask(b) = BlockTask(c) PROVE b = c
    OBVIOUS
  <1>1. BlockTask(b).block = b /\ BlockTask(c).block = c
    BY DEF BlockTask
  <1> QED
    BY <1>1

(* an update its domain too,                                                  *)
LEMMA SameUpdate == \A b, c, d, e : UpdateTask(d, b) = UpdateTask(e, c) => b = c /\ d = e
  <1> SUFFICES ASSUME NEW b, NEW c, NEW d, NEW e, UpdateTask(d, b) = UpdateTask(e, c)
               PROVE b = c /\ d = e
    OBVIOUS
  <1>1. /\ UpdateTask(d, b).block = b /\ UpdateTask(e, c).block = c
        /\ UpdateTask(d, b).domain = d /\ UpdateTask(e, c).domain = e
    BY DEF UpdateTask
  <1> QED
    BY <1>1

(* and a message its task and to whom it goes.                                *)
LEMMA SameMessage == \A q, r, s, t : To(q, s) = To(r, t) => q = r /\ s = t
  <1> SUFFICES ASSUME NEW q, NEW r, NEW s, NEW t, To(q, s) = To(r, t) PROVE q = r /\ s = t
    OBVIOUS
  <1>1. To(q, s).to = q /\ To(q, s).task = s /\ To(r, t).to = r /\ To(r, t).task = t
    BY DEF To
  <1> QED
    BY <1>1

(* What tasks tell.                                                           *)
LEMMA TaskKinds ==
  /\ \A b : BlockTask(b).kind = "block" /\ BlockTask(b).block = b
  /\ \A b, d : /\ UpdateTask(d, b).kind = "update"
               /\ UpdateTask(d, b).block = b /\ UpdateTask(d, b).domain = d
  /\ Terminate.kind = "terminate"
  BY DEF BlockTask, UpdateTask, Terminate

(* Every factored block goes once to each process of DoneTo.                  *)
LEMMA BlocksDoneFacts ==
  ASSUME LB \in Matrices, NEW bs \in Seq(Blocks), IsInjective(bs)
  PROVE  /\ BlocksDoneFO(bs) \in Seq(Message)
         /\ IsInjective(BlocksDoneFO(bs))
         /\ \A q, t : To(q, t) \in ToSet(BlocksDoneFO(bs)) <=>
                      \E b \in ToSet(bs) : t = BlockTask(b) /\ q \in ToSet(DoneTo(b))
  <1> DEFINE L == P_dimi + P_dimj - 1
             m == Len(bs)
             at == Grid(m, L)
             s == BlocksDoneFO(bs)
             msg(x, y) == To(DoneTo(bs[x])[y], BlockTask(bs[x]))
  <1>1. L \in Nat \ {0} /\ m \in Nat /\ DOMAIN bs = 1 .. m
    BY MachineDimensions
  <1>2. \A x \in 1 .. m : bs[x] \in Blocks /\ bs[x] \in Nat \X Nat
    BY Structure
  <1> HIDE DEF L, m
  <1>3. /\ at \in Seq((1 .. m) \X (1 .. L)) /\ IsInjective(at)
        /\ ToSet(at) = (1 .. m) \X (1 .. L)
        /\ DOMAIN at = 1 .. m * L
    BY <1>1, GridFacts
  <1>4. s = [z \in DOMAIN at |-> msg(at[z][1], at[z][2])]
    BY DEF BlocksDoneFO, L, m
  <1>5. \A z \in DOMAIN at : at[z] \in (1 .. m) \X (1 .. L) /\ at[z] = <<at[z][1], at[z][2]>>
    <2> HIDE DEF at
    <2>1. \A z \in DOMAIN at : at[z] \in (1 .. m) \X (1 .. L)
      BY <1>3, Zenon DEF ToSet
    <2> QED
      BY <2>1
  <1>6. \A x \in 1 .. m : /\ DoneTo(bs[x]) \in Seq(Procs) /\ Len(DoneTo(bs[x])) = L
                          /\ DOMAIN DoneTo(bs[x]) = 1 .. L
                          /\ IsInjective(DoneTo(bs[x]))
    <2> TAKE x \in 1 .. m
    <2>1. DoneTo(bs[x]) \in Seq(Procs) /\ Len(DoneTo(bs[x])) = L /\ IsInjective(DoneTo(bs[x]))
      BY <1>2, DoneToFacts DEF L
    <2> QED
      BY <2>1
  <1>7. \A x \in 1 .. m, y \in 1 .. L : msg(x, y) \in Message
    <2> TAKE x \in 1 .. m, y \in 1 .. L
    <2>1. DoneTo(bs[x])[y] \in Procs
      BY <1>6
    <2>2. BlockTask(bs[x]) \in Task
      BY <1>2 DEF Task
    <2> QED
      BY <2>1, <2>2 DEF Message
  <1>8. \A x, v \in 1 .. m, y, w \in 1 .. L : msg(x, y) = msg(v, w) => x = v /\ y = w
    <2> SUFFICES ASSUME NEW x \in 1 .. m, NEW v \in 1 .. m, NEW y \in 1 .. L, NEW w \in 1 .. L,
                        msg(x, y) = msg(v, w)
                 PROVE  x = v /\ y = w
      OBVIOUS
    <2>1. DoneTo(bs[x])[y] = DoneTo(bs[v])[w] /\ BlockTask(bs[x]) = BlockTask(bs[v])
      BY SameMessage
    <2>2. bs[x] = bs[v]
      BY <2>1, SameBlock, Zenon
    <2>3. x = v
      BY <2>2, <1>1 DEF IsInjective
    <2> QED
      BY <2>1, <2>3, <1>6, Zenon DEF IsInjective
  <1> HIDE DEF at, s, msg
  <1>9. DOMAIN s = DOMAIN at /\ \A z \in DOMAIN s : s[z] = msg(at[z][1], at[z][2])
    BY <1>4
  <1>10. \A z \in DOMAIN s : at[z][1] \in 1 .. m /\ at[z][2] \in 1 .. L
    BY <1>5, <1>9
  <1>11. s \in Seq(Message)
    <2>1. m * L \in Nat
      BY <1>1, Product
    <2>2. s \in [1 .. m * L -> Message]
      <3>1. \A z \in 1 .. m * L : msg(at[z][1], at[z][2]) \in Message
        BY <1>3, <1>7, <1>9, <1>10
      <3> QED
        BY <3>1, <1>3, <1>4, Zenon
    <2> QED
      BY <2>1, <2>2
  <1>12. IsInjective(s)
    <2> SUFFICES ASSUME NEW x \in DOMAIN s, NEW y \in DOMAIN s, s[x] = s[y] PROVE x = y
      BY Zenon DEF IsInjective
    <2>1. at[x][1] = at[y][1] /\ at[x][2] = at[y][2]
      BY <1>8, <1>9, <1>10
    <2>2. at[x] = at[y]
      BY <2>1, <1>5, <1>9
    <2> QED
      BY <2>2, <1>3, <1>9, Zenon DEF IsInjective
  <1>13. ASSUME NEW q, NEW t, To(q, t) \in ToSet(s)
         PROVE  \E b \in ToSet(bs) : t = BlockTask(b) /\ q \in ToSet(DoneTo(b))
    <2>1. PICK z \in DOMAIN s : s[z] = To(q, t)
      BY <1>13, Zenon DEF ToSet
    <2> DEFINE x == at[z][1]
               y == at[z][2]
    <2>2. x \in 1 .. m /\ y \in 1 .. L /\ To(q, t) = msg(x, y)
      BY <2>1, <1>9, <1>10
    <2> HIDE DEF x, y
    <2>3. t = BlockTask(bs[x]) /\ q = DoneTo(bs[x])[y]
      BY <2>2, SameMessage DEF msg
    <2>4. q \in ToSet(DoneTo(bs[x])) /\ bs[x] \in ToSet(bs)
      BY <2>2, <2>3, <1>1, <1>6, Zenon DEF ToSet
    <2> QED
      BY <2>3, <2>4
  <1>14. ASSUME NEW b \in ToSet(bs), NEW q \in ToSet(DoneTo(b))
         PROVE  To(q, BlockTask(b)) \in ToSet(s)
    <2>1. PICK x \in DOMAIN bs : b = bs[x]
      BY Zenon DEF ToSet
    <2>2. PICK y \in DOMAIN DoneTo(b) : q = DoneTo(b)[y]
      BY Zenon DEF ToSet
    <2>3. <<x, y>> \in (1 .. m) \X (1 .. L)
      BY <2>1, <2>2, <1>1, <1>6
    <2>4. PICK z \in DOMAIN at : at[z] = <<x, y>>
      BY <2>3, <1>3, Zenon DEF ToSet
    <2>5. s[z] = msg(x, y) /\ z \in DOMAIN s
      BY <2>4, <1>9
    <2>6. s[z] = To(q, BlockTask(b))
      BY <2>1, <2>2, <2>5 DEF msg
    <2> QED
      BY <2>5, <2>6, Zenon DEF ToSet
  <1> QED
    BY <1>11, <1>12, <1>13, <1>14 DEF s

(* Every update of a domain goes once to the owner of its block.              *)
LEMMA DistributedFacts ==
  ASSUME LB \in Matrices, NEW d \in Domains
  PROVE  /\ Distributed(d) \in Seq(Message)
         /\ IsInjective(Distributed(d))
         /\ \A m \in ToSet(Distributed(d)) : \E b \in Blocks :
              /\ m = To(EmbeddedOwner(b), UpdateTask(d, b))
              /\ {b[1], b[2]} \subseteq LB.domains[d].rows
  <1> DEFINE A == LB.domains[d].rows
             rows == InOrder(A)
             n == Cardinality(A)
             S == {x \in (DOMAIN rows) \X (DOMAIN rows) : x[2] <= x[1]}
             at == Only(Grid(Len(rows), Len(rows)), S)
             pair(x) == <<rows[at[x][1]], rows[at[x][2]]>>
             s == Distributed(d)
  <1>1. A \subseteq Columns /\ \A i, j \in A : i >= j => <<i, j>> \in Blocks
    BY DomainFacts
  <1>2. A \in SUBSET Int /\ IsFiniteSet(A)
    <2>1. Columns \subseteq Nat /\ IsFiniteSet(Columns) /\ A \in SUBSET Columns
      BY <1>1, Structure
    <2> HIDE DEF A
    <2>2. IsFiniteSet(A)
      BY <2>1, FS_Subset
    <2> QED
      BY <2>1, <2>2
  <1>3. /\ n \in Nat /\ rows \in [1 .. n -> A] /\ IsInjective(rows)
        /\ \A x, y \in 1 .. n : y <= x => rows[y] <= rows[x]
    <2> HIDE DEF A
    <2> QED
      BY <1>2, InOrderFacts
  <1>4. s = [x \in DOMAIN at |-> To(EmbeddedOwner(pair(x)), UpdateTask(d, pair(x)))]
    BY Zenon DEF Distributed
  <1> HIDE DEF A, s
  <1>5. Len(rows) = n /\ DOMAIN rows = 1 .. n
    BY <1>3
  <1> HIDE DEF rows, n
  <1>6. at \in Seq((1 .. n) \X (1 .. n)) /\ IsInjective(at) /\ ToSet(at) \subseteq S
    <2>1. CASE n = 0
      <3>1. Grid(0, 0) = <<>>
        <4>1. 0 * 0 = 0
          BY SMT
        <4>2. DOMAIN Grid(0, 0) = 1 .. 0
          BY <4>1 DEF Grid
        <4>3. Grid(0, 0) = [x \in 1 .. 0 |-> Grid(0, 0)[x]]
          BY <4>1 DEF Grid
        <4> QED
          BY <4>2, <4>3
      <3> DEFINE none == <<>>
      <3>2. at = Only(none, S)
        BY <2>1, <1>5, <3>1
      <3>3. none \in Seq((1 .. n) \X (1 .. n)) /\ IsInjective(none) /\ ToSet(none) = {}
        BY DEF IsInjective, ToSet
      <3> HIDE DEF S, at, none
      <3> QED
        BY <3>2, <3>3, OnlyFacts
    <2>2. CASE n # 0
      <3>1. /\ Grid(n, n) \in Seq((1 .. n) \X (1 .. n)) /\ IsInjective(Grid(n, n))
        BY <1>3, <2>2, GridFacts
      <3>2. at = Only(Grid(n, n), S)
        BY <1>5
      <3> HIDE DEF S, at
      <3> QED
        BY <3>1, <3>2, OnlyFacts
    <2> QED
      BY <2>1, <2>2
  <1> HIDE DEF at
  <1>7. \A x \in DOMAIN at : /\ at[x] = <<at[x][1], at[x][2]>>
                             /\ at[x][1] \in 1 .. n /\ at[x][2] \in 1 .. n /\ at[x][2] <= at[x][1]
    <2> TAKE x \in DOMAIN at
    <2>1. at[x] \in S
      BY <1>6, Zenon DEF ToSet
    <2> QED
      BY <2>1, <1>5
  <1>8. \A x \in DOMAIN at : /\ pair(x) \in Blocks /\ pair(x)[1] \in A /\ pair(x)[2] \in A
                             /\ EmbeddedOwner(pair(x)) \in Procs
    <2> TAKE x \in DOMAIN at
    <2>1. rows[at[x][1]] \in A /\ rows[at[x][2]] \in A /\ rows[at[x][1]] >= rows[at[x][2]]
      BY <1>2, <1>3, <1>7
    <2>2. pair(x) \in Blocks
      BY <2>1, <1>1
    <2>3. pair(x) \in Nat \X Nat
      BY <2>2, Structure
    <2>4. EmbeddedOwner(pair(x)) \in Procs
      <3> HIDE DEF pair
      <3> QED
        BY <2>3, OwnerInMachine
    <2> QED
      BY <2>1, <2>2, <2>4
  <1>9. \A x, y \in DOMAIN at : pair(x) = pair(y) => x = y
    <2> SUFFICES ASSUME NEW x \in DOMAIN at, NEW y \in DOMAIN at, pair(x) = pair(y) PROVE x = y
      OBVIOUS
    <2>1. rows[at[x][1]] = rows[at[y][1]] /\ rows[at[x][2]] = rows[at[y][2]]
      OBVIOUS
    <2>2. at[x][1] = at[y][1] /\ at[x][2] = at[y][2]
      BY <2>1, <1>3, <1>5, <1>7, Zenon DEF IsInjective
    <2>3. at[x] = at[y]
      BY <2>2, <1>7
    <2> QED
      BY <2>3, <1>6, Zenon DEF IsInjective
  <1> DEFINE msg(x) == To(EmbeddedOwner(pair(x)), UpdateTask(d, pair(x)))
  <1>10. \A x \in DOMAIN at : msg(x) \in Message
    <2> HIDE DEF pair
    <2> QED
      BY <1>8 DEF Message, Task
  <1>11. \A x, y \in DOMAIN at : msg(x) = msg(y) => x = y
    <2> HIDE DEF pair
    <2>1. \A x, y \in DOMAIN at : msg(x) = msg(y) => UpdateTask(d, pair(x)) = UpdateTask(d, pair(y))
      BY SameMessage
    <2>2. \A x, y \in DOMAIN at : msg(x) = msg(y) => pair(x) = pair(y)
      BY <2>1, SameUpdate
    <2> QED
      BY <2>2, <1>9
  <1>12. \A x \in DOMAIN at : \E b \in Blocks : /\ msg(x) = To(EmbeddedOwner(b), UpdateTask(d, b))
                                                /\ {b[1], b[2]} \subseteq A
    <2> HIDE DEF pair
    <2> QED
      BY <1>8
  <1> HIDE DEF msg
  <1>13. DOMAIN s = DOMAIN at /\ \A x \in DOMAIN at : s[x] = msg(x)
    BY <1>4 DEF msg
  <1>14. s \in Seq(Message)
    <2>1. Len(at) \in Nat /\ DOMAIN at = 1 .. Len(at)
      BY <1>6
    <2>2. s \in [1 .. Len(at) -> Message]
      <3>1. s = [x \in 1 .. Len(at) |-> msg(x)]
        BY <2>1, <1>4, Zenon DEF msg
      <3> QED
        BY <3>1, <2>1, <1>10, Zenon
    <2> QED
      BY <2>1, <2>2
  <1>15. IsInjective(s)
    BY <1>11, <1>13, Zenon DEF IsInjective
  <1>16. \A m \in ToSet(s) : \E x \in DOMAIN at : m = msg(x)
    BY <1>13, Zenon DEF ToSet
  <1> QED
    BY <1>12, <1>14, <1>15, <1>16 DEF A, s

(* The loop of DriveParallelFO passes each diagonal block once.               *)
LEMMA DiagonalFacts ==
  ASSUME LB \in Matrices
  PROVE  /\ Diagonal \in Seq(Blocks) /\ IsInjective(Diagonal)
         /\ \A b \in ToSet(Diagonal) : IsDiag(b)
  <1>1. LB.n \in Nat
    BY Structure
  <1>2. DOMAIN Diagonal = 1 .. LB.n /\ \A x \in 1 .. LB.n : Diagonal[x] = <<x - 1, x - 1>>
    BY DEF Diagonal
  <1>3. \A x \in 1 .. LB.n : Diagonal[x] \in Blocks
    <2> TAKE x \in 1 .. LB.n
    <2>1. x - 1 \in Columns
      BY <1>1 DEF Columns
    <2> QED
      BY <2>1, <1>2, Structure
  <1>4. Diagonal \in [1 .. LB.n -> Blocks]
    <2>1. Diagonal = [x \in 1 .. LB.n |-> Diagonal[x]]
      BY DEF Diagonal
    <2> QED
      BY <2>1, <1>3, Zenon
  <1>5. Diagonal \in Seq(Blocks)
    BY <1>1, <1>4
  <1>6. \A x, y \in 1 .. LB.n : Diagonal[x] = Diagonal[y] => x = y
    BY <1>1, <1>2
  <1>7. IsInjective(Diagonal)
    BY <1>2, <1>6, Zenon DEF IsInjective
  <1>8. \A x \in 1 .. LB.n : IsDiag(Diagonal[x])
    BY <1>2 DEF IsDiag
  <1>9. \A b \in ToSet(Diagonal) : IsDiag(b)
    BY <1>2, <1>8, Zenon DEF ToSet
  <1> QED
    BY <1>5, <1>7, <1>9

(* The loop of DiagReceived passes each block of the column once.             *)
LEMMA SubdiagonalFacts ==
  ASSUME LB \in Matrices, NEW k \in Columns
  PROVE  /\ Subdiagonal(k) \in Seq(Blocks) /\ IsInjective(Subdiagonal(k))
         /\ \A b \in ToSet(Subdiagonal(k)) : b[2] = k /\ ~IsDiag(b)
  <1> DEFINE A == LB.below[k]
             n == Cardinality(A)
             rows == InOrder(A)
             s == Subdiagonal(k)
  <1>1. A \in SUBSET Int /\ IsFiniteSet(A) /\ \A i \in A : <<i, k>> \in Blocks /\ i > k /\ i \in Nat
        /\ k \in Nat
    <2>1. Columns \subseteq Nat
      BY Structure
    <2>2. A \subseteq Columns /\ IsFiniteSet(A) /\ \A i \in A : <<i, k>> \in Blocks /\ i > k
      BY Structure
    <2> HIDE DEF A
    <2> QED
      BY <2>1, <2>2
  <1>2. n \in Nat /\ rows \in [1 .. n -> A] /\ IsInjective(rows)
    <2> HIDE DEF A
    <2> QED
      BY <1>1, InOrderFacts
  <1>3. s = [x \in 1 .. n |-> <<rows[x], k>>]
    BY Zenon DEF Subdiagonal
  <1> HIDE DEF A, n, rows, s
  <1>4. DOMAIN s = 1 .. n /\ \A x \in 1 .. n : s[x] = <<rows[x], k>> /\ rows[x] \in A
    BY <1>2, <1>3
  <1>5. \A x \in 1 .. n : s[x] \in Blocks /\ s[x][2] = k /\ ~IsDiag(s[x])
    <2> TAKE x \in 1 .. n
    <2>1. s[x] = <<rows[x], k>> /\ rows[x] \in A
      BY <1>4
    <2>2. <<rows[x], k>> \in Blocks /\ rows[x] # k
      <3> DEFINE i == rows[x]
      <3> HIDE DEF i
      <3>1. i \in A
        BY <2>1 DEF i
      <3>2. <<i, k>> \in Blocks /\ i > k /\ i \in Nat /\ k \in Nat
        BY <1>1, <3>1
      <3> QED
        BY <3>2 DEF i
    <2> QED
      BY <2>1, <2>2 DEF IsDiag
  <1>6. s \in Seq(Blocks)
    <2>1. s \in [1 .. n -> Blocks]
      <3>1. s = [x \in 1 .. n |-> s[x]]
        BY <1>3
      <3> QED
        BY <3>1, <1>5, Zenon
    <2> QED
      BY <2>1, <1>2
  <1>7. \A x, y \in 1 .. n : s[x] = s[y] => rows[x] = rows[y]
    BY <1>4
  <1>8. DOMAIN rows = 1 .. n
    BY <1>2
  <1>9. IsInjective(s)
    BY <1>2, <1>4, <1>7, <1>8, Zenon DEF IsInjective
  <1>10. \A b \in ToSet(s) : b[2] = k /\ ~IsDiag(b)
    BY <1>4, <1>5, Zenon DEF ToSet
  <1> QED
    BY <1>6, <1>9, <1>10 DEF s

(* proc_domains has each domain of p once.                                    *)
LEMMA MyDomainsFacts ==
  ASSUME LB \in Matrices, NEW p
  PROVE  /\ Len(MyDomains(p)) \in Nat /\ DOMAIN MyDomains(p) = 1 .. Len(MyDomains(p))
         /\ IsInjective(MyDomains(p))
         /\ \A x \in DOMAIN MyDomains(p) : /\ MyDomains(p)[x] \in Domains
                                           /\ LB.domains[MyDomains(p)[x]].owner = p
  <1> DEFINE A == {d \in Domains : LB.domains[d].owner = p}
             n == Cardinality(A)
             s == InOrder(A)
  <1>1. A \in SUBSET Int /\ IsFiniteSet(A)
    <2>1. Len(LB.domains) \in Nat
      BY CholeskyAssumption
    <2>2. IsFiniteSet(Domains) /\ Domains \subseteq Int
      BY <2>1, FS_Interval DEF Domains
    <2>3. A \in SUBSET Domains
      OBVIOUS
    <2>4. IsFiniteSet(A)
      BY <2>2, <2>3, FS_Subset
    <2> QED
      BY <2>2, <2>3, <2>4
  <1>2. n \in Nat /\ s \in [1 .. n -> A] /\ IsInjective(s)
    <2> HIDE DEF A
    <2> QED
      BY <1>1, InOrderFacts
  <1>3. s = MyDomains(p)
    BY DEF MyDomains
  <1>4. \A d \in A : d \in Domains /\ LB.domains[d].owner = p
    OBVIOUS
  <1> HIDE DEF A, n, s
  <1>5. Len(s) = n /\ DOMAIN s = 1 .. n /\ \A x \in DOMAIN s : s[x] \in A
    BY <1>2
  <1> QED
    BY <1>2, <1>3, <1>4, <1>5

(* The order to stop goes to processes.                                       *)
LEMMA TerminateAllFacts ==
  /\ TerminateAll \in Seq(Message)
  /\ \A m \in ToSet(TerminateAll) : \E q \in Procs : m = To(q, Terminate)
  <1>1. P \in Nat
    BY CholeskyAssumption
  <1>2. DOMAIN TerminateAll = 1 .. P /\ \A x \in 1 .. P : TerminateAll[x] = To(x - 1, Terminate)
    BY DEF TerminateAll
  <1>3. \A x \in 1 .. P : x - 1 \in Procs
    BY <1>1 DEF Procs
  <1>4. Terminate \in Task
    BY DEF Task
  <1>5. \A x \in 1 .. P : TerminateAll[x] \in Message
    BY <1>2, <1>3, <1>4 DEF Message
  <1>6. TerminateAll \in [1 .. P -> Message]
    <2>1. TerminateAll = [x \in 1 .. P |-> TerminateAll[x]]
      BY DEF TerminateAll
    <2> QED
      BY <2>1, <1>5, Zenon
  <1>7. \A m \in ToSet(TerminateAll) : \E x \in 1 .. P : m = To(x - 1, Terminate)
    BY <1>2, Zenon DEF ToSet
  <1> QED
    BY <1>1, <1>3, <1>6, <1>7

(* A block that arrives makes one pair with each that is there, and one alone. *)
LEMMA PairsFacts ==
  ASSUME LB \in Matrices, NEW k \in Columns, NEW i \in LB.below[k],
         NEW all \in Seq(LB.below[k]), IsInjective(all), i \notin ToSet(all)
  PROVE  LET with == Append(all, i)
             pairs == [x \in DOMAIN with |-> Pair(i, with[x])]
         IN  /\ pairs \in Seq(Blocks) /\ IsInjective(pairs)
             /\ ToSet(pairs) = {Pair(i, j) : j \in ToSet(all) \cup {i}}
  <1> DEFINE with == Append(all, i)
             pairs == [x \in DOMAIN with |-> Pair(i, with[x])]
  <1>1. /\ with \in Seq(LB.below[k]) /\ ToSet(with) = ToSet(all) \cup {i}
        /\ IsInjective(with)
    BY AppendFacts
  <1> HIDE DEF with
  <1>2. Len(with) \in Nat /\ DOMAIN with = 1 .. Len(with)
        /\ \A x \in DOMAIN with : with[x] \in LB.below[k]
    BY <1>1
  <1>3. \A j \in LB.below[k] : Pair(i, j) \in Blocks
    BY Structure
  <1>4. DOMAIN pairs = DOMAIN with /\ \A x \in DOMAIN with : pairs[x] = Pair(i, with[x])
    OBVIOUS
  <1>5. pairs \in Seq(Blocks)
    <2>1. pairs \in [1 .. Len(with) -> Blocks]
      BY <1>2, <1>3, Zenon
    <2> HIDE DEF pairs
    <2> QED
      BY <2>1, <1>2
  <1>6. \A j, l \in LB.below[k] : Pair(i, j) = Pair(i, l) => j = l
    <2>1. \A j \in LB.below[k] : j \in Nat
      BY Structure
    <2> QED
      BY <2>1 DEF Pair
  <1>7. IsInjective(pairs)
    BY <1>1, <1>2, <1>4, <1>6, Zenon DEF IsInjective
  <1>8. ToSet(pairs) = {Pair(i, j) : j \in ToSet(with)}
    BY <1>4, Zenon DEF ToSet
  <1> QED
    BY <1>1, <1>5, <1>7, <1>8 DEF with

(***************************************************************************)
(* The mail: a task that is due to a process is in its queue, or in what   *)
(* somebody has yet to send, and only once.                                *)
(***************************************************************************)
Pend(q, t) == \/ t \in ToSet(tasks[q])
              \/ \E p \in Procs : To(q, t) \in ToSet(out[p])

Single(q, t) ==
  /\ Once(tasks[q], t)
  /\ \A p \in Procs : Once(out[p], To(q, t))
  /\ \A p \in Procs : To(q, t) \in ToSet(out[p]) => t \notin ToSet(tasks[q])
  /\ \A p, r \in Procs : To(q, t) \in ToSet(out[p]) /\ To(q, t) \in ToSet(out[r]) => p = r

Mail ==
  /\ tasks \in [Procs -> Seq(Task)]
  /\ out \in [Procs -> Seq(Message)]
  /\ \A q \in Procs, t \in Task \ {Terminate} : Single(q, t)

(* What the structure fixes.                                                  *)
LEMMA SameStructure ==
  ASSUME LB' = LB
  PROVE  /\ Columns' = Columns /\ Blocks' = Blocks /\ Domains' = Domains
         /\ Task' = Task /\ Message' = Message
         /\ \A p : Mine(p)' = Mine(p)
         /\ \A p : MyDomains(p)' = MyDomains(p)
         /\ \A b : Contributions(b)' = Contributions(b)
  <1>1. Columns' = Columns /\ Domains' = Domains
    BY DEF Columns, Domains
  <1>2. Blocks' = Blocks
    BY <1>1 DEF Blocks
  <1>3. Task' = Task
    BY <1>1, <1>2 DEF Task, BlockTask, UpdateTask, Terminate
  <1>4. Message' = Message
    BY <1>3 DEF Message, To
  <1>5. \A p : Mine(p)' = Mine(p)
    BY <1>2 DEF Mine, EmbeddedOwner
  <1>6. \A p : MyDomains(p)' = MyDomains(p)
    BY <1>1, Zenon DEF MyDomains
  <1>7. \A b : Contributions(b)' = Contributions(b)
    BY <1>1, <1>2, Zenon DEF Contributions
  <1> QED
    BY <1>1, <1>2, <1>3, <1>4, <1>5, <1>6, <1>7

(* A Send moves a message from one place to another.                          *)
LEMMA SendMail ==
  ASSUME Mail, NEW p \in Procs, Send(p)
  PROVE  /\ Mail'
         /\ \A q \in Procs, t \in Task : Pend(q, t)' <=> Pend(q, t)
  <1>1. /\ LB' = LB /\ out[p] # <<>> /\ out' = [out EXCEPT ![p] = Tail(@)]
        /\ tasks' = [tasks EXCEPT ![Head(out[p]).to] = Append(@, Head(out[p]).task)]
    BY DEF Send
  <1>2. Task' = Task /\ Message' = Message
    BY <1>1, SameStructure
  <1>3. \A s \in Procs : tasks[s] \in Seq(Task) /\ out[s] \in Seq(Message)
    BY DEF Mail
  <1>4. PICK r \in Procs, u \in Task : Head(out[p]) = To(r, u)
    <2>1. Head(out[p]) \in Message
      BY <1>1, <1>3, TailFacts
    <2> QED
      BY <2>1 DEF Message
  <1> DEFINE m == To(r, u)
  <1>5. m.to = r /\ m.task = u
    BY DEF To
  <1>6. /\ tasks' = [tasks EXCEPT ![r] = Append(@, u)]
        /\ DOMAIN tasks = Procs /\ DOMAIN out = Procs
    BY <1>1, <1>4, <1>5 DEF Mail
  <1>7. /\ tasks'[r] = Append(tasks[r], u)
        /\ \A q \in Procs \ {r} : tasks'[q] = tasks[q]
        /\ out'[p] = Tail(out[p])
        /\ \A s \in Procs \ {p} : out'[s] = out[s]
    BY <1>1, <1>6
  <1> HIDE DEF m
  <1>8. /\ Append(tasks[r], u) \in Seq(Task)
        /\ ToSet(Append(tasks[r], u)) = ToSet(tasks[r]) \cup {u}
        /\ \A e : Once(tasks[r], e) /\ (e # u \/ e \notin ToSet(tasks[r])) => Once(Append(tasks[r], u), e)
    BY <1>3, AppendFacts
  <1>9. /\ Tail(out[p]) \in Seq(Message)
        /\ ToSet(out[p]) = {m} \cup ToSet(Tail(out[p]))
        /\ \A e : Once(out[p], e) => Once(Tail(out[p]), e) /\ (e = m => e \notin ToSet(Tail(out[p])))
    BY <1>1, <1>3, <1>4, TailFacts DEF m
  <1>10. tasks' \in [Procs -> Seq(Task)'] /\ out' \in [Procs -> Seq(Message)']
    <2>1. \A q \in Procs : tasks'[q] \in Seq(Task) /\ out'[q] \in Seq(Message)
      BY <1>3, <1>7, <1>8, <1>9
    <2>2. DOMAIN tasks' = Procs /\ DOMAIN out' = Procs
      BY <1>1, <1>6
    <2>3. tasks' = [q \in Procs |-> tasks'[q]] /\ out' = [q \in Procs |-> out'[q]]
      BY <1>1, <1>6
    <2> QED
      BY <2>1, <2>3, <1>2, Zenon
  <1>11. ASSUME NEW q \in Procs, NEW t \in Task PROVE Pend(q, t)' <=> Pend(q, t)
    <2>1. t \in ToSet(tasks'[q]) <=> t \in ToSet(tasks[q]) \/ (q = r /\ t = u)
      BY <1>7, <1>8
    <2>2. \A s \in Procs : To(q, t) \in ToSet(out[s]) <=>
                             To(q, t) \in ToSet(out'[s]) \/ (s = p /\ To(q, t) = m)
      BY <1>7, <1>9
    <2>3. To(q, t) = m <=> q = r /\ t = u
      BY SameMessage DEF m
    <2> QED
      BY <2>1, <2>2, <2>3, Zenon DEF Pend
  <1>12. ASSUME NEW q \in Procs, NEW t \in Task \ {Terminate} PROVE Single(q, t)'
    <2>1. Single(q, t)
      BY DEF Mail
    <2>2. To(q, t) = m <=> q = r /\ t = u
      BY SameMessage DEF m
    <2>3. q = r /\ t = u => To(q, t) \in ToSet(out[p])
      BY <2>2, <1>9
    <2>4. Once(tasks'[q], t)
      BY <2>1, <2>3, <1>7, <1>8 DEF Single
    <2>5. \A s \in Procs : Once(out'[s], To(q, t))
      BY <2>1, <1>7, <1>9 DEF Single
    <2>6. \A s \in Procs : To(q, t) \in ToSet(out'[s]) => To(q, t) \in ToSet(out[s])
      BY <1>7, <1>9
    <2>7. \A s, z \in Procs : To(q, t) \in ToSet(out'[s]) /\ To(q, t) \in ToSet(out'[z]) => s = z
      BY <2>1, <2>6 DEF Single
    <2>8. ASSUME NEW s \in Procs, To(q, t) \in ToSet(out'[s]) PROVE t \notin ToSet(tasks'[q])
      <3>1. t \notin ToSet(tasks[q])
        BY <2>1, <2>6, <2>8 DEF Single
      <3>2. ~(q = r /\ t = u)
        <4> SUFFICES ASSUME q = r, t = u PROVE FALSE
          OBVIOUS
        <4>1. To(q, t) = m /\ To(q, t) \in ToSet(out[p]) /\ s = p
          BY <2>1, <2>2, <2>3, <2>6, <2>8 DEF Single
        <4>2. Once(out[p], To(q, t))
          BY <2>1 DEF Single
        <4> QED
          BY <4>1, <4>2, <2>8, <1>7, <1>9
      <3> QED
        BY <3>1, <3>2, <1>7, <1>8
    <2> QED
      BY <2>4, <2>5, <2>7, <2>8 DEF Single, To
  <1> QED
    BY <1>2, <1>10, <1>11, <1>12 DEF Mail, Terminate

(* p takes the first task of its queue.                                       *)
Takes(p) == tasks[p] # <<>> /\ tasks' = [tasks EXCEPT ![p] = Tail(@)]

(* p takes a task, or none, and has then the tasks of new to send.            *)
LEMMA WorkMail ==
  ASSUME Mail, LB' = LB, NEW p \in Procs, out[p] = <<>>,
         tasks' = tasks \/ Takes(p),
         NEW new \in Seq(Message), out' = [out EXCEPT ![p] = new],
         \A q \in Procs, t \in Task \ {Terminate} : Once(new, To(q, t)),
         \A q \in Procs, t \in Task \ {Terminate} : To(q, t) \in ToSet(new) => ~Pend(q, t)
  PROVE  /\ Mail'
         /\ tasks' = tasks =>
              \A q \in Procs, t \in Task : Pend(q, t)' <=> Pend(q, t) \/ To(q, t) \in ToSet(new)
         /\ Takes(p) => /\ Head(tasks[p]) \in Task /\ Pend(p, Head(tasks[p]))
                        /\ \A q \in Procs, t \in Task \ {Terminate} :
                             Pend(q, t)' <=> \/ Pend(q, t) /\ ~(q = p /\ t = Head(tasks[p]))
                                             \/ To(q, t) \in ToSet(new)
                        /\ \A q \in Procs, t \in Task :
                             Pend(q, t)' => Pend(q, t) \/ To(q, t) \in ToSet(new)
  <1>1. Task' = Task /\ Message' = Message
    BY SameStructure
  <1>2. \A s \in Procs : tasks[s] \in Seq(Task) /\ out[s] \in Seq(Message)
    BY DEF Mail
  <1>3. DOMAIN tasks = Procs /\ DOMAIN out = Procs
    BY DEF Mail
  <1>4. out'[p] = new /\ \A s \in Procs \ {p} : out'[s] = out[s]
    BY <1>3
  <1>5. ToSet(out[p]) = {}
    BY DEF ToSet
  <1> DEFINE h == Head(tasks[p])
  <1>6. Takes(p) => /\ tasks'[p] = Tail(tasks[p]) /\ Tail(tasks[p]) \in Seq(Task) /\ h \in Task
                    /\ \A s \in Procs \ {p} : tasks'[s] = tasks[s]
                    /\ ToSet(tasks[p]) = {h} \cup ToSet(tasks'[p])
                    /\ \A e : Once(tasks[p], e) => Once(tasks'[p], e) /\ (e = h => e \notin ToSet(tasks'[p]))
    <2> SUFFICES ASSUME Takes(p)
                 PROVE  /\ tasks'[p] = Tail(tasks[p]) /\ Tail(tasks[p]) \in Seq(Task) /\ h \in Task
                        /\ \A s \in Procs \ {p} : tasks'[s] = tasks[s]
                        /\ ToSet(tasks[p]) = {h} \cup ToSet(tasks'[p])
                        /\ \A e : Once(tasks[p], e) => Once(tasks'[p], e) /\ (e = h => e \notin ToSet(tasks'[p]))
      OBVIOUS
    <2>1. tasks[p] # <<>> /\ tasks'[p] = Tail(tasks[p]) /\ \A s \in Procs \ {p} : tasks'[s] = tasks[s]
      BY <1>3 DEF Takes
    <2>2. /\ Tail(tasks[p]) \in Seq(Task) /\ h \in Task
          /\ ToSet(tasks[p]) = {h} \cup ToSet(Tail(tasks[p]))
          /\ \A e : Once(tasks[p], e) => Once(Tail(tasks[p]), e) /\ (e = h => e \notin ToSet(Tail(tasks[p])))
      BY <1>2, <2>1, TailFacts
    <2> HIDE DEF h
    <2> QED
      BY <2>1, <2>2
  <1> HIDE DEF h
  <1>7. \A s \in Procs : /\ ToSet(tasks'[s]) \subseteq ToSet(tasks[s])
                         /\ \A e : Once(tasks[s], e) => Once(tasks'[s], e)
    BY <1>6
  <1>8. tasks' \in [Procs -> Seq(Task)'] /\ out' \in [Procs -> Seq(Message)']
    <2>1. \A q \in Procs : tasks'[q] \in Seq(Task) /\ out'[q] \in Seq(Message)
      BY <1>2, <1>4, <1>6
    <2>2. tasks' = [q \in Procs |-> tasks'[q]] /\ out' = [q \in Procs |-> out'[q]]
      BY <1>3, Zenon DEF Mail, Takes
    <2> QED
      BY <2>1, <2>2, <1>1, Zenon
  <1>9. ASSUME NEW q \in Procs, NEW t \in Task \ {Terminate} PROVE Single(q, t)'
    <2>1. Single(q, t)
      BY DEF Mail
    <2>2. \A s \in Procs : Once(out'[s], To(q, t))
      BY <2>1, <1>4 DEF Single
    <2>3. \A s \in Procs : To(q, t) \in ToSet(out'[s]) =>
                             To(q, t) \in ToSet(out[s]) \/ (s = p /\ To(q, t) \in ToSet(new))
      BY <1>4
    <2>4. To(q, t) \in ToSet(new) => t \notin ToSet(tasks[q]) /\ \A s \in Procs : To(q, t) \notin ToSet(out[s])
      BY DEF Pend
    <2>5. \A s \in Procs : To(q, t) \in ToSet(out'[s]) => t \notin ToSet(tasks'[q])
      BY <2>1, <2>3, <2>4, <1>7 DEF Single
    <2>6. \A s, r \in Procs : To(q, t) \in ToSet(out'[s]) /\ To(q, t) \in ToSet(out'[r]) => s = r
      BY <2>1, <2>3, <2>4 DEF Single
    <2>7. Once(tasks'[q], t)
      BY <2>1, <1>7 DEF Single
    <2> QED
      BY <2>2, <2>5, <2>6, <2>7 DEF Single, To
  <1>10. \A q \in Procs, t \in Task :
           (\E s \in Procs : To(q, t) \in ToSet(out'[s])) <=>
              (\E s \in Procs : To(q, t) \in ToSet(out[s])) \/ To(q, t) \in ToSet(new)
    BY <1>4, <1>5
  <1>11. ASSUME tasks' = tasks, NEW q \in Procs, NEW t \in Task
         PROVE  Pend(q, t)' <=> Pend(q, t) \/ To(q, t) \in ToSet(new)
    BY <1>10, <1>11, Zenon DEF Pend
  <1>12. ASSUME Takes(p), NEW q \in Procs, NEW t \in Task \ {Terminate}
         PROVE  Pend(q, t)' <=> \/ Pend(q, t) /\ ~(q = p /\ t = h)
                                \/ To(q, t) \in ToSet(new)
    <2>1. Single(q, t)
      BY DEF Mail
    <2>2. t \in ToSet(tasks'[q]) <=> t \in ToSet(tasks[q]) /\ ~(q = p /\ t = h)
      BY <2>1, <1>6, <1>12 DEF Single
    <2>3. q = p /\ t = h => \A s \in Procs : To(q, t) \notin ToSet(out[s])
      BY <2>1, <1>6, <1>12 DEF Single
    <2> QED
      BY <2>2, <2>3, <1>10, Zenon DEF Pend
  <1>13. ASSUME Takes(p), NEW q \in Procs, NEW t \in Task
         PROVE  Pend(q, t)' => Pend(q, t) \/ To(q, t) \in ToSet(new)
    BY <1>7, <1>10 DEF Pend
  <1>14. ASSUME Takes(p) PROVE h \in Task /\ Pend(p, h)
    BY <1>6, <1>14 DEF Pend
  <1> QED
    BY <1>1, <1>8, <1>9, <1>11, <1>12, <1>13, <1>14 DEF Mail, Terminate, h

(***************************************************************************)
(* Contributions are what ComputeRemaining counts.                         *)
(***************************************************************************)
LEMMA ContributionFacts ==
  ASSUME LB \in Matrices, NEW b \in Blocks
  PROVE  /\ \A d : <<"domain", d>> \in Contributions(b) <=>
                     d \in Domains /\ {b[1], b[2]} \subseteq LB.domains[d].rows
         /\ \A k : <<"column", k>> \in Contributions(b) <=>
                     k \in Columns /\ b[1] \in LB.below[k] /\ b[2] \in LB.below[k]
         /\ IsFiniteSet(Contributions(b))
         /\ Cardinality(Contributions(b)) = ComputeRemaining(b)
  <1> DEFINE D == {d \in Domains : {b[1], b[2]} \subseteq LB.domains[d].rows}
             K == {k \in Columns : {b[1], b[2]} \subseteq LB.below[k]}
             X == {<<"domain", d>> : d \in D}
             Y == {<<"column", k>> : k \in K}
  <1>1. \A k \in Columns : (\A r \in {b[1], b[2]} : <<r, k>> \in Blocks /\ r > k)
                             <=> {b[1], b[2]} \subseteq LB.below[k]
    <2> SUFFICES ASSUME NEW k \in Columns, NEW r
                 PROVE  <<r, k>> \in Blocks /\ r > k <=> r \in LB.below[k]
      OBVIOUS
    <2>1. Columns \subseteq Nat /\ \A i \in LB.below[k] : i > k /\ <<i, k>> \in Blocks
      BY Structure
    <2>2. <<r, k>> \in Blocks => r \in Columns /\ (r = k \/ r \in LB.below[k])
      BY DEF Blocks
    <2> QED
      BY <2>1, <2>2
  <1>2. Contributions(b) = X \cup Y
    <2>1. K = {k \in Columns : \A r \in {b[1], b[2]} : <<r, k>> \in Blocks /\ r > k}
      BY <1>1
    <2>2. D = {d \in Domains : \A r \in {b[1], b[2]} : r \in LB.domains[d].rows}
      OBVIOUS
    <2> HIDE DEF K, D
    <2> QED
      BY <2>1, <2>2 DEF Contributions
  <1>3. IsFiniteSet(D) /\ IsFiniteSet(K)
    <2>1. Len(LB.domains) \in Nat /\ IsFiniteSet(Columns)
      BY CholeskyAssumption, Structure
    <2>2. IsFiniteSet(Domains)
      BY <2>1, FS_Interval DEF Domains
    <2>3. D \in SUBSET Domains /\ K \in SUBSET Columns
      OBVIOUS
    <2> HIDE DEF D, K
    <2> QED
      BY <2>1, <2>2, <2>3, FS_Subset
  <1>4. ComputeRemaining(b) = Cardinality(D) + Cardinality(K)
    BY DEF ComputeRemaining, FromColumns
  <1>5. \A d : d \in D <=> d \in Domains /\ {b[1], b[2]} \subseteq LB.domains[d].rows
    OBVIOUS
  <1>6. \A k : k \in K <=> k \in Columns /\ b[1] \in LB.below[k] /\ b[2] \in LB.below[k]
    OBVIOUS
  <1> HIDE DEF D, K
  <1>7. IsFiniteSet(X) /\ Cardinality(X) = Cardinality(D)
    <2> DEFINE f == [d \in D |-> <<"domain", d>>]
    <2>1. f \in Bijection(D, X)
      BY DEF Bijection, Injection, Surjection, IsInjective
    <2>2. ExistsBijection(D, X)
      BY <2>1, Zenon DEF ExistsBijection
    <2> HIDE DEF X
    <2> QED
      BY <2>2, <1>3, FS_Bijection
  <1>8. IsFiniteSet(Y) /\ Cardinality(Y) = Cardinality(K)
    <2> DEFINE f == [k \in K |-> <<"column", k>>]
    <2>1. f \in Bijection(K, Y)
      BY DEF Bijection, Injection, Surjection, IsInjective
    <2>2. ExistsBijection(K, Y)
      BY <2>1, Zenon DEF ExistsBijection
    <2> HIDE DEF Y
    <2> QED
      BY <2>2, <1>3, FS_Bijection
  <1>9. X \cap Y = {}
    OBVIOUS
  <1>10. /\ \A d : <<"domain", d>> \in X \cup Y <=> d \in D
         /\ \A k : <<"column", k>> \in X \cup Y <=> k \in K
    OBVIOUS
  <1> HIDE DEF X, Y
  <1>11. IsFiniteSet(X \cup Y) /\ Cardinality(X \cup Y) = Cardinality(X) + Cardinality(Y)
    <2>1. Cardinality(X \cap Y) = 0 /\ Cardinality(X) \in Nat /\ Cardinality(Y) \in Nat
      BY <1>7, <1>8, <1>9, FS_EmptySet, FS_CardinalityType
    <2>2. /\ IsFiniteSet(X \cup Y)
          /\ Cardinality(X \cup Y) = Cardinality(X) + Cardinality(Y) - Cardinality(X \cap Y)
      BY <1>7, <1>8, FS_Union
    <2> QED
      BY <2>1, <2>2
  <1> QED
    BY <1>2, <1>4, <1>5, <1>6, <1>7, <1>8, <1>10, <1>11

(***************************************************************************)
(* The inductive invariant.                                                *)
(***************************************************************************)
(* p has taken the block b, that it was sent, from its queue.                 *)
Arrived(p, b) == factored[b] = 1 /\ p \in ToSet(DoneTo(b)) /\ ~Pend(p, BlockTask(b))

(* p has yet to factor the domain d.                                          *)
Undistributed(d) ==
  \E p \in Procs : \E x \in domain[p] .. Len(MyDomains(p)) : MyDomains(p)[x] = d

TypeInv ==
  /\ LB \in Matrices
  /\ DOMAIN remaining = Blocks /\ DOMAIN applied = Blocks
  /\ factored \in [Blocks -> {0, 1}]
  /\ pc \in [Procs -> {"domains", "loop", "stopped"}]
  /\ domain \in [Procs -> Nat \ {0}]
  /\ DOMAIN NReceived = Procs /\ DOMAIN AllBlocks = Procs /\ DOMAIN DiagBlock = Procs
  /\ \A p \in Procs : /\ DOMAIN NReceived[p] = Columns
                      /\ DOMAIN AllBlocks[p] = Columns
                      /\ DOMAIN DiagBlock[p] = Columns

(* A block that is on its way has been factored, and goes where it is due; an *)
(* update is made by the owner of the block, and has not been made yet.       *)
BlocksPending == \A q \in Procs, b \in Blocks :
  Pend(q, BlockTask(b)) => factored[b] = 1 /\ q \in ToSet(DoneTo(b))

UpdatesPending == \A q \in Procs, d \in Domains, b \in Blocks :
  Pend(q, UpdateTask(d, b)) => /\ {b[1], b[2]} \subseteq LB.domains[d].rows
                               /\ EmbeddedOwner(b) = q
                               /\ <<"domain", d>> \notin applied[b]
                               /\ ~Undistributed(d)

DomainsAhead == \A d \in Domains, b \in Blocks :
  Undistributed(d) => <<"domain", d>> \notin applied[b]

(* remaining counts the contributions that are not applied.                   *)
Counted(b) == /\ applied[b] \subseteq Contributions(b)
              /\ remaining[b] = Cardinality(Contributions(b) \ applied[b])
CountRight == \A b \in Blocks : Counted(b)

(* The update of block (i, j) by column k is made once its owner has both     *)
(* (i, k) and (j, k).                                                         *)
ColumnsUsed == \A k \in Columns : \A i, j \in LB.below[k] : i >= j =>
  LET q == EmbeddedOwner(<<i, j>>)
  IN  <<"column", k>> \in applied[<<i, j>>] <=> Arrived(q, <<i, k>>) /\ Arrived(q, <<j, k>>)

(* A process knows how many blocks of a column are yet to come to it, and     *)
(* until then has those that came.                                            *)
Awaited(p, k) == {b \in Blocks : b[2] = k /\ p \in ToSet(DoneTo(b)) /\ ~Arrived(p, b)}

ListRight(p, k) ==
  /\ NReceived[p][k] = Cardinality(Awaited(p, k))
  /\ AllBlocks[p][k] \in Seq(LB.below[k]) /\ IsInjective(AllBlocks[p][k])
  /\ \A i \in LB.below[k] : NReceived[p][k] > 0 /\ Arrived(p, <<i, k>>) => i \in ToSet(AllBlocks[p][k])
  /\ \A i \in ToSet(AllBlocks[p][k]) : Arrived(p, <<i, k>>)
  /\ DiagBlock[p][k] => Arrived(p, <<k, k>>)
ListsRight == \A p \in Procs, k \in Columns : ListRight(p, k)

(* What is factored has had all its updates, and its diagonal block.          *)
FactoredLate == \A b \in Blocks : factored[b] = 1 =>
  remaining[b] = 0 /\ (IsDiag(b) \/ Arrived(EmbeddedOwner(b), <<b[2], b[2]>>))

(* A process that factors its domains has not factored anything else.         *)
Starting == \A p \in Procs : pc[p] = "domains" => \A b \in Mine(p) : factored[b] = 0

(* The order to stop is given when the last column is factored.               *)
Ending == \A p \in Procs : Pend(p, Terminate) \/ pc[p] = "stopped" =>
                             factored[<<LB.n - 1, LB.n - 1>>] = 1

IInv == /\ TypeInv /\ Mail /\ BlocksPending /\ UpdatesPending /\ DomainsAhead
        /\ CountRight /\ ColumnsUsed /\ ListsRight /\ FactoredLate /\ Starting /\ Ending

(***************************************************************************)
(* What follows from it.                                                   *)
(***************************************************************************)
LEMMA NothingRemains ==
  ASSUME TypeInv, CountRight, NEW b \in Blocks, remaining[b] = 0
  PROVE  applied[b] = Contributions(b)
  <1>1. IsFiniteSet(Contributions(b))
    BY ContributionFacts DEF TypeInv
  <1>2. IsFiniteSet(Contributions(b) \ applied[b])
    BY <1>1, FS_Difference
  <1>3. Contributions(b) \ applied[b] = {}
    BY <1>2, FS_EmptySet DEF CountRight, Counted
  <1> QED
    BY <1>3 DEF CountRight, Counted

(* remaining is 0 when a block is factored, and its diagonal block has arrived. *)
LEMMA InvFactoredWhenRight == IInv => FactoredWhenRight
  <1> SUFFICES ASSUME IInv, NEW b \in Blocks
               PROVE  /\ factored[b] \in {0, 1}
                      /\ factored[b] = 1 => applied[b] = Contributions(b) /\ factored[<<b[2], b[2]>>] = 1
    BY DEF FactoredWhenRight
  <1>1. factored[b] \in {0, 1}
    BY DEF IInv, TypeInv
  <1>2. ASSUME factored[b] = 1 PROVE applied[b] = Contributions(b)
    BY <1>2, NothingRemains DEF IInv, FactoredLate
  <1>3. ASSUME factored[b] = 1 PROVE factored[<<b[2], b[2]>>] = 1
    <2>1. CASE IsDiag(b)
      <3>1. b = <<b[1], b[2]>>
        BY Structure DEF IInv, TypeInv
      <3> QED
        BY <3>1, <2>1, <1>3 DEF IsDiag
    <2>2. CASE ~IsDiag(b)
      BY <1>3, <2>2 DEF IInv, FactoredLate, Arrived
    <2> QED
      BY <2>1, <2>2
  <1> QED
    BY <1>1, <1>2, <1>3

(* Where the blocks go that a block needs.                                    *)
LEMMA OwnerIsSent ==
  ASSUME LB \in Matrices, NEW b \in Blocks
  PROVE  /\ EmbeddedOwner(b) \in Procs
         /\ EmbeddedOwner(b) \in ToSet(DoneTo(b))
         /\ \A k \in Columns : EmbeddedOwner(b) \in ToSet(DoneTo(<<b[1], k>>))
                               /\ EmbeddedOwner(b) \in ToSet(DoneTo(<<b[2], k>>))
  <1>1. b \in Nat \X Nat /\ b[1] \in Nat /\ b[2] \in Nat /\ Columns \subseteq Nat
        /\ b[2] \in Columns /\ b = <<b[1], b[2]>>
    BY Structure
  <1>2. EmbeddedOwner(b) = (b[1] % P_dimi) + (b[2] % P_dimj) * P_dimi
    BY DEF EmbeddedOwner
  <1>3. b[1] % P_dimi \in 0 .. P_dimi - 1 /\ b[2] % P_dimj \in 0 .. P_dimj - 1
    BY <1>1, Places
  <1>4. ASSUME NEW k \in Columns
        PROVE  /\ EmbeddedOwner(b) \in ToSet(DoneTo(<<b[1], k>>))
               /\ EmbeddedOwner(b) \in ToSet(DoneTo(<<b[2], k>>))
    <2>1. <<b[1], k>> \in Nat \X Nat /\ <<b[2], k>> \in Nat \X Nat
      BY <1>1
    <2>2. (b[1] % P_dimi) + (b[2] % P_dimj) * P_dimi \in ToSet(DoneTo(<<b[1], k>>))
      <3>1. \A c \in 0 .. P_dimj - 1 :
              (<<b[1], k>>[1] % P_dimi) + c * P_dimi \in ToSet(DoneTo(<<b[1], k>>))
        BY <2>1, DoneToFacts
      <3> QED
        BY <3>1, <1>3
    <2>3. (b[1] % P_dimi) + (b[2] % P_dimj) * P_dimi \in ToSet(DoneTo(<<b[2], k>>))
      <3>1. \A r \in 0 .. P_dimi - 1 :
              r + (<<b[2], k>>[1] % P_dimj) * P_dimi \in ToSet(DoneTo(<<b[2], k>>))
        BY <2>1, DoneToFacts
      <3> QED
        BY <3>1, <1>3
    <2> QED
      BY <1>2, <2>2, <2>3
  <1>5. EmbeddedOwner(b) \in ToSet(DoneTo(b))
    BY <1>1, <1>4
  <1> QED
    BY <1>1, <1>4, <1>5, OwnerInMachine

(* When nothing of a column is awaited, all that p is sent of it has arrived. *)
LEMMA InvForgetsWhatIsUsed == IInv => ForgetsWhatIsUsed
  <1> SUFFICES ASSUME IInv, NEW p \in Procs, NEW k \in Columns, NReceived[p][k] = 0
               PROVE  /\ \A b \in Blocks : b[2] = k /\ EmbeddedOwner(b) = p => factored[b] = 1
                      /\ \A b \in Blocks : EmbeddedOwner(b) = p /\ <<"column", k>> \in Contributions(b)
                           => <<"column", k>> \in applied[b]
    BY DEF ForgetsWhatIsUsed
  <1>1. LB \in Matrices
    BY DEF IInv, TypeInv
  <1>2. \A b \in Blocks : b[2] = k /\ p \in ToSet(DoneTo(b)) => Arrived(p, b)
    <2>1. Awaited(p, k) \in SUBSET Blocks /\ IsFiniteSet(Blocks)
      BY <1>1, Structure DEF Awaited
    <2>2. IsFiniteSet(Awaited(p, k)) /\ Cardinality(Awaited(p, k)) = 0
      BY <2>1, FS_Subset DEF IInv, ListsRight, ListRight
    <2>3. Awaited(p, k) = {}
      BY <2>2, FS_EmptySet
    <2> QED
      BY <2>3 DEF Awaited
  <1>3. ASSUME NEW b \in Blocks, b[2] = k, EmbeddedOwner(b) = p PROVE factored[b] = 1
    BY <1>1, <1>2, <1>3, OwnerIsSent DEF Arrived
  <1>4. ASSUME NEW b \in Blocks, EmbeddedOwner(b) = p, <<"column", k>> \in Contributions(b)
        PROVE  <<"column", k>> \in applied[b]
    <2>1. b[1] \in LB.below[k] /\ b[2] \in LB.below[k] /\ b = <<b[1], b[2]>> /\ b[1] >= b[2]
      BY <1>1, <1>4, ContributionFacts, Structure
    <2>2. <<b[1], k>> \in Blocks /\ <<b[2], k>> \in Blocks
      BY <1>1, <2>1, Structure
    <2>3. Arrived(p, <<b[1], k>>) /\ Arrived(p, <<b[2], k>>)
      BY <1>1, <1>2, <1>4, <2>2, OwnerIsSent
    <2> QED
      BY <1>4, <2>1, <2>3 DEF IInv, ColumnsUsed
  <1> QED
    BY <1>3, <1>4

(* With the last column everything is factored: a column has a block below    *)
(* its diagonal, whose row is that of a later diagonal block.                 *)
LEMMA AllFactored ==
  ASSUME IInv, factored[<<LB.n - 1, LB.n - 1>>] = 1
  PROVE  \A b \in Blocks : factored[b] = 1
  <1>1. LB \in Matrices
    BY DEF IInv, TypeInv
  <1>2. ASSUME NEW k \in Columns, NEW i \in LB.below[k], factored[<<i, i>>] = 1
        PROVE  factored[<<i, k>>] = 1 /\ factored[<<k, k>>] = 1
    <2> DEFINE b == <<i, i>>
               c == <<i, k>>
    <2>1. b \in Blocks /\ c \in Blocks /\ i \in Nat /\ i > k /\ k \in Nat
      BY <1>1, Structure
    <2>2. b[1] = i /\ b[2] = i /\ c[2] = k /\ ~IsDiag(c)
      BY <2>1 DEF IsDiag
    <2>3. applied[b] = Contributions(b)
      BY <1>2, <2>1, NothingRemains DEF IInv, FactoredLate
    <2>4. <<"column", k>> \in applied[b]
      BY <1>1, <2>1, <2>2, <2>3, ContributionFacts
    <2>5. factored[c] = 1
      BY <2>1, <2>4 DEF IInv, ColumnsUsed, Arrived
    <2> HIDE DEF b, c
    <2>6. factored[<<k, k>>] = 1
      BY <2>1, <2>2, <2>5 DEF IInv, FactoredLate, Arrived
    <2> QED
      BY <2>5, <2>6 DEF c
  <1> DEFINE Bad == {k \in Columns : factored[<<k, k>>] # 1}
  <1>3. Bad = {}
    <2> SUFFICES ASSUME Bad # {} PROVE FALSE
      OBVIOUS
    <2>1. Columns \subseteq Nat /\ IsFiniteSet(Columns) /\ Bad \in SUBSET Columns
      BY <1>1, Structure
    <2>2. PICK k \in Bad : \A l \in Bad : l <= k
      <3> HIDE DEF Bad
      <3>1. IsFiniteSet(Bad)
        BY <2>1, FS_Subset
      <3>2. Bad \in SUBSET Int
        BY <2>1
      <3> QED
        BY <3>1, <3>2, Largest
    <2>3. k \in Columns /\ k # LB.n - 1 /\ factored[<<k, k>>] # 1
      OBVIOUS
    <2>4. PICK i \in LB.below[k] : TRUE
      BY <1>1, <2>3, Structure
    <2>5. i \in Columns /\ i > k
      BY <1>1, <2>3, Structure
    <2>6. i \notin Bad
      BY <2>1, <2>2, <2>3, <2>5
    <2> QED
      BY <1>2, <2>3, <2>5, <2>6
  <1>4. \A k \in Columns : factored[<<k, k>>] = 1
    BY <1>3
  <1> TAKE b \in Blocks
  <1>5. /\ b[1] \in Columns /\ b[2] \in Columns /\ b = <<b[1], b[2]>>
        /\ b[1] = b[2] \/ b[1] \in LB.below[b[2]]
    BY <1>1, Structure
  <1>6. CASE b[1] = b[2]
    <2>1. b = <<b[1], b[1]>>
      BY <1>5, <1>6
    <2> QED
      BY <1>4, <1>5, <2>1
  <1>7. CASE b[1] \in LB.below[b[2]]
    <2>1. factored[<<b[1], b[1]>>] = 1
      BY <1>4, <1>5
    <2>2. factored[<<b[1], b[2]>>] = 1
      BY <1>2, <1>5, <1>7, <2>1
    <2> QED
      BY <1>5, <2>2
  <1> QED
    BY <1>5, <1>6, <1>7

(* Who was told to stop was told so after the last column.                    *)
LEMMA InvStopsWhenDone == IInv => StopsWhenDone
  BY AllFactored DEF IInv, Ending, StopsWhenDone

(***************************************************************************)
(* The invariant holds at the start.                                       *)
(***************************************************************************)
LEMMA Initially == Init => IInv
  <1> SUFFICES ASSUME Init PROVE IInv
    OBVIOUS
  <1> USE DEF Init
  <1>1. LB \in Matrices
    OBVIOUS
  <1> DEFINE none == <<>>
  <1>2. none \in Seq(Task) /\ none \in Seq(Message) /\ \A t : t \notin ToSet(none) /\ Once(none, t)
    BY DEF ToSet, Once
  <1>3. ToSet(none) = {}
    BY DEF ToSet
  <1>4. tasks = [p \in Procs |-> none] /\ out = [p \in Procs |-> none]
    OBVIOUS
  <1> HIDE DEF none
  <1>5. Mail
    <2>1. tasks \in [Procs -> Seq(Task)] /\ out \in [Procs -> Seq(Message)]
      BY <1>2, <1>4, Zenon
    <2>2. \A q \in Procs, t \in Task \ {Terminate} : Single(q, t)
      BY <1>2, <1>4 DEF Single
    <2> QED
      BY <2>1, <2>2 DEF Mail
  <1>6. \A q \in Procs : \A t : ~Pend(q, t)
    BY <1>2, <1>4 DEF Pend
  <1>7. \A p, b : b \in Blocks => ~Arrived(p, b)
    BY DEF Arrived
  <1>8. TypeInv
    <2>1. /\ DOMAIN remaining = Blocks /\ DOMAIN applied = Blocks
          /\ factored \in [Blocks -> {0, 1}]
      OBVIOUS
    <2>2. /\ pc \in [Procs -> {"domains", "loop", "stopped"}]
          /\ domain \in [Procs -> Nat \ {0}]
      OBVIOUS
    <2>3. /\ DOMAIN NReceived = Procs /\ DOMAIN AllBlocks = Procs /\ DOMAIN DiagBlock = Procs
          /\ \A p \in Procs : /\ DOMAIN NReceived[p] = Columns
                              /\ DOMAIN AllBlocks[p] = Columns
                              /\ DOMAIN DiagBlock[p] = Columns
      OBVIOUS
    <2> QED
      BY <1>1, <2>1, <2>2, <2>3 DEF TypeInv
  <1>9. BlocksPending /\ UpdatesPending
    BY <1>6 DEF BlocksPending, UpdatesPending
  <1>10. DomainsAhead
    BY DEF DomainsAhead
  <1>11. CountRight
    <2> SUFFICES ASSUME NEW b \in Blocks PROVE Counted(b)
      BY DEF CountRight
    <2>1. applied[b] = {} /\ remaining[b] = ComputeRemaining(b)
      OBVIOUS
    <2>2. Cardinality(Contributions(b)) = ComputeRemaining(b)
      BY <1>1, ContributionFacts
    <2>3. Contributions(b) \ {} = Contributions(b)
      OBVIOUS
    <2> QED
      BY <2>1, <2>2, <2>3 DEF Counted
  <1>12. ColumnsUsed
    <2> SUFFICES ASSUME NEW k \in Columns, NEW i \in LB.below[k], NEW j \in LB.below[k], i >= j
                 PROVE  /\ <<"column", k>> \notin applied[<<i, j>>]
                        /\ ~Arrived(EmbeddedOwner(<<i, j>>), <<i, k>>)
      BY DEF ColumnsUsed
    <2>1. i \in Nat /\ j \in Nat /\ Pair(i, j) \in Blocks /\ <<i, k>> \in Blocks
      BY <1>1, Structure
    <2>2. <<i, j>> \in Blocks
      BY <2>1, Structure, <1>1 DEF Pair
    <2> QED
      BY <2>1, <2>2, <1>7
  <1>13. ListsRight
    <2> SUFFICES ASSUME NEW p \in Procs, NEW k \in Columns PROVE ListRight(p, k)
      BY DEF ListsRight
    <2>1. Awaited(p, k) = {b \in Blocks : b[2] = k /\ p \in ToSet(DoneTo(b))}
      BY <1>7 DEF Awaited
    <2>2. NReceived[p][k] = Cardinality(Awaited(p, k))
      BY <2>1 DEF ComputeReceived
    <2>3. AllBlocks[p][k] = none /\ DiagBlock[p][k] = FALSE
      BY DEF none
    <2>4. AllBlocks[p][k] \in Seq(LB.below[k]) /\ IsInjective(AllBlocks[p][k])
      <3>1. none \in Seq(LB.below[k]) /\ IsInjective(none)
        BY DEF none, IsInjective
      <3> QED
        BY <3>1, <2>3
    <2>5. \A i \in LB.below[k] : <<i, k>> \in Blocks
      BY <1>1, Structure
    <2> QED
      BY <1>3, <1>7, <2>2, <2>3, <2>4, <2>5 DEF ListRight
  <1>14. FactoredLate /\ Starting
    BY DEF FactoredLate, Starting, Mine
  <1>15. Ending
    <2>1. Terminate \in Task /\ \A p \in Procs : pc[p] # "stopped"
      BY DEF Task
    <2> QED
      BY <2>1, <1>6 DEF Ending
  <1> QED
    BY <1>5, <1>8, <1>9, <1>10, <1>11, <1>12, <1>13, <1>14, <1>15 DEF IInv

(***************************************************************************)
(* What a step does to what the invariant speaks of.                       *)
(***************************************************************************)
(* In this step of p, the task t was taken from the queue of q.               *)
Took(p, q, t) == Takes(p) /\ q = p /\ t = Head(tasks[p])

(* p factors the blocks bs, after it took a task or without one: they are on  *)
(* their way to all that need them, and no other block is.                    *)
LEMMA Factors ==
  ASSUME TypeInv, Mail, BlocksPending, LB' = LB, NEW p \in Procs, out[p] = <<>>,
         tasks' = tasks \/ Takes(p),
         NEW bs \in Seq(Blocks), IsInjective(bs), \A b \in ToSet(bs) : factored[b] = 0,
         NEW rest, rest = <<>> \/ rest = TerminateAll,
         Factor(p, bs, rest)
  PROVE  /\ Mail' /\ BlocksPending' /\ factored' \in [Blocks -> {0, 1}]
         /\ \A b \in Blocks : factored'[b] = 1 <=> factored[b] = 1 \/ b \in ToSet(bs)
         /\ \A q \in Procs, b \in Blocks :
              Arrived(q, b)' <=> Arrived(q, b) \/ Took(p, q, BlockTask(b))
         /\ \A q \in Procs, d \in Domains, b \in Blocks :
              Pend(q, UpdateTask(d, b))' <=>
                Pend(q, UpdateTask(d, b)) /\ ~Took(p, q, UpdateTask(d, b))
         /\ \A q \in Procs : Pend(q, Terminate)' => Pend(q, Terminate) \/ rest = TerminateAll
  <1> DEFINE new == BlocksDoneFO(bs) \o rest
             F == ToSet(bs)
  <1>1. LB \in Matrices /\ factored \in [Blocks -> {0, 1}]
    BY DEF TypeInv
  <1>2. /\ BlocksDoneFO(bs) \in Seq(Message) /\ IsInjective(BlocksDoneFO(bs))
        /\ \A q, t : To(q, t) \in ToSet(BlocksDoneFO(bs)) <=>
                     \E b \in F : t = BlockTask(b) /\ q \in ToSet(DoneTo(b))
    BY <1>1, BlocksDoneFacts
  <1>3. rest \in Seq(Message) /\ \A q, t : To(q, t) \in ToSet(rest) => t = Terminate /\ rest = TerminateAll
    <2>1. CASE rest = <<>>
      <3>1. ToSet(rest) = {}
        BY <2>1 DEF ToSet
      <3> QED
        BY <2>1, <3>1
    <2>2. CASE rest = TerminateAll
      BY <2>2, TerminateAllFacts, SameMessage
    <2> QED
      BY <2>1, <2>2
  <1>4. new \in Seq(Message) /\ ToSet(new) = ToSet(BlocksDoneFO(bs)) \cup ToSet(rest)
    BY <1>2, <1>3, ConcatFacts
  <1>5. F \in SUBSET Blocks
    BY MemberFacts
  <1>6. \A q \in Procs, t \in Task \ {Terminate} : Once(new, To(q, t))
    <2> TAKE q \in Procs, t \in Task \ {Terminate}
    <2>1. To(q, t) \notin ToSet(rest) /\ Once(BlocksDoneFO(bs), To(q, t))
      BY <1>2, <1>3, InjectiveOnce
    <2> QED
      BY <2>1, <1>2, <1>3, ConcatFacts
  <1>7. \A q, t : To(q, t) \in ToSet(new) <=> \/ To(q, t) \in ToSet(rest)
                                             \/ \E b \in F : t = BlockTask(b) /\ q \in ToSet(DoneTo(b))
    BY <1>2, <1>4
  <1>8. out' = [out EXCEPT ![p] = new]
    BY DEF Factor
  <1>9. factored' = [b \in Blocks |-> IF b \in F THEN factored[b] + 1 ELSE factored[b]]
    BY DEF Factor
  <1> HIDE DEF new, F
  <1>10. \A q \in Procs, t \in Task \ {Terminate} : To(q, t) \in ToSet(new) => ~Pend(q, t)
    <2> SUFFICES ASSUME NEW q \in Procs, NEW t \in Task, t # Terminate, To(q, t) \in ToSet(new), Pend(q, t)
                 PROVE  FALSE
      OBVIOUS
    <2>1. PICK b \in F : t = BlockTask(b)
      BY <1>3, <1>7
    <2>2. factored[b] = 0 /\ b \in Blocks
      BY <1>5 DEF F
    <2>3. factored[b] = 1
      BY <2>1, <2>2 DEF BlocksPending
    <2> QED
      BY <2>2, <2>3
  <1>11. /\ Mail'
         /\ \A q \in Procs, t \in Task \ {Terminate} :
              Pend(q, t)' <=> (Pend(q, t) /\ ~Took(p, q, t)) \/ To(q, t) \in ToSet(new)
         /\ \A q \in Procs, t \in Task : Pend(q, t)' => Pend(q, t) \/ To(q, t) \in ToSet(new)
         /\ Takes(p) => Head(tasks[p]) \in Task /\ Pend(p, Head(tasks[p]))
    <2>1. CASE Takes(p)
      BY <1>4, <1>6, <1>8, <1>10, <2>1, WorkMail DEF Took
    <2>2. CASE tasks' = tasks /\ ~Takes(p)
      BY <1>4, <1>6, <1>8, <1>10, <2>2, WorkMail DEF Took
    <2> QED
      BY <2>1, <2>2
  <1>12. /\ \A b \in Blocks : BlockTask(b) \in Task \ {Terminate}
         /\ \A d \in Domains, b \in Blocks : UpdateTask(d, b) \in Task \ {Terminate}
         /\ Terminate \in Task
         /\ \A b, c, d : BlockTask(b) # UpdateTask(d, c) /\ BlockTask(b) # Terminate
    <2>1. \A b, c, d : /\ BlockTask(b) # UpdateTask(d, c) /\ BlockTask(b) # Terminate
                       /\ UpdateTask(d, c) # Terminate
      BY TaskKinds
    <2> QED
      BY <2>1 DEF Task
  <1>13. factored' \in [Blocks -> {0, 1}] /\ \A b \in Blocks : factored'[b] = 1 <=> factored[b] = 1 \/ b \in F
    BY <1>1, <1>9 DEF F
  <1>14. \A q, b : b \in Blocks => (To(q, BlockTask(b)) \in ToSet(new) <=> b \in F /\ q \in ToSet(DoneTo(b)))
    BY <1>3, <1>7, <1>12, SameBlock
  <1>15. \A q \in Procs, b \in Blocks :
           Pend(q, BlockTask(b))' <=> \/ Pend(q, BlockTask(b)) /\ ~Took(p, q, BlockTask(b))
                                      \/ b \in F /\ q \in ToSet(DoneTo(b))
    BY <1>11, <1>12, <1>14
  <1>16. Blocks' = Blocks
    BY SameStructure
  <1>17. BlocksPending'
    BY <1>13, <1>15, <1>16 DEF BlocksPending
  <1>18. \A q \in Procs, b \in Blocks :
              Arrived(q, b)' <=> Arrived(q, b) \/ Took(p, q, BlockTask(b))
    <2> TAKE q \in Procs, b \in Blocks
    <2>1. Took(p, q, BlockTask(b)) => Pend(q, BlockTask(b))
      BY <1>11 DEF Took
    <2>2. Pend(q, BlockTask(b)) => factored[b] = 1 /\ q \in ToSet(DoneTo(b))
      BY DEF BlocksPending
    <2>3. b \in F => factored[b] = 0
      BY DEF F
    <2> QED
      BY <2>1, <2>2, <2>3, <1>13, <1>15 DEF Arrived
  <1>19. \A q \in Procs, d \in Domains, b \in Blocks :
              Pend(q, UpdateTask(d, b))' <=>
                Pend(q, UpdateTask(d, b)) /\ ~Took(p, q, UpdateTask(d, b))
    <2> TAKE q \in Procs, d \in Domains, b \in Blocks
    <2>1. To(q, UpdateTask(d, b)) \notin ToSet(new)
      BY <1>3, <1>7, <1>12
    <2> QED
      BY <2>1, <1>11, <1>12
  <1>20. \A q \in Procs : Pend(q, Terminate)' => Pend(q, Terminate) \/ rest = TerminateAll
    BY <1>3, <1>7, <1>11, <1>12
  <1> QED
    BY <1>11, <1>13, <1>17, <1>18, <1>19, <1>20 DEF F

(* Nothing is factored: what comes and goes are updates and orders to stop.   *)
LEMMA NoneFactored ==
  ASSUME BlocksPending, LB' = LB, factored' = factored,
         \A q \in Procs, b \in Blocks : Pend(q, BlockTask(b))' <=> Pend(q, BlockTask(b))
  PROVE  /\ BlocksPending'
         /\ \A q \in Procs, b \in Blocks : Arrived(q, b)' <=> Arrived(q, b)
  <1>1. Blocks' = Blocks
    BY SameStructure
  <1>2. BlocksPending'
    BY <1>1 DEF BlocksPending
  <1>3. \A q \in Procs, b \in Blocks : Arrived(q, b)' <=> Arrived(q, b)
    BY DEF Arrived
  <1> QED
    BY <1>2, <1>3

(* A list is as right as it was.                                              *)
LEMMA KeepsList ==
  ASSUME LB \in Matrices, LB' = LB, NEW p \in Procs, NEW k \in Columns, ListRight(p, k),
         \A b \in Blocks : b[2] = k => (Arrived(p, b)' <=> Arrived(p, b)),
         NReceived'[p][k] = NReceived[p][k],
         AllBlocks'[p][k] = AllBlocks[p][k],
         DiagBlock'[p][k] = DiagBlock[p][k]
  PROVE  ListRight(p, k)'
  <1>1. Blocks' = Blocks
    BY SameStructure
  <1>2. Awaited(p, k)' = Awaited(p, k)
    BY <1>1 DEF Awaited
  <1>3. /\ \A i \in LB.below[k] : Arrived(p, <<i, k>>)' <=> Arrived(p, <<i, k>>)
        /\ Arrived(p, <<k, k>>)' <=> Arrived(p, <<k, k>>)
    BY Structure
  <1>4. \A i \in ToSet(AllBlocks[p][k]) : i \in LB.below[k]
    BY MemberFacts DEF ListRight
  <1> QED
    BY <1>2, <1>3, <1>4 DEF ListRight

(* Nothing of a column arrives and no column's update is made.                *)
LEMMA KeepsColumns ==
  ASSUME LB \in Matrices, LB' = LB, ColumnsUsed,
         \A b \in Blocks, k \in Columns : <<"column", k>> \in applied'[b] <=> <<"column", k>> \in applied[b],
         \A q \in Procs, k \in Columns : \A i \in LB.below[k] :
           Arrived(q, <<i, k>>)' <=> Arrived(q, <<i, k>>)
  PROVE  ColumnsUsed'
  <1>1. Columns' = Columns
    BY SameStructure
  <1> SUFFICES ASSUME NEW k \in Columns, NEW i \in LB.below[k], NEW j \in LB.below[k], i >= j
               PROVE  <<"column", k>> \in applied'[<<i, j>>] <=>
                        /\ Arrived(EmbeddedOwner(<<i, j>>), <<i, k>>)'
                        /\ Arrived(EmbeddedOwner(<<i, j>>), <<j, k>>)'
    BY <1>1 DEF ColumnsUsed
  <1>2. <<i, j>> \in Blocks /\ <<i, j>> \in Nat \X Nat
    <2>1. Pair(i, j) \in Blocks /\ i \in Nat /\ j \in Nat
      BY Structure
    <2> QED
      BY <2>1 DEF Pair
  <1>3. EmbeddedOwner(<<i, j>>) \in Procs
    BY <1>2, OwnerInMachine
  <1> QED
    BY <1>2, <1>3 DEF ColumnsUsed

(* Nothing is updated.                                                        *)
LEMMA NoneUpdated ==
  ASSUME CountRight, LB' = LB, remaining' = remaining, applied' = applied
  PROVE  CountRight'
  <1>1. Blocks' = Blocks /\ \A b : Contributions(b)' = Contributions(b)
    BY SameStructure
  <1> QED
    BY <1>1 DEF CountRight, Counted

(* No domain gets distributed.                                                *)
LEMMA SameDomains ==
  ASSUME LB' = LB, domain' = domain
  PROVE  \A d : Undistributed(d)' <=> Undistributed(d)
  <1>1. \A p : MyDomains(p)' = MyDomains(p)
    BY SameStructure
  <1> QED
    BY <1>1 DEF Undistributed

(* A block gets one more of its contributions.                                *)
LEMMA OneMore ==
  ASSUME LB \in Matrices, LB' = LB, NEW b \in Blocks, Counted(b),
         NEW from \in Contributions(b), from \notin applied[b],
         applied'[b] = applied[b] \cup {from},
         remaining'[b] = remaining[b] - 1
  PROVE  Counted(b)' /\ remaining[b] \in Nat \ {0}
  <1> DEFINE todo == Contributions(b) \ applied[b]
  <1>1. Contributions(b)' = Contributions(b)
    BY SameStructure
  <1>2. IsFiniteSet(Contributions(b))
    BY ContributionFacts
  <1>3. IsFiniteSet(todo)
    BY <1>2, FS_Difference
  <1>4. from \in todo /\ remaining[b] = Cardinality(todo)
    BY DEF Counted
  <1>5. Contributions(b) \ applied'[b] = todo \ {from} /\ applied'[b] \subseteq Contributions(b)
    BY DEF Counted
  <1> HIDE DEF todo
  <1>6. Cardinality(todo) \in Nat
    BY <1>3, FS_CardinalityType
  <1>7. Cardinality(todo \ {from}) = Cardinality(todo) - 1
    BY <1>3, <1>4, FS_RemoveElement
  <1>8. Cardinality(todo) # 0
    BY <1>3, <1>4, FS_EmptySet
  <1> QED
    BY <1>1, <1>4, <1>5, <1>6, <1>7, <1>8 DEF Counted

(***************************************************************************)
(* The steps that factor nothing.                                          *)
(***************************************************************************)
LEMMA TaskFacts ==
  /\ \A b \in Blocks : BlockTask(b) \in Task \ {Terminate}
  /\ \A d \in Domains, b \in Blocks : UpdateTask(d, b) \in Task \ {Terminate}
  /\ Terminate \in Task
  /\ \A b, c, d : BlockTask(b) # UpdateTask(d, c) /\ BlockTask(b) # Terminate
                  /\ UpdateTask(d, c) # Terminate
  <1>1. \A b, c, d : /\ BlockTask(b) # UpdateTask(d, c) /\ BlockTask(b) # Terminate
                     /\ UpdateTask(d, c) # Terminate
    BY TaskKinds
  <1> QED
    BY <1>1 DEF Task

(* Nothing arrives: the lists are right,                                      *)
LEMMA SameLists ==
  ASSUME LB \in Matrices, LB' = LB, ListsRight, UNCHANGED ownVars,
         \A q \in Procs, b \in Blocks : Arrived(q, b)' <=> Arrived(q, b)
  PROVE  ListsRight'
  <1>1. Columns' = Columns /\ Blocks' = Blocks
    BY SameStructure
  <1>2. ASSUME NEW p \in Procs, NEW k \in Columns PROVE ListRight(p, k)'
    BY KeepsList DEF ListsRight, ownVars
  <1> QED
    BY <1>1, <1>2 DEF ListsRight

(* and so are the updates by columns.                                         *)
LEMMA SameArrivals ==
  ASSUME LB \in Matrices, LB' = LB, ColumnsUsed, applied' = applied,
         \A q \in Procs, b \in Blocks : Arrived(q, b)' <=> Arrived(q, b)
  PROVE  ColumnsUsed'
  <1>1. \A k \in Columns : \A i \in LB.below[k] : <<i, k>> \in Blocks
    BY Structure
  <1> QED
    BY <1>1, KeepsColumns

(* What is factored stays so, and arrives where it did.                       *)
LEMMA StaysFactored ==
  ASSUME TypeInv, LB' = LB, FactoredLate, factored' = factored, remaining' = remaining,
         \A q \in Procs, b \in Blocks : Arrived(q, b) => Arrived(q, b)'
  PROVE  FactoredLate'
  <1>1. LB \in Matrices /\ Blocks' = Blocks
    BY SameStructure DEF TypeInv
  <1> SUFFICES ASSUME NEW b \in Blocks, factored[b] = 1
               PROVE  remaining[b] = 0 /\ (IsDiag(b) \/ Arrived(EmbeddedOwner(b), <<b[2], b[2]>>)')
    BY <1>1 DEF FactoredLate
  <1>2. EmbeddedOwner(b) \in Procs /\ <<b[2], b[2]>> \in Blocks
    BY <1>1, Structure, OwnerIsSent
  <1> QED
    BY <1>2 DEF FactoredLate

(* The program only hands a message over.                                     *)
LEMMA StepSend ==
  ASSUME IInv, NEW p \in Procs, Send(p)
  PROVE  IInv'
  <1>1. /\ LB' = LB /\ remaining' = remaining /\ applied' = applied /\ factored' = factored
        /\ UNCHANGED ownVars /\ pc' = pc /\ domain' = domain
    BY DEF Send, blockVars
  <1>2. Mail' /\ \A q \in Procs, t \in Task : Pend(q, t)' <=> Pend(q, t)
    BY SendMail DEF IInv
  <1>3. \A q \in Procs, b \in Blocks : Pend(q, BlockTask(b))' <=> Pend(q, BlockTask(b))
    BY <1>2, TaskFacts
  <1>4. BlocksPending' /\ \A q \in Procs, b \in Blocks : Arrived(q, b)' <=> Arrived(q, b)
    BY <1>1, <1>3, NoneFactored DEF IInv
  <1>5. Columns' = Columns /\ Blocks' = Blocks /\ Domains' = Domains /\ \A q : Mine(q)' = Mine(q)
    BY <1>1, SameStructure
  <1>6. TypeInv'
    BY <1>1, <1>5 DEF IInv, TypeInv, ownVars
  <1>7. UpdatesPending'
    BY <1>1, <1>2, <1>5, TaskFacts, SameDomains DEF IInv, UpdatesPending
  <1>8. DomainsAhead'
    BY <1>1, <1>5, SameDomains DEF IInv, DomainsAhead
  <1>9. CountRight'
    BY <1>1, NoneUpdated DEF IInv
  <1>10. ColumnsUsed'
    BY <1>1, <1>4, SameArrivals DEF IInv, TypeInv
  <1>11. ListsRight'
    BY <1>1, <1>4, SameLists DEF IInv, TypeInv
  <1>12. FactoredLate'
    BY <1>1, <1>4, StaysFactored DEF IInv
  <1>13. Starting'
    BY <1>1, <1>5 DEF IInv, Starting
  <1>14. Ending'
    BY <1>1, <1>2, TaskFacts DEF IInv, Ending
  <1> QED
    BY <1>2, <1>4, <1>6, <1>7, <1>8, <1>9, <1>10, <1>11, <1>12, <1>13, <1>14 DEF IInv

(* p distributes the domain d, which is then behind it.                       *)
LEMMA OneDomain ==
  ASSUME TypeInv, LB' = LB, NEW p \in Procs, domain[p] <= Len(MyDomains(p)),
         domain' = [domain EXCEPT ![p] = @ + 1],
         NEW d, d = MyDomains(p)[domain[p]]
  PROVE  /\ d \in Domains /\ Undistributed(d) /\ ~Undistributed(d)'
         /\ \A e : Undistributed(e)' => Undistributed(e)
  <1>1. /\ LB \in Matrices /\ domain \in [Procs -> Nat \ {0}]
        /\ \A q : MyDomains(q)' = MyDomains(q)
    BY SameStructure DEF TypeInv
  <1>2. \A q : /\ Len(MyDomains(q)) \in Nat /\ DOMAIN MyDomains(q) = 1 .. Len(MyDomains(q))
               /\ IsInjective(MyDomains(q))
               /\ \A x \in DOMAIN MyDomains(q) : MyDomains(q)[x] \in Domains
                                                 /\ LB.domains[MyDomains(q)[x]].owner = q
    BY <1>1, MyDomainsFacts
  <1>3. domain[p] \in 1 .. Len(MyDomains(p)) /\ domain[p] \in Nat
    BY <1>1, <1>2
  <1>4. d \in Domains /\ LB.domains[d].owner = p
    BY <1>2, <1>3
  <1>5. Undistributed(d)
    <2>1. domain[p] \in domain[p] .. Len(MyDomains(p))
      BY <1>1, <1>2
    <2> QED
      BY <2>1 DEF Undistributed
  <1>6. \A q \in Procs : domain'[q] = IF q = p THEN domain[q] + 1 ELSE domain[q]
    BY <1>1
  <1>7. ~Undistributed(d)'
    <2> SUFFICES ASSUME NEW q \in Procs, NEW x \in domain'[q] .. Len(MyDomains(q)), MyDomains(q)[x] = d
                 PROVE  FALSE
      BY <1>1 DEF Undistributed
    <2>1. domain[q] \in Nat \ {0} /\ Len(MyDomains(q)) \in Nat
      BY <1>1, <1>2
    <2>2. x \in DOMAIN MyDomains(q)
      BY <1>2, <1>6, <2>1
    <2>3. q = p
      BY <1>2, <1>4, <2>2
    <2>4. x = domain[p]
      BY <1>2, <1>3, <2>2, <2>3 DEF IsInjective
    <2> QED
      BY <1>6, <2>1, <2>3, <2>4
  <1>8. ASSUME NEW e, Undistributed(e)' PROVE Undistributed(e)
    <2>0. PICK q \in Procs : \E x \in domain'[q] .. Len(MyDomains(q)) : MyDomains(q)[x] = e
      BY <1>1, <1>8 DEF Undistributed
    <2>1. PICK x \in domain'[q] .. Len(MyDomains(q)) : MyDomains(q)[x] = e
      BY <2>0
    <2>2. domain[q] \in Nat \ {0} /\ Len(MyDomains(q)) \in Nat
      BY <1>1, <1>2
    <2>3. x \in domain[q] .. Len(MyDomains(q))
      BY <1>6, <2>2
    <2> QED
      BY <2>1, <2>3 DEF Undistributed
  <1> QED
    BY <1>4, <1>5, <1>7, <1>8

(* The updates of a domain get on their way, while it falls behind.           *)
LEMMA StepDistribute ==
  ASSUME IInv, NEW p \in Procs, FactorLLDomain(p)
  PROVE  IInv'
  <1>1. /\ LB' = LB /\ remaining' = remaining /\ applied' = applied /\ factored' = factored
        /\ UNCHANGED ownVars /\ pc' = pc /\ tasks' = tasks
        /\ out[p] = <<>> /\ domain[p] <= Len(MyDomains(p))
        /\ domain' = [domain EXCEPT ![p] = @ + 1]
    BY DEF FactorLLDomain, At, blockVars
  <1>2. TypeInv /\ LB \in Matrices /\ Mail /\ domain \in [Procs -> Nat \ {0}]
    BY DEF IInv, TypeInv
  <1>3. PICK d : d = MyDomains(p)[domain[p]]
    OBVIOUS
  <1>4. /\ d \in Domains /\ Undistributed(d) /\ ~Undistributed(d)'
        /\ \A e : Undistributed(e)' => Undistributed(e)
    BY <1>1, <1>2, <1>3, OneDomain
  <1>5. PICK new : new = Distributed(d)
    OBVIOUS
  <1>6. /\ new \in Seq(Message) /\ IsInjective(new)
        /\ \A m \in ToSet(new) : \E b \in Blocks :
             /\ m = To(EmbeddedOwner(b), UpdateTask(d, b))
             /\ {b[1], b[2]} \subseteq LB.domains[d].rows
    BY <1>2, <1>4, <1>5, DistributedFacts
  <1>7. out' = [out EXCEPT ![p] = new]
    BY <1>3, <1>5 DEF FactorLLDomain
  <1>8. \A q, t : To(q, t) \in ToSet(new) => \E b \in Blocks :
             /\ t = UpdateTask(d, b) /\ q = EmbeddedOwner(b)
             /\ {b[1], b[2]} \subseteq LB.domains[d].rows
    BY <1>6, SameMessage
  <1>9. \A q \in Procs, t \in Task \ {Terminate} : To(q, t) \in ToSet(new) => ~Pend(q, t)
    <2> SUFFICES ASSUME NEW q \in Procs, NEW t \in Task, To(q, t) \in ToSet(new), Pend(q, t)
                 PROVE  FALSE
      OBVIOUS
    <2>1. PICK b \in Blocks : t = UpdateTask(d, b)
      BY <1>8
    <2> QED
      BY <2>1, <1>4 DEF IInv, UpdatesPending
  <1>10. \A q \in Procs, t \in Task \ {Terminate} : Once(new, To(q, t))
    BY <1>6, InjectiveOnce
  <1>11. Mail' /\ \A q \in Procs, t \in Task : Pend(q, t)' <=> Pend(q, t) \/ To(q, t) \in ToSet(new)
    BY <1>1, <1>2, <1>6, <1>7, <1>9, <1>10, WorkMail
  <1>12. \A q \in Procs, b \in Blocks : Pend(q, BlockTask(b))' <=> Pend(q, BlockTask(b))
    <2> TAKE q \in Procs, b \in Blocks
    <2>1. To(q, BlockTask(b)) \notin ToSet(new)
      BY <1>8, TaskFacts
    <2> QED
      BY <2>1, <1>11, TaskFacts
  <1>13. BlocksPending' /\ \A q \in Procs, b \in Blocks : Arrived(q, b)' <=> Arrived(q, b)
    BY <1>1, <1>12, NoneFactored DEF IInv
  <1>14. Columns' = Columns /\ Blocks' = Blocks /\ Domains' = Domains /\ \A q : Mine(q)' = Mine(q)
    BY <1>1, SameStructure
  <1>15. domain' \in [Procs -> Nat \ {0}]
    BY <1>1, <1>2
  <1>16. TypeInv'
    BY <1>1, <1>2, <1>14, <1>15 DEF TypeInv, ownVars
  <1>17. UpdatesPending'
    <2> SUFFICES ASSUME NEW q \in Procs, NEW e \in Domains, NEW b \in Blocks, Pend(q, UpdateTask(e, b))'
                 PROVE  /\ {b[1], b[2]} \subseteq LB.domains[e].rows
                        /\ EmbeddedOwner(b) = q
                        /\ <<"domain", e>> \notin applied[b]
                        /\ ~Undistributed(e)'
      BY <1>1, <1>14 DEF UpdatesPending
    <2>1. CASE Pend(q, UpdateTask(e, b))
      BY <2>1, <1>4 DEF IInv, UpdatesPending
    <2>2. CASE To(q, UpdateTask(e, b)) \in ToSet(new)
      <3>1. e = d /\ q = EmbeddedOwner(b) /\ {b[1], b[2]} \subseteq LB.domains[d].rows
        BY <2>2, <1>8, SameUpdate
      <3> QED
        BY <3>1, <1>4 DEF IInv, DomainsAhead
    <2> QED
      BY <1>11, <2>1, <2>2, TaskFacts
  <1>18. DomainsAhead'
    BY <1>1, <1>4, <1>14 DEF IInv, DomainsAhead
  <1>19. CountRight'
    BY <1>1, NoneUpdated DEF IInv
  <1>20. ColumnsUsed'
    BY <1>1, <1>2, <1>13, SameArrivals DEF IInv
  <1>21. ListsRight'
    BY <1>1, <1>2, <1>13, SameLists DEF IInv
  <1>22. FactoredLate'
    BY <1>1, <1>13, StaysFactored DEF IInv
  <1>23. Starting'
    BY <1>1, <1>14 DEF IInv, Starting
  <1>24. Ending'
    <2>1. \A q \in Procs : Pend(q, Terminate)' <=> Pend(q, Terminate)
      BY <1>8, <1>11, TaskFacts
    <2> QED
      BY <1>1, <2>1 DEF IInv, Ending
  <1> QED
    BY <1>11, <1>13, <1>16, <1>17, <1>18, <1>19, <1>20, <1>21, <1>22, <1>23, <1>24 DEF IInv

(* An order to stop is taken, that was given after the last column.           *)
LEMMA StepStop ==
  ASSUME IInv, NEW p \in Procs, Stop(p)
  PROVE  IInv'
  <1> DEFINE none == <<>>
  <1>1. /\ LB' = LB /\ remaining' = remaining /\ applied' = applied /\ factored' = factored
        /\ UNCHANGED ownVars /\ pc' = [pc EXCEPT ![p] = "stopped"] /\ domain' = domain
        /\ out' = out /\ out[p] = none /\ Takes(p) /\ Head(tasks[p]).kind = "terminate"
    BY DEF Stop, GetBlock, At, Goto, blockVars, Takes
  <1>2. none \in Seq(Message) /\ \A t : t \notin ToSet(none) /\ Once(none, t)
    BY DEF ToSet, Once
  <1> HIDE DEF none
  <1>3. TypeInv /\ LB \in Matrices /\ Mail /\ out \in [Procs -> Seq(Message)]
        /\ pc \in [Procs -> {"domains", "loop", "stopped"}]
    BY DEF IInv, TypeInv, Mail
  <1>4. out' = [out EXCEPT ![p] = none]
    BY <1>1, <1>3
  <1>5. out[p] = <<>>
    BY <1>1 DEF none
  <1>6. /\ Mail'
        /\ Head(tasks[p]) \in Task /\ Pend(p, Head(tasks[p]))
        /\ \A q \in Procs, t \in Task \ {Terminate} :
             Pend(q, t)' <=> \/ Pend(q, t) /\ ~(q = p /\ t = Head(tasks[p]))
                             \/ To(q, t) \in ToSet(none)
        /\ \A q \in Procs, t \in Task : Pend(q, t)' => Pend(q, t) \/ To(q, t) \in ToSet(none)
    BY <1>1, <1>2, <1>3, <1>4, <1>5, WorkMail
  <1>7. Head(tasks[p]) = Terminate
    BY <1>1, <1>6, TaskKinds DEF Task
  <1>8. \A q \in Procs, t \in Task \ {Terminate} : Pend(q, t)' <=> Pend(q, t)
    BY <1>2, <1>6, <1>7
  <1>9. \A q \in Procs, b \in Blocks : Pend(q, BlockTask(b))' <=> Pend(q, BlockTask(b))
    BY <1>8, TaskFacts
  <1>10. BlocksPending' /\ \A q \in Procs, b \in Blocks : Arrived(q, b)' <=> Arrived(q, b)
    BY <1>1, <1>9, NoneFactored DEF IInv
  <1>11. Columns' = Columns /\ Blocks' = Blocks /\ Domains' = Domains /\ \A q : Mine(q)' = Mine(q)
    BY <1>1, SameStructure
  <1>12. pc' \in [Procs -> {"domains", "loop", "stopped"}]
         /\ \A q \in Procs : pc'[q] = IF q = p THEN "stopped" ELSE pc[q]
    BY <1>1, <1>3
  <1>13. TypeInv'
    BY <1>1, <1>3, <1>11, <1>12 DEF TypeInv, ownVars
  <1>14. UpdatesPending'
    BY <1>1, <1>8, <1>11, TaskFacts, SameDomains DEF IInv, UpdatesPending
  <1>15. DomainsAhead'
    BY <1>1, <1>11, SameDomains DEF IInv, DomainsAhead
  <1>16. CountRight'
    BY <1>1, NoneUpdated DEF IInv
  <1>17. ColumnsUsed'
    BY <1>1, <1>3, <1>10, SameArrivals DEF IInv
  <1>18. ListsRight'
    BY <1>1, <1>3, <1>10, SameLists DEF IInv
  <1>19. FactoredLate'
    BY <1>1, <1>10, StaysFactored DEF IInv
  <1>20. Starting'
    BY <1>1, <1>11, <1>12 DEF IInv, Starting
  <1>21. Ending'
    <2>1. \A q \in Procs : Pend(q, Terminate)' => Pend(q, Terminate)
      BY <1>2, <1>6, TaskFacts
    <2>2. factored[<<LB.n - 1, LB.n - 1>>] = 1
      BY <1>6, <1>7 DEF IInv, Ending
    <2> QED
      BY <1>1, <1>12, <2>1, <2>2 DEF IInv, Ending
  <1> QED
    BY <1>6, <1>10, <1>13, <1>14, <1>15, <1>16, <1>17, <1>18, <1>19, <1>20, <1>21 DEF IInv

(***************************************************************************)
(* The steps that factor blocks.                                           *)
(***************************************************************************)
LEMMA FactoredNow ==
  ASSUME TypeInv, LB' = LB, FactoredLate,
         \A q \in Procs, b \in Blocks : Arrived(q, b) => Arrived(q, b)',
         NEW bs, \A b \in Blocks : factored'[b] = 1 <=> factored[b] = 1 \/ b \in ToSet(bs),
         \A b \in Blocks : factored[b] = 1 => remaining'[b] = 0,
         \A b \in Blocks : b \in ToSet(bs) =>
           remaining'[b] = 0 /\ (IsDiag(b) \/ Arrived(EmbeddedOwner(b), <<b[2], b[2]>>)')
  PROVE  FactoredLate'
  <1>1. LB \in Matrices /\ Blocks' = Blocks
    BY SameStructure DEF TypeInv
  <1> SUFFICES ASSUME NEW b \in Blocks, factored'[b] = 1
               PROVE  remaining'[b] = 0 /\ (IsDiag(b) \/ Arrived(EmbeddedOwner(b), <<b[2], b[2]>>)')
    BY <1>1 DEF FactoredLate
  <1>2. EmbeddedOwner(b) \in Procs /\ <<b[2], b[2]>> \in Blocks
    BY <1>1, Structure, OwnerIsSent
  <1>3. CASE factored[b] = 1
    BY <1>2, <1>3 DEF FactoredLate
  <1> QED
    BY <1>3

(* Only p, which is past its domains, factors blocks.                         *)
LEMMA StillStarting ==
  ASSUME LB' = LB, Starting, NEW p \in Procs,
         NEW bs, \A b \in ToSet(bs) : b \in Mine(p),
         factored' \in [Blocks -> {0, 1}],
         \A b \in Blocks : factored'[b] = 1 <=> factored[b] = 1 \/ b \in ToSet(bs),
         \A q \in Procs : pc'[q] = "domains" => pc[q] = "domains" /\ q # p
  PROVE  Starting'
  <1>1. \A q : Mine(q)' = Mine(q)
    BY SameStructure
  <1> SUFFICES ASSUME NEW q \in Procs, pc[q] = "domains", q # p, NEW b \in Mine(q)
               PROVE  factored'[b] = 0
    BY <1>1 DEF Starting
  <1>2. b \in Blocks /\ b \notin Mine(p)
    BY DEF Mine
  <1>3. factored[b] = 0
    BY DEF Starting
  <1> QED
    BY <1>2, <1>3

(* Diagonal blocks that need no updates are factored first.                   *)
LEMMA StepDrive ==
  ASSUME IInv, NEW p \in Procs, Drive(p)
  PROVE  IInv'
  <1> DEFINE ready == {b \in Mine(p) : remaining[b] = 0}
  <1>1. /\ LB' = LB /\ remaining' = remaining /\ applied' = applied
        /\ UNCHANGED ownVars /\ tasks' = tasks /\ domain' = domain
        /\ pc' = [pc EXCEPT ![p] = "loop"] /\ pc[p] = "domains" /\ out[p] = <<>>
        /\ Factor(p, Only(Diagonal, ready), <<>>)
    BY DEF Drive, At, Goto
  <1>2. TypeInv /\ LB \in Matrices /\ Mail /\ BlocksPending
        /\ pc \in [Procs -> {"domains", "loop", "stopped"}]
    BY DEF IInv, TypeInv
  <1>3. /\ Diagonal \in Seq(Blocks) /\ IsInjective(Diagonal)
        /\ \A b \in ToSet(Diagonal) : IsDiag(b)
    BY <1>2, DiagonalFacts
  <1>4. PICK bs : bs = Only(Diagonal, ready)
    OBVIOUS
  <1> HIDE DEF ready
  <1>5. bs \in Seq(Blocks) /\ IsInjective(bs) /\ ToSet(bs) = ToSet(Diagonal) \cap ready
    BY <1>3, <1>4, OnlyFacts
  <1>6. \A b \in ToSet(bs) : b \in Mine(p) /\ IsDiag(b) /\ remaining[b] = 0
    BY <1>3, <1>5 DEF ready
  <1>7. \A b \in ToSet(bs) : factored[b] = 0
    BY <1>1, <1>6 DEF IInv, Starting
  <1>8. Factor(p, bs, <<>>)
    BY <1>1, <1>4
  <1>9. ~Takes(p)
    <2>1. tasks \in [Procs -> Seq(Task)]
      BY <1>2 DEF Mail
    <2> SUFFICES ASSUME Takes(p) PROVE FALSE
      OBVIOUS
    <2>2. tasks[p] \in Seq(Task) /\ tasks[p] # <<>> /\ tasks[p] = Tail(tasks[p])
      BY <1>1, <2>1 DEF Takes
    <2> DEFINE m == Len(tasks[p])
               n == Len(Tail(tasks[p]))
    <2>3. n = m - 1 /\ m \in Nat
      BY <2>2
    <2>4. m = n
      BY <2>2, Zenon
    <2> HIDE DEF m, n
    <2> QED
      BY <2>3, <2>4
  <1>10. /\ Mail' /\ BlocksPending' /\ factored' \in [Blocks -> {0, 1}]
         /\ \A b \in Blocks : factored'[b] = 1 <=> factored[b] = 1 \/ b \in ToSet(bs)
         /\ \A q \in Procs, b \in Blocks :
              Arrived(q, b)' <=> Arrived(q, b) \/ Took(p, q, BlockTask(b))
         /\ \A q \in Procs, d \in Domains, b \in Blocks :
              Pend(q, UpdateTask(d, b))' <=>
                Pend(q, UpdateTask(d, b)) /\ ~Took(p, q, UpdateTask(d, b))
         /\ \A q \in Procs : Pend(q, Terminate)' => Pend(q, Terminate) \/ <<>> = TerminateAll
    BY <1>1, <1>2, <1>5, <1>7, <1>8, Factors
  <1>11. \A q, t : ~Took(p, q, t)
    BY <1>9 DEF Took
  <1>12. \A q \in Procs, b \in Blocks : Arrived(q, b)' <=> Arrived(q, b)
    BY <1>10, <1>11
  <1>13. Columns' = Columns /\ Blocks' = Blocks /\ Domains' = Domains
    BY <1>1, SameStructure
  <1>14. pc' \in [Procs -> {"domains", "loop", "stopped"}]
         /\ \A q \in Procs : pc'[q] = IF q = p THEN "loop" ELSE pc[q]
    BY <1>1, <1>2
  <1>15. TypeInv'
    BY <1>1, <1>2, <1>10, <1>13, <1>14 DEF TypeInv, ownVars
  <1>16. UpdatesPending'
    BY <1>1, <1>10, <1>13, SameDomains DEF IInv, UpdatesPending
  <1>17. DomainsAhead'
    BY <1>1, <1>13, SameDomains DEF IInv, DomainsAhead
  <1>18. CountRight'
    BY <1>1, NoneUpdated DEF IInv
  <1>19. ColumnsUsed'
    BY <1>1, <1>2, <1>12, SameArrivals DEF IInv
  <1>20. ListsRight'
    BY <1>1, <1>2, <1>12, SameLists DEF IInv
  <1>21. FactoredLate'
    <2>1. \A b \in Blocks : factored[b] = 1 => remaining'[b] = 0
      BY <1>1 DEF IInv, FactoredLate
    <2>2. FactoredLate
      BY DEF IInv
    <2> QED
      BY <1>1, <1>2, <1>6, <1>10, <1>12, <2>1, <2>2, FactoredNow
  <1>22. Starting'
    <2>1. Starting
      BY DEF IInv
    <2> QED
      BY <1>1, <1>6, <1>10, <1>14, <2>1, StillStarting
  <1>23. Ending'
    <2>1. <<>> # TerminateAll
      <3>1. P \in Nat \ {0}
        BY CholeskyAssumption
      <3>2. Len(TerminateAll) = P
        BY <3>1 DEF TerminateAll
      <3> QED
        BY <3>1, <3>2
    <2>2. <<LB.n - 1, LB.n - 1>> \in Blocks
      BY <1>2, Structure
    <2> QED
      BY <1>1, <1>10, <1>14, <2>1, <2>2 DEF IInv, Ending
  <1> QED
    BY <1>10, <1>15, <1>16, <1>17, <1>18, <1>19, <1>20, <1>21, <1>22, <1>23 DEF IInv

(* There is a process to stop.                                                *)
LEMMA SomebodyStops == TerminateAll # <<>>
  <1>1. P \in Nat \ {0}
    BY CholeskyAssumption
  <1>2. Len(TerminateAll) = P
    BY <1>1 DEF TerminateAll
  <1> QED
    BY <1>1, <1>2

(* Who was told to stop was told so after the last column.                    *)
LEMMA StillEnding ==
  ASSUME TypeInv, LB' = LB, Ending, pc' = pc,
         \A b \in Blocks : factored[b] = 1 => factored'[b] = 1,
         \A q \in Procs : Pend(q, Terminate)' => Pend(q, Terminate)
  PROVE  Ending'
  <1>1. <<LB.n - 1, LB.n - 1>> \in Blocks
    BY Structure DEF TypeInv
  <1> QED
    BY <1>1 DEF Ending

(* p takes a task and makes the update from to its blocks bs.                 *)
LEMMA Updates ==
  ASSUME IInv, LB' = LB, pc' = pc, NEW p \in Procs, pc[p] = "loop", out[p] = <<>>, Takes(p),
         NEW bs \in Seq(Blocks), IsInjective(bs), NEW from,
         \A b \in ToSet(bs) : b \in Mine(p) /\ from \in Contributions(b) /\ from \notin applied[b],
         Update(p, bs, from)
  PROVE  /\ Mail' /\ BlocksPending' /\ CountRight' /\ FactoredLate' /\ Starting' /\ Ending'
         /\ factored' \in [Blocks -> {0, 1}] /\ DOMAIN remaining' = Blocks /\ DOMAIN applied' = Blocks
         /\ \A b \in Blocks :
              applied'[b] = IF b \in ToSet(bs) THEN applied[b] \cup {from} ELSE applied[b]
         /\ \A q \in Procs, b \in Blocks :
              Arrived(q, b)' <=> Arrived(q, b) \/ Took(p, q, BlockTask(b))
         /\ \A q \in Procs, d \in Domains, b \in Blocks :
              Pend(q, UpdateTask(d, b))' <=>
                Pend(q, UpdateTask(d, b)) /\ ~Took(p, q, UpdateTask(d, b))
  <1> DEFINE ready == {b \in Blocks : remaining[b] = 1 /\ BlockReadyFO(p, b)}
             U == ToSet(bs)
  <1>1. /\ LB \in Matrices /\ TypeInv /\ Mail /\ BlocksPending /\ CountRight /\ FactoredLate
        /\ ListsRight /\ Starting /\ Ending /\ factored \in [Blocks -> {0, 1}]
    BY DEF IInv, TypeInv
  <1>2. Blocks' = Blocks /\ Columns' = Columns
    BY SameStructure
  <1>3. U \in SUBSET Blocks
    BY MemberFacts
  <1>4. PICK fs : fs = Only(bs, ready)
    OBVIOUS
  <1>5. Factor(p, fs, <<>>)
    BY <1>4 DEF Update
  <1>6. \A b \in Blocks :
          /\ remaining'[b] = IF b \in U THEN remaining[b] - 1 ELSE remaining[b]
          /\ applied'[b] = IF b \in U THEN applied[b] \cup {from} ELSE applied[b]
    BY DEF Update
  <1>7. DOMAIN remaining' = Blocks /\ DOMAIN applied' = Blocks
    BY DEF Update
  <1> HIDE DEF ready
  <1>8. fs \in Seq(Blocks) /\ IsInjective(fs) /\ ToSet(fs) = U \cap ready
    BY <1>4, OnlyFacts
  <1>9. \A b \in U : b \in Mine(p) /\ from \in Contributions(b) /\ from \notin applied[b]
    OBVIOUS
  <1> HIDE DEF U
  <1>10. \A b \in ToSet(fs) : b \in U /\ b \in Blocks /\ remaining[b] = 1 /\ BlockReadyFO(p, b)
    BY <1>8 DEF ready
  <1>11. \A b \in ToSet(fs) : factored[b] = 0
    BY <1>1, <1>10 DEF FactoredLate
  <1>12. /\ Mail' /\ BlocksPending' /\ factored' \in [Blocks -> {0, 1}]
         /\ \A b \in Blocks : factored'[b] = 1 <=> factored[b] = 1 \/ b \in ToSet(fs)
         /\ \A q \in Procs, b \in Blocks :
              Arrived(q, b)' <=> Arrived(q, b) \/ Took(p, q, BlockTask(b))
         /\ \A q \in Procs, d \in Domains, b \in Blocks :
              Pend(q, UpdateTask(d, b))' <=>
                Pend(q, UpdateTask(d, b)) /\ ~Took(p, q, UpdateTask(d, b))
         /\ \A q \in Procs : Pend(q, Terminate)' => Pend(q, Terminate) \/ <<>> = TerminateAll
    BY <1>1, <1>5, <1>8, <1>11, Factors
  <1>13. ASSUME NEW b \in U PROVE Counted(b)' /\ remaining[b] \in Nat \ {0}
    <2>1. b \in Blocks /\ Counted(b)
      BY <1>1, <1>3 DEF CountRight
    <2> QED
      BY <1>1, <1>6, <1>9, <2>1, OneMore
  <1>14. CountRight'
    <2> SUFFICES ASSUME NEW b \in Blocks PROVE Counted(b)'
      BY <1>2 DEF CountRight
    <2>1. CASE b \notin U
      <3>1. Contributions(b)' = Contributions(b)
        BY SameStructure
      <3>2. Counted(b) /\ remaining'[b] = remaining[b] /\ applied'[b] = applied[b]
        BY <1>1, <1>6, <2>1 DEF CountRight
      <3> QED
        BY <3>1, <3>2 DEF Counted
    <2> QED
      BY <1>13, <2>1
  <1>15. FactoredLate'
    <2>1. \A b \in Blocks : factored[b] = 1 => remaining'[b] = 0
      BY <1>1, <1>6, <1>13 DEF FactoredLate
    <2>2. ASSUME NEW b \in Blocks, b \in ToSet(fs)
          PROVE  remaining'[b] = 0 /\ (IsDiag(b) \/ Arrived(EmbeddedOwner(b), <<b[2], b[2]>>)')
      <3>1. remaining'[b] = 0
        <4>1. b \in U /\ remaining[b] = 1
          BY <1>10, <2>2
        <4>2. remaining'[b] = remaining[b] - 1
          BY <1>6, <4>1
        <4> QED
          BY <4>1, <4>2
      <3>2. EmbeddedOwner(b) = p
        BY <1>9, <1>10, <2>2 DEF Mine
      <3>3. b[2] \in Columns /\ <<b[2], b[2]>> \in Blocks
        BY <1>1, Structure
      <3>4. IsDiag(b) \/ Arrived(p, <<b[2], b[2]>>)
        BY <1>1, <1>10, <2>2, <3>3 DEF BlockReadyFO, ListsRight, ListRight
      <3> QED
        BY <1>12, <3>1, <3>2, <3>3, <3>4
    <2> QED
      BY <1>1, <1>12, <2>1, <2>2, FactoredNow
  <1>16. Starting'
    <2>1. \A b \in ToSet(fs) : b \in Mine(p)
      BY <1>9, <1>10
    <2>2. \A q \in Procs : pc'[q] = "domains" => pc[q] = "domains" /\ q # p
      OBVIOUS
    <2> QED
      BY <1>1, <1>12, <2>1, <2>2, StillStarting
  <1>17. Ending'
    BY <1>1, <1>12, SomebodyStops, StillEnding
  <1> QED
    BY <1>6, <1>7, <1>12, <1>14, <1>15, <1>16, <1>17 DEF U

(* What p has taken.                                                          *)
LEMMA TakenFacts ==
  ASSUME Mail, NEW p \in Procs, NEW kind, GetBlock(p, kind)
  PROVE  /\ Takes(p) /\ pc[p] = "loop" /\ out[p] = <<>>
         /\ Pend(p, Head(tasks[p]))
         /\ kind = "update" => \E d \in Domains, b \in Blocks : Head(tasks[p]) = UpdateTask(d, b)
         /\ kind = "block" => \E b \in Blocks : Head(tasks[p]) = BlockTask(b)
  <1>1. /\ Takes(p) /\ pc[p] = "loop" /\ out[p] = <<>>
        /\ tasks[p] # <<>> /\ Head(tasks[p]).kind = kind
    BY DEF GetBlock, At, Takes
  <1>2. tasks[p] \in Seq(Task)
    BY DEF Mail
  <1>3. Head(tasks[p]) \in Task /\ Head(tasks[p]) \in ToSet(tasks[p])
    BY <1>1, <1>2, TailFacts
  <1>4. \/ Head(tasks[p]) = Terminate
        \/ \E b \in Blocks : Head(tasks[p]) = BlockTask(b)
        \/ \E d \in Domains, b \in Blocks : Head(tasks[p]) = UpdateTask(d, b)
    BY <1>3 DEF Task
  <1> QED
    BY <1>1, <1>3, <1>4, TaskKinds DEF Pend

(* The update of a domain is made to its block, once.                         *)
LEMMA StepUpdate ==
  ASSUME IInv, NEW p \in Procs, HandleUpdate2FO(p)
  PROVE  IInv'
  <1>1. /\ LB' = LB /\ UNCHANGED ownVars /\ pc' = pc /\ domain' = domain
        /\ GetBlock(p, "update")
        /\ Update(p, <<Got(p)>>, <<"domain", Head(tasks[p]).domain>>)
    BY DEF HandleUpdate2FO
  <1>2. LB \in Matrices /\ TypeInv /\ Mail
    BY DEF IInv, TypeInv
  <1>3. /\ Takes(p) /\ pc[p] = "loop" /\ out[p] = <<>> /\ Pend(p, Head(tasks[p]))
        /\ \E d \in Domains, b \in Blocks : Head(tasks[p]) = UpdateTask(d, b)
    BY <1>1, <1>2, TakenFacts
  <1>4. PICK d \in Domains, b \in Blocks : Head(tasks[p]) = UpdateTask(d, b)
    BY <1>3
  <1>5. Got(p) = b /\ Head(tasks[p]).domain = d
    BY <1>4, TaskKinds DEF Got
  <1>6. PICK bs : bs = <<b>>
    OBVIOUS
  <1>7. PICK from : from = <<"domain", d>>
    OBVIOUS
  <1>8. bs \in Seq(Blocks) /\ IsInjective(bs) /\ ToSet(bs) = {b}
    BY <1>6 DEF IsInjective, ToSet
  <1>9. /\ {b[1], b[2]} \subseteq LB.domains[d].rows /\ EmbeddedOwner(b) = p
        /\ from \notin applied[b] /\ ~Undistributed(d)
    BY <1>3, <1>4, <1>7 DEF IInv, UpdatesPending
  <1>10. from \in Contributions(b) /\ b \in Mine(p)
    BY <1>2, <1>7, <1>9, ContributionFacts DEF Mine
  <1>11. Update(p, bs, from)
    BY <1>1, <1>5, <1>6, <1>7
  <1>12. /\ Mail' /\ BlocksPending' /\ CountRight' /\ FactoredLate' /\ Starting' /\ Ending'
         /\ factored' \in [Blocks -> {0, 1}] /\ DOMAIN remaining' = Blocks /\ DOMAIN applied' = Blocks
         /\ \A c \in Blocks :
              applied'[c] = IF c \in ToSet(bs) THEN applied[c] \cup {from} ELSE applied[c]
         /\ \A q \in Procs, c \in Blocks :
              Arrived(q, c)' <=> Arrived(q, c) \/ Took(p, q, BlockTask(c))
         /\ \A q \in Procs, e \in Domains, c \in Blocks :
              Pend(q, UpdateTask(e, c))' <=>
                Pend(q, UpdateTask(e, c)) /\ ~Took(p, q, UpdateTask(e, c))
    BY <1>1, <1>3, <1>8, <1>9, <1>10, <1>11, Updates
  <1>13. \A q \in Procs, c \in Blocks : Arrived(q, c)' <=> Arrived(q, c)
    BY <1>4, <1>12, TaskFacts DEF Took
  <1>14. Columns' = Columns /\ Blocks' = Blocks /\ Domains' = Domains
    BY <1>1, SameStructure
  <1>15. TypeInv'
    BY <1>1, <1>2, <1>12, <1>14 DEF TypeInv, ownVars
  <1>16. UpdatesPending'
    <2> SUFFICES ASSUME NEW q \in Procs, NEW e \in Domains, NEW c \in Blocks, Pend(q, UpdateTask(e, c))'
                 PROVE  /\ {c[1], c[2]} \subseteq LB.domains[e].rows
                        /\ EmbeddedOwner(c) = q
                        /\ <<"domain", e>> \notin applied'[c]
                        /\ ~Undistributed(e)'
      BY <1>1, <1>14 DEF UpdatesPending
    <2>1. Pend(q, UpdateTask(e, c)) /\ ~Took(p, q, UpdateTask(e, c))
      BY <1>12
    <2>2. /\ {c[1], c[2]} \subseteq LB.domains[e].rows /\ EmbeddedOwner(c) = q
          /\ <<"domain", e>> \notin applied[c] /\ ~Undistributed(e)
      BY <2>1 DEF IInv, UpdatesPending
    <2>3. ~(c = b /\ e = d)
      BY <1>3, <1>4, <1>9, <2>1, <2>2 DEF Took
    <2>4. <<"domain", e>> \notin applied'[c]
      BY <1>7, <1>8, <1>12, <2>2, <2>3
    <2> QED
      BY <1>1, <2>2, <2>4, SameDomains
  <1>17. DomainsAhead'
    <2>1. \A e : Undistributed(e)' <=> Undistributed(e)
      BY <1>1, SameDomains
    <2>2. \A e \in Domains, c \in Blocks : Undistributed(e) => <<"domain", e>> \notin applied'[c]
      BY <1>7, <1>9, <1>12 DEF IInv, DomainsAhead
    <2> QED
      BY <1>14, <2>1, <2>2 DEF DomainsAhead
  <1>18. ColumnsUsed'
    <2>1. \A c \in Blocks, k \in Columns : <<"column", k>> \in applied'[c] <=> <<"column", k>> \in applied[c]
      BY <1>7, <1>12
    <2>2. \A q \in Procs, k \in Columns : \A i \in LB.below[k] :
           Arrived(q, <<i, k>>)' <=> Arrived(q, <<i, k>>)
      BY <1>2, <1>13, Structure
    <2>3. ColumnsUsed
      BY DEF IInv
    <2> QED
      BY <1>1, <1>2, <2>1, <2>2, <2>3, KeepsColumns
  <1>19. ListsRight'
    BY <1>1, <1>2, <1>13, SameLists DEF IInv
  <1> QED
    BY <1>12, <1>15, <1>16, <1>17, <1>18, <1>19 DEF IInv

(* A block arrives, and the lists of its column are right again.              *)
LEMMA ListReceived ==
  ASSUME TypeInv, LB' = LB, ListsRight,
         NEW p \in Procs, NEW k \in Columns, NEW b \in Blocks, b[2] = k,
         p \in ToSet(DoneTo(b)), ~Arrived(p, b),
         \A q \in Procs, c \in Blocks : Arrived(q, c)' <=> Arrived(q, c) \/ (q = p /\ c = b),
         NEW all \in Seq(LB.below[k]), IsInjective(all),
         ToSet(all) = ToSet(AllBlocks[p][k]) \cup {i \in LB.below[k] : b = <<i, k>>},
         NEW diag, diag => DiagBlock[p][k] \/ b = <<k, k>>,
         Received(p, k, all, diag)
  PROVE  /\ ListsRight' /\ NReceived[p][k] \in Nat \ {0}
         /\ DOMAIN NReceived' = Procs /\ DOMAIN AllBlocks' = Procs /\ DOMAIN DiagBlock' = Procs
         /\ \A q \in Procs : /\ DOMAIN NReceived'[q] = Columns
                             /\ DOMAIN AllBlocks'[q] = Columns
                             /\ DOMAIN DiagBlock'[q] = Columns
  <1> DEFINE A == Awaited(p, k)
             last == NReceived[p][k] = 1
  <1>1. /\ LB \in Matrices /\ Blocks' = Blocks /\ Columns' = Columns
        /\ DOMAIN NReceived = Procs /\ DOMAIN AllBlocks = Procs /\ DOMAIN DiagBlock = Procs
        /\ \A q \in Procs : /\ DOMAIN NReceived[q] = Columns
                            /\ DOMAIN AllBlocks[q] = Columns
                            /\ DOMAIN DiagBlock[q] = Columns
    BY SameStructure DEF TypeInv
  <1>2. /\ NReceived' = [NReceived EXCEPT ![p][k] = @ - 1]
        /\ AllBlocks' = [AllBlocks EXCEPT ![p][k] = IF last THEN <<>> ELSE all]
        /\ DiagBlock' = [DiagBlock EXCEPT ![p][k] = diag /\ ~last]
    BY DEF Received
  <1>3. /\ DOMAIN NReceived' = Procs
        /\ \A q \in Procs : DOMAIN NReceived'[q] = Columns
        /\ \A q \in Procs, c \in Columns : NReceived'[q][c] =
             IF q = p /\ c = k THEN NReceived[p][k] - 1 ELSE NReceived[q][c]
    BY <1>1, <1>2
  <1> HIDE DEF last
  <1>4. /\ DOMAIN AllBlocks' = Procs
        /\ \A q \in Procs : DOMAIN AllBlocks'[q] = Columns
        /\ \A q \in Procs, c \in Columns : AllBlocks'[q][c] =
             IF q = p /\ c = k THEN IF last THEN <<>> ELSE all ELSE AllBlocks[q][c]
    BY <1>1, <1>2
  <1>5. /\ DOMAIN DiagBlock' = Procs
        /\ \A q \in Procs : DOMAIN DiagBlock'[q] = Columns
        /\ \A q \in Procs, c \in Columns : DiagBlock'[q][c] =
             IF q = p /\ c = k THEN diag /\ ~last ELSE DiagBlock[q][c]
    BY <1>1, <1>2
  <1>6. ListRight(p, k)
    BY DEF ListsRight
  <1>7. IsFiniteSet(A) /\ b \in A /\ NReceived[p][k] = Cardinality(A)
    <2>1. A \in SUBSET Blocks /\ IsFiniteSet(Blocks) /\ b \in A
      BY <1>1, Structure DEF Awaited
    <2>2. NReceived[p][k] = Cardinality(A)
      BY <1>6 DEF ListRight
    <2> HIDE DEF A
    <2>3. IsFiniteSet(A)
      BY <2>1, FS_Subset
    <2> QED
      BY <2>1, <2>2, <2>3
  <1>8. Awaited(p, k)' = A \ {b}
    BY <1>1 DEF Awaited
  <1> HIDE DEF A
  <1>9. NReceived[p][k] \in Nat \ {0} /\ Cardinality(A \ {b}) = NReceived[p][k] - 1
    <2>1. Cardinality(A) \in Nat
      BY <1>7, FS_CardinalityType
    <2>2. Cardinality(A \ {b}) = Cardinality(A) - 1
      BY <1>7, FS_RemoveElement
    <2>3. Cardinality(A) # 0
      BY <1>7, FS_EmptySet
    <2> QED
      BY <1>7, <2>1, <2>2, <2>3
  <1>10. ListRight(p, k)'
    <2>1. NReceived'[p][k] = Cardinality(Awaited(p, k)')
      BY <1>3, <1>8, <1>9
    <2>2. AllBlocks'[p][k] \in Seq(LB.below[k]) /\ IsInjective(AllBlocks'[p][k])
      <3> DEFINE none == <<>>
      <3>1. none \in Seq(LB.below[k]) /\ IsInjective(none)
        BY DEF IsInjective
      <3>2. AllBlocks'[p][k] = IF last THEN none ELSE all
        BY <1>4
      <3> HIDE DEF none
      <3> QED
        BY <3>1, <3>2
    <2>3. \A i \in LB.below[k] : <<i, k>> \in Blocks
      BY <1>1, Structure
    <2>4. ASSUME NEW i \in LB.below[k], NReceived'[p][k] > 0, Arrived(p, <<i, k>>)'
          PROVE  i \in ToSet(AllBlocks'[p][k])
      <3>1. ~last
        BY <1>3, <1>9, <2>4 DEF last
      <3>2. AllBlocks'[p][k] = all
        BY <1>4, <3>1
      <3>3. Arrived(p, <<i, k>>) \/ <<i, k>> = b
        BY <2>3, <2>4
      <3>4. Arrived(p, <<i, k>>) => i \in ToSet(AllBlocks[p][k])
        BY <1>6, <1>9 DEF ListRight
      <3> QED
        BY <3>2, <3>3, <3>4
    <2>5. ASSUME NEW i \in ToSet(AllBlocks'[p][k]) PROVE Arrived(p, <<i, k>>)'
      <3>1. CASE last
        <4>1. ToSet(AllBlocks'[p][k]) = {}
          BY <1>4, <3>1 DEF ToSet
        <4> QED
          BY <2>5, <4>1
      <3>2. CASE ~last
        <4>1. i \in ToSet(all)
          BY <1>4, <2>5, <3>2
        <4>2. i \in LB.below[k] /\ (Arrived(p, <<i, k>>) \/ <<i, k>> = b)
          BY <4>1, <1>6, MemberFacts DEF ListRight
        <4> QED
          BY <2>3, <4>2
      <3> QED
        BY <3>1, <3>2
    <2>6. DiagBlock'[p][k] => Arrived(p, <<k, k>>)'
      <3>1. <<k, k>> \in Blocks
        BY <1>1, Structure
      <3> QED
        BY <1>5, <1>6, <3>1 DEF ListRight
    <2> QED
      BY <2>1, <2>2, <2>4, <2>5, <2>6 DEF ListRight
  <1>11. ListsRight'
    <2> SUFFICES ASSUME NEW q \in Procs, NEW c \in Columns PROVE ListRight(q, c)'
      BY <1>1 DEF ListsRight
    <2>1. CASE q = p /\ c = k
      BY <1>10, <2>1
    <2>2. CASE ~(q = p /\ c = k)
      <3>1. \A d \in Blocks : d[2] = c => (Arrived(q, d)' <=> Arrived(q, d))
        BY <2>2
      <3>2. /\ NReceived'[q][c] = NReceived[q][c] /\ AllBlocks'[q][c] = AllBlocks[q][c]
            /\ DiagBlock'[q][c] = DiagBlock[q][c] /\ ListRight(q, c)
        BY <1>3, <1>4, <1>5, <2>2 DEF ListsRight
      <3> QED
        BY <1>1, <3>1, <3>2, KeepsList
    <2> QED
      BY <2>1, <2>2
  <1> QED
    BY <1>3, <1>4, <1>5, <1>9, <1>11

(* The blocks that waited for their diagonal block were not factored before.  *)
LEMMA StepDiagReceived ==
  ASSUME IInv, NEW p \in Procs, DiagReceived(p)
  PROVE  IInv'
  <1>1. /\ LB' = LB /\ remaining' = remaining /\ applied' = applied /\ pc' = pc /\ domain' = domain
        /\ GetBlock(p, "block") /\ IsDiag(Got(p))
        /\ Received(p, Got(p)[2], AllBlocks[p][Got(p)[2]], TRUE)
        /\ Factor(p, Only(Subdiagonal(Got(p)[2]), {b \in Mine(p) : remaining[b] = 0}),
                  IF IsLast(Got(p)[2]) /\ EmbeddedOwner(Got(p)) = p THEN TerminateAll ELSE <<>>)
    BY DEF DiagReceived
  <1>2. LB \in Matrices /\ TypeInv /\ Mail /\ BlocksPending /\ FactoredLate /\ ListsRight
    BY DEF IInv, TypeInv
  <1>3. /\ Takes(p) /\ pc[p] = "loop" /\ out[p] = <<>> /\ Pend(p, Head(tasks[p]))
        /\ \E b \in Blocks : Head(tasks[p]) = BlockTask(b)
    BY <1>1, <1>2, TakenFacts
  <1>4. PICK b \in Blocks : Head(tasks[p]) = BlockTask(b)
    BY <1>3
  <1>5. Got(p) = b
    BY <1>4, TaskKinds DEF Got
  <1>6. PICK k : k = b[2]
    OBVIOUS
  <1>7. k \in Columns /\ b = <<k, k>> /\ k \in Nat
    BY <1>1, <1>2, <1>5, <1>6, Structure DEF IsDiag
  <1>8. factored[b] = 1 /\ p \in ToSet(DoneTo(b)) /\ ~Arrived(p, b)
    BY <1>3, <1>4 DEF IInv, BlocksPending, Arrived
  <1> DEFINE ready == {c \in Mine(p) : remaining[c] = 0}
  <1>9. PICK rest : rest = IF IsLast(k) /\ EmbeddedOwner(b) = p THEN TerminateAll ELSE <<>>
    OBVIOUS
  <1>10. PICK bs : bs = Only(Subdiagonal(k), ready)
    OBVIOUS
  <1>11. Factor(p, bs, rest) /\ Received(p, k, AllBlocks[p][k], TRUE)
    BY <1>1, <1>5, <1>6, <1>9, <1>10
  <1>12. /\ Subdiagonal(k) \in Seq(Blocks) /\ IsInjective(Subdiagonal(k))
         /\ \A c \in ToSet(Subdiagonal(k)) : c[2] = k /\ ~IsDiag(c)
    BY <1>2, <1>7, SubdiagonalFacts
  <1> HIDE DEF ready
  <1>13. bs \in Seq(Blocks) /\ IsInjective(bs) /\ ToSet(bs) = ToSet(Subdiagonal(k)) \cap ready
    BY <1>10, <1>12, OnlyFacts
  <1>14. \A c \in ToSet(bs) : c \in Mine(p) /\ c \in Blocks /\ EmbeddedOwner(c) = p
                              /\ c[2] = k /\ ~IsDiag(c) /\ remaining[c] = 0
    BY <1>12, <1>13 DEF ready, Mine
  <1>15. \A c \in ToSet(bs) : factored[c] = 0
    <2> SUFFICES ASSUME NEW c \in ToSet(bs), factored[c] # 0 PROVE FALSE
      OBVIOUS
    <2>1. factored[c] = 1
      BY <1>2, <1>14 DEF TypeInv
    <2>2. Arrived(p, <<k, k>>)
      BY <1>2, <1>14, <2>1 DEF FactoredLate
    <2> QED
      BY <1>7, <1>8, <2>2
  <1>16. rest = <<>> \/ rest = TerminateAll
    BY <1>9
  <1>17. /\ Mail' /\ BlocksPending' /\ factored' \in [Blocks -> {0, 1}]
         /\ \A c \in Blocks : factored'[c] = 1 <=> factored[c] = 1 \/ c \in ToSet(bs)
         /\ \A q \in Procs, c \in Blocks :
              Arrived(q, c)' <=> Arrived(q, c) \/ Took(p, q, BlockTask(c))
         /\ \A q \in Procs, d \in Domains, c \in Blocks :
              Pend(q, UpdateTask(d, c))' <=>
                Pend(q, UpdateTask(d, c)) /\ ~Took(p, q, UpdateTask(d, c))
         /\ \A q \in Procs : Pend(q, Terminate)' => Pend(q, Terminate) \/ rest = TerminateAll
    BY <1>1, <1>2, <1>3, <1>11, <1>13, <1>15, <1>16, Factors
  <1>18. \A q \in Procs, c \in Blocks : Arrived(q, c)' <=> Arrived(q, c) \/ (q = p /\ c = b)
    BY <1>3, <1>4, <1>17, SameBlock DEF Took
  <1>19. \A q \in Procs, d \in Domains, c \in Blocks :
           Pend(q, UpdateTask(d, c))' <=> Pend(q, UpdateTask(d, c))
    BY <1>4, <1>17, TaskFacts DEF Took
  <1>20. Columns' = Columns /\ Blocks' = Blocks /\ Domains' = Domains
    BY <1>1, SameStructure
  <1>21. /\ ListsRight'
         /\ DOMAIN NReceived' = Procs /\ DOMAIN AllBlocks' = Procs /\ DOMAIN DiagBlock' = Procs
         /\ \A q \in Procs : /\ DOMAIN NReceived'[q] = Columns
                             /\ DOMAIN AllBlocks'[q] = Columns
                             /\ DOMAIN DiagBlock'[q] = Columns
    <2> DEFINE all == AllBlocks[p][k]
    <2>1. all \in Seq(LB.below[k]) /\ IsInjective(all)
      BY <1>2, <1>7 DEF ListsRight, ListRight
    <2>2. {i \in LB.below[k] : b = <<i, k>>} = {}
      BY <1>2, <1>7, Structure
    <2>3. ToSet(all) = ToSet(AllBlocks[p][k]) \cup {i \in LB.below[k] : b = <<i, k>>}
      BY <2>2
    <2>4. Received(p, k, all, TRUE) /\ b[2] = k
      BY <1>6, <1>11
    <2> HIDE DEF all
    <2> QED
      BY <1>1, <1>2, <1>7, <1>8, <1>18, <2>1, <2>3, <2>4, ListReceived
  <1>22. TypeInv'
    BY <1>1, <1>2, <1>17, <1>20, <1>21 DEF TypeInv
  <1>23. UpdatesPending'
    BY <1>1, <1>19, <1>20, SameDomains DEF IInv, UpdatesPending
  <1>24. DomainsAhead'
    BY <1>1, <1>20, SameDomains DEF IInv, DomainsAhead
  <1>25. CountRight'
    BY <1>1, NoneUpdated DEF IInv
  <1>26. ColumnsUsed'
    <2>1. \A q \in Procs, l \in Columns : \A i \in LB.below[l] :
            Arrived(q, <<i, l>>)' <=> Arrived(q, <<i, l>>)
      <3> TAKE q \in Procs, l \in Columns
      <3> TAKE i \in LB.below[l]
      <3>1. <<i, l>> \in Blocks /\ i > l /\ l \in Nat /\ i \in Nat
        BY <1>2, Structure
      <3>2. <<i, l>> # b
        BY <1>7, <3>1
      <3> QED
        BY <1>18, <3>1, <3>2
    <2>2. ColumnsUsed
      BY DEF IInv
    <2> QED
      BY <1>1, <1>2, <2>1, <2>2, KeepsColumns
  <1>27. FactoredLate'
    <2>1. \A c \in Blocks : factored[c] = 1 => remaining'[c] = 0
      BY <1>1, <1>2 DEF FactoredLate
    <2>2. ASSUME NEW c \in Blocks, c \in ToSet(bs)
          PROVE  remaining'[c] = 0 /\ (IsDiag(c) \/ Arrived(EmbeddedOwner(c), <<c[2], c[2]>>)')
      <3>1. remaining'[c] = 0 /\ EmbeddedOwner(c) = p /\ c[2] = k
        BY <1>1, <1>14, <2>2
      <3>2. Arrived(p, <<k, k>>)'
        BY <1>7, <1>18
      <3> QED
        BY <3>1, <3>2
    <2> QED
      BY <1>1, <1>2, <1>17, <1>18, <2>1, <2>2, FactoredNow
  <1>28. Starting'
    <2>1. Starting /\ \A q \in Procs : pc'[q] = "domains" => pc[q] = "domains" /\ q # p
      BY <1>1, <1>3 DEF IInv
    <2> QED
      BY <1>1, <1>14, <1>17, <2>1, StillStarting
  <1>29. Ending'
    <2>1. <<LB.n - 1, LB.n - 1>> \in Blocks
      BY <1>2, Structure
    <2>2. rest = TerminateAll => factored[<<LB.n - 1, LB.n - 1>>] = 1
      BY <1>7, <1>8, <1>9, SomebodyStops DEF IsLast
    <2> QED
      BY <1>1, <1>17, <2>1, <2>2 DEF IInv, Ending
  <1> QED
    BY <1>17, <1>21, <1>22, <1>23, <1>24, <1>25, <1>26, <1>27, <1>28, <1>29 DEF IInv

(* The pairs with the new block are the ones of which p has both only now.    *)
LEMMA StepBlockReceived ==
  ASSUME IInv, NEW p \in Procs, BlockReceived(p)
  PROVE  IInv'
  <1>1. LB \in Matrices /\ TypeInv /\ Mail /\ BlocksPending /\ ListsRight /\ ColumnsUsed
    BY DEF IInv, TypeInv
  <1>2. GetBlock(p, "block") /\ ~IsDiag(Got(p)) /\ LB' = LB /\ pc' = pc /\ domain' = domain
    BY DEF BlockReceived
  <1>3. /\ Takes(p) /\ pc[p] = "loop" /\ out[p] = <<>> /\ Pend(p, Head(tasks[p]))
        /\ \E b \in Blocks : Head(tasks[p]) = BlockTask(b)
    BY <1>1, <1>2, TakenFacts
  <1>4. PICK b \in Blocks : Head(tasks[p]) = BlockTask(b)
    BY <1>3
  <1>5. Got(p) = b
    BY <1>4, TaskKinds DEF Got
  <1>6. PICK i, k : i = b[1] /\ k = b[2]
    OBVIOUS
  <1>7. k \in Columns /\ i \in LB.below[k] /\ b = <<i, k>> /\ i > k /\ k \in Nat
    BY <1>1, <1>2, <1>5, <1>6, Structure DEF IsDiag
  <1>8. factored[b] = 1 /\ p \in ToSet(DoneTo(b)) /\ ~Arrived(p, b)
    BY <1>3, <1>4 DEF IInv, BlocksPending, Arrived
  <1>9. PICK all : all = AllBlocks[p][k]
    OBVIOUS
  <1>10. /\ all \in Seq(LB.below[k]) /\ IsInjective(all)
         /\ \A h \in ToSet(all) : Arrived(p, <<h, k>>)
         /\ \A h \in LB.below[k] : NReceived[p][k] > 0 /\ Arrived(p, <<h, k>>) => h \in ToSet(all)
    BY <1>1, <1>7, <1>9 DEF ListsRight, ListRight
  <1>11. i \notin ToSet(all)
    BY <1>7, <1>8, <1>10
  <1>12. PICK pairs : pairs = [x \in DOMAIN Append(all, i) |-> Pair(i, Append(all, i)[x])]
    OBVIOUS
  <1>13. /\ pairs \in Seq(Blocks) /\ IsInjective(pairs)
         /\ ToSet(pairs) = {Pair(i, j) : j \in ToSet(all) \cup {i}}
    BY <1>1, <1>7, <1>10, <1>11, <1>12, PairsFacts
  <1>14. PICK bs : bs = Only(pairs, Mine(p))
    OBVIOUS
  <1>15. bs \in Seq(Blocks) /\ IsInjective(bs) /\ ToSet(bs) = ToSet(pairs) \cap Mine(p)
    BY <1>13, <1>14, OnlyFacts
  <1>16. PICK from : from = <<"column", k>>
    OBVIOUS
  <1>17. /\ Received(p, k, <<i>> \o all, DiagBlock[p][k])
         /\ Update(p, bs, from)
    BY <1>5, <1>6, <1>9, <1>12, <1>14, <1>16 DEF BlockReceived
  <1>18. ASSUME NEW c \in ToSet(bs)
         PROVE  c \in Mine(p) /\ from \in Contributions(c) /\ from \notin applied[c]
    <2>1. c \in Mine(p) /\ c \in Blocks /\ EmbeddedOwner(c) = p
      BY <1>15 DEF Mine
    <2>2. PICK j \in ToSet(all) \cup {i} : c = Pair(i, j)
      BY <1>13, <1>15
    <2>3. j \in LB.below[k] /\ LB.below[k] \subseteq Nat
      BY <1>1, <1>7, <1>10, Structure, MemberFacts
    <2>4. \E h, l \in LB.below[k] : h >= l /\ c = <<h, l>> /\ (h = i \/ l = i)
      BY <1>7, <2>2, <2>3 DEF Pair
    <2>5. PICK h \in LB.below[k], l \in LB.below[k] : h >= l /\ c = <<h, l>> /\ (h = i \/ l = i)
      BY <2>4
    <2>6. from \in Contributions(c)
      BY <1>1, <1>7, <1>16, <2>1, <2>5, ContributionFacts
    <2>7. ~(Arrived(p, <<h, k>>) /\ Arrived(p, <<l, k>>))
      BY <1>7, <1>8, <2>5
    <2>8. from \notin applied[c]
      BY <1>1, <1>7, <1>16, <2>1, <2>5, <2>7 DEF ColumnsUsed
    <2> QED
      BY <2>1, <2>6, <2>8
  <1>19. /\ Mail' /\ BlocksPending' /\ CountRight' /\ FactoredLate' /\ Starting' /\ Ending'
         /\ factored' \in [Blocks -> {0, 1}] /\ DOMAIN remaining' = Blocks /\ DOMAIN applied' = Blocks
         /\ \A c \in Blocks :
              applied'[c] = IF c \in ToSet(bs) THEN applied[c] \cup {from} ELSE applied[c]
         /\ \A q \in Procs, c \in Blocks :
              Arrived(q, c)' <=> Arrived(q, c) \/ Took(p, q, BlockTask(c))
         /\ \A q \in Procs, d \in Domains, c \in Blocks :
              Pend(q, UpdateTask(d, c))' <=>
                Pend(q, UpdateTask(d, c)) /\ ~Took(p, q, UpdateTask(d, c))
    BY <1>2, <1>3, <1>15, <1>17, <1>18, Updates
  <1>20. \A q \in Procs, c \in Blocks : Arrived(q, c)' <=> Arrived(q, c) \/ (q = p /\ c = b)
    BY <1>3, <1>4, <1>19, SameBlock DEF Took
  <1>21. \A q \in Procs, d \in Domains, c \in Blocks :
           Pend(q, UpdateTask(d, c))' <=> Pend(q, UpdateTask(d, c))
    BY <1>4, <1>19, TaskFacts DEF Took
  <1>22. Columns' = Columns /\ Blocks' = Blocks /\ Domains' = Domains
    BY <1>2, SameStructure
  <1>23. /\ ListsRight' /\ NReceived[p][k] \in Nat \ {0}
         /\ DOMAIN NReceived' = Procs /\ DOMAIN AllBlocks' = Procs /\ DOMAIN DiagBlock' = Procs
         /\ \A q \in Procs : /\ DOMAIN NReceived'[q] = Columns
                             /\ DOMAIN AllBlocks'[q] = Columns
                             /\ DOMAIN DiagBlock'[q] = Columns
    <2>1. PICK one : one = <<i>>
      OBVIOUS
    <2>2. one \in Seq(LB.below[k]) /\ IsInjective(one) /\ ToSet(one) = {i}
      <3>1. \A S : i \in S => one \in Seq(S)
        BY <2>1
      <3>2. IsInjective(one) /\ ToSet(one) = {i}
        BY <2>1 DEF IsInjective, ToSet
      <3> QED
        BY <1>7, <3>1, <3>2
    <2>3. PICK more : more = one \o all
      OBVIOUS
    <2>4. ToSet(one) \cap ToSet(all) = {}
      BY <1>11, <2>2
    <2>5. more \in Seq(LB.below[k]) /\ IsInjective(more) /\ ToSet(more) = {i} \cup ToSet(all)
      BY <1>10, <2>2, <2>3, <2>4, ConcatFacts
    <2>6. {h \in LB.below[k] : b = <<h, k>>} = {i}
      BY <1>7
    <2>7. ToSet(more) = ToSet(AllBlocks[p][k]) \cup {h \in LB.below[k] : b = <<h, k>>}
      BY <1>9, <2>5, <2>6
    <2>8. PICK diag : diag = DiagBlock[p][k]
      OBVIOUS
    <2>9. Received(p, k, more, diag) /\ b[2] = k /\ (diag => DiagBlock[p][k] \/ b = <<k, k>>)
      BY <1>6, <1>17, <2>1, <2>3, <2>8
    <2> QED
      BY <1>1, <1>2, <1>7, <1>8, <1>20, <2>5, <2>7, <2>9, ListReceived
  <1>24. TypeInv'
    BY <1>1, <1>2, <1>19, <1>22, <1>23 DEF TypeInv
  <1>25. UpdatesPending'
    <2>1. \A d \in Domains, c \in Blocks : <<"domain", d>> \in applied'[c] <=> <<"domain", d>> \in applied[c]
      BY <1>16, <1>19
    <2> QED
      BY <1>2, <1>21, <1>22, <2>1, SameDomains DEF IInv, UpdatesPending
  <1>26. DomainsAhead'
    <2>1. \A d \in Domains, c \in Blocks : <<"domain", d>> \in applied'[c] <=> <<"domain", d>> \in applied[c]
      BY <1>16, <1>19
    <2> QED
      BY <1>2, <1>22, <2>1, SameDomains DEF IInv, DomainsAhead
  <1>27. ColumnsUsed'
    <2> SUFFICES ASSUME NEW m \in Columns, NEW j \in LB.below[m], NEW l \in LB.below[m], j >= l
                 PROVE  <<"column", m>> \in applied'[<<j, l>>] <=>
                          /\ Arrived(EmbeddedOwner(<<j, l>>), <<j, m>>)'
                          /\ Arrived(EmbeddedOwner(<<j, l>>), <<l, m>>)'
      BY <1>2, <1>22 DEF ColumnsUsed
    <2>1. PICK c : c = <<j, l>>
      OBVIOUS
    <2>2. PICK q : q = EmbeddedOwner(c)
      OBVIOUS
    <2>3. c \in Blocks /\ q \in Procs /\ <<j, m>> \in Blocks /\ <<l, m>> \in Blocks
      <3>1. Pair(j, l) \in Blocks /\ LB.below[m] \subseteq Nat
        BY <1>1, Structure
      <3>2. c \in Blocks
        BY <2>1, <3>1 DEF Pair
      <3> QED
        BY <1>1, <2>2, <3>2, Structure, OwnerIsSent
    <2>4. <<"column", m>> \in applied[c] <=> Arrived(q, <<j, m>>) /\ Arrived(q, <<l, m>>)
      BY <1>1, <2>1, <2>2 DEF ColumnsUsed
    <2>5. CASE q = p /\ m = k
      <3>1. ToSet(all) \subseteq LB.below[k]
        BY <1>10, MemberFacts
      <3>2. c \in ToSet(pairs) <=> (j = i /\ l \in ToSet(all) \cup {i}) \/ (l = i /\ j \in ToSet(all))
        <4>1. j \in LB.below[k] /\ l \in LB.below[k]
          BY <2>5
        <4>2. (\E h \in ToSet(all) \cup {i} : c = Pair(i, h)) <=>
                (j = i /\ l \in ToSet(all) \cup {i}) \/ (l = i /\ j \in ToSet(all))
          <5>1. LB.below[k] \subseteq Nat
            BY <1>1, <1>7, Structure
          <5>2. i \in Nat /\ j \in Nat /\ l \in Nat /\ \A h \in ToSet(all) : h \in Nat
            BY <1>7, <3>1, <4>1, <5>1
          <5>3. \A h \in ToSet(all) \cup {i} :
                  Pair(i, h) = <<j, l>> <=> (j = i /\ l = h) \/ (l = i /\ j = h)
            BY <5>2 DEF Pair
          <5> QED
            BY <2>1, <5>3
        <4> QED
          BY <1>13, <4>2
      <3>3. c \in ToSet(bs) <=> c \in ToSet(pairs)
        BY <1>15, <2>2, <2>3, <2>5 DEF Mine
      <3>4. /\ j \in ToSet(all) <=> Arrived(p, <<j, k>>)
            /\ l \in ToSet(all) <=> Arrived(p, <<l, k>>)
        BY <1>10, <1>23, <2>5
      <3>5. <<"column", m>> \in applied'[c] <=> <<"column", m>> \in applied[c] \/ c \in ToSet(bs)
        BY <1>16, <1>19, <2>3, <2>5
      <3>6. /\ Arrived(p, <<j, k>>)' <=> Arrived(p, <<j, k>>) \/ j = i
            /\ Arrived(p, <<l, k>>)' <=> Arrived(p, <<l, k>>) \/ l = i
        BY <1>7, <1>20, <2>3, <2>5
      <3> QED
        BY <2>1, <2>2, <2>4, <2>5, <3>2, <3>3, <3>4, <3>5, <3>6
    <2>6. CASE q # p \/ m # k
      <3>1. <<"column", m>> \in applied'[c] <=> <<"column", m>> \in applied[c]
        <4>1. CASE q # p
          <5>1. c \notin ToSet(bs)
            BY <1>15, <2>2, <4>1 DEF Mine
          <5> QED
            BY <1>19, <2>3, <5>1
        <4>2. CASE m # k
          BY <1>16, <1>19, <2>3, <4>2
        <4> QED
          BY <2>6, <4>1, <4>2
      <3>2. /\ Arrived(q, <<j, m>>)' <=> Arrived(q, <<j, m>>)
            /\ Arrived(q, <<l, m>>)' <=> Arrived(q, <<l, m>>)
        BY <1>7, <1>20, <2>3, <2>6
      <3> QED
        BY <2>1, <2>2, <2>4, <3>1, <3>2
    <2> QED
      BY <2>5, <2>6
  <1> QED
    BY <1>19, <1>23, <1>24, <1>25, <1>26, <1>27 DEF IInv

(***************************************************************************)
(* The theorems.                                                           *)
(***************************************************************************)
LEMMA Stutter == IInv /\ UNCHANGED vars => IInv'
  <1> SUFFICES ASSUME IInv, UNCHANGED vars PROVE IInv'
    OBVIOUS
  <1>1. /\ LB' = LB /\ remaining' = remaining /\ applied' = applied /\ factored' = factored
        /\ UNCHANGED ownVars /\ pc' = pc /\ domain' = domain /\ tasks' = tasks /\ out' = out
    BY DEF vars, blockVars
  <1>2. LB \in Matrices
    BY DEF IInv, TypeInv
  <1>3. \A q, t : Pend(q, t)' <=> Pend(q, t)
    BY <1>1 DEF Pend
  <1>4. BlocksPending' /\ \A q \in Procs, b \in Blocks : Arrived(q, b)' <=> Arrived(q, b)
    BY <1>1, <1>3, NoneFactored DEF IInv
  <1>5. Columns' = Columns /\ Blocks' = Blocks /\ Domains' = Domains /\ Task' = Task
        /\ Message' = Message /\ \A q : Mine(q)' = Mine(q)
    BY <1>1, SameStructure
  <1>6. Mail'
    BY <1>1, <1>5 DEF IInv, Mail, Single
  <1>7. TypeInv'
    BY <1>1, <1>5 DEF IInv, TypeInv, ownVars
  <1>8. UpdatesPending'
    BY <1>1, <1>3, <1>5, SameDomains DEF IInv, UpdatesPending
  <1>9. DomainsAhead'
    BY <1>1, <1>5, SameDomains DEF IInv, DomainsAhead
  <1>10. CountRight'
    BY <1>1, NoneUpdated DEF IInv
  <1>11. ColumnsUsed'
    BY <1>1, <1>2, <1>4, SameArrivals DEF IInv
  <1>12. ListsRight'
    BY <1>1, <1>2, <1>4, SameLists DEF IInv
  <1>13. FactoredLate'
    BY <1>1, <1>4, StaysFactored DEF IInv
  <1>14. Starting' /\ Ending'
    BY <1>1, <1>3, <1>5 DEF IInv, Starting, Ending
  <1> QED
    BY <1>4, <1>6, <1>7, <1>8, <1>9, <1>10, <1>11, <1>12, <1>13, <1>14 DEF IInv

(* The invariant holds in every state: no block, update or count is lost.     *)
THEOREM Invariance == Spec => []IInv
  <1>1. Init => IInv
    BY Initially
  <1>2. IInv /\ [Next]_vars => IInv'
    <2> SUFFICES ASSUME IInv, [Next]_vars PROVE IInv'
      OBVIOUS
    <2>1. ASSUME NEW p \in Procs, Send(p) PROVE IInv'
      BY <2>1, StepSend
    <2>2. ASSUME NEW p \in Procs, FactorLLDomain(p) PROVE IInv'
      BY <2>2, StepDistribute
    <2>3. ASSUME NEW p \in Procs, Drive(p) PROVE IInv'
      BY <2>3, StepDrive
    <2>4. ASSUME NEW p \in Procs, HandleUpdate2FO(p) PROVE IInv'
      BY <2>4, StepUpdate
    <2>5. ASSUME NEW p \in Procs, DiagReceived(p) PROVE IInv'
      BY <2>5, StepDiagReceived
    <2>6. ASSUME NEW p \in Procs, BlockReceived(p) PROVE IInv'
      BY <2>6, StepBlockReceived
    <2>7. ASSUME NEW p \in Procs, Stop(p) PROVE IInv'
      BY <2>7, StepStop
    <2>8. CASE UNCHANGED vars
      BY <2>8, Stutter
    <2> QED
      BY <2>1, <2>2, <2>3, <2>4, <2>5, <2>6, <2>7, <2>8 DEF Next, Process, Spin, Finished
  <1> QED
    BY <1>1, <1>2, PTL DEF Spec

(* A block is factored once, with all its updates (BlockReadyFO).             *)
THEOREM FactoredWhenRightHolds == Spec => []FactoredWhenRight
  BY Invariance, InvFactoredWhenRight, PTL

(* A column's blocks are freed when nothing needs them (FreeColumnListFO).    *)
THEOREM ForgetsWhatIsUsedHolds == Spec => []ForgetsWhatIsUsed
  BY Invariance, InvForgetsWhatIsUsed, PTL

(* Who is told to stop has factored all its blocks (DiagReceived).            *)
THEOREM StopsWhenDoneHolds == Spec => []StopsWhenDone
  BY Invariance, InvStopsWhenDone, PTL
=============================================================================
