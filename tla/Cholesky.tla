------------------------------- MODULE Cholesky ------------------------------
(***************************************************************************)
(* The fan-out factorization of splash2/cholesky.  The part of the matrix  *)
(* outside the domains is cut into square blocks; a block belongs to one   *)
(* process, which alone writes it.  Every process works off a queue of     *)
(* tasks: the update of a block by a domain, the arrival of a factored     *)
(* block, or the order to stop.  A block is factored when all its updates  *)
(* have been made and the diagonal block of its column has arrived, and    *)
(* is then sent to the processes that need it.                             *)
(*                                                                         *)
(* What a process does with a task touches only its own blocks, lists and  *)
(* counters and is one step; each Send that follows from it is one more.   *)
(***************************************************************************)
EXTENDS Integers, FiniteSets, Sequences, SequencesExt

CONSTANTS P,          (* the number of processes                             *)
          Matrices    (* the structures that the symbolic phase may compute  *)

Procs == 0 .. P - 1

(***************************************************************************)
(* A structure has n partitions of columns outside the domains; below[k]   *)
(* are the partitions of rows with a block below the diagonal in partition *)
(* k.  A domain is a subtree of columns that one process factors alone;    *)
(* rows are the partitions it then updates.  The rows of a column fill in  *)
(* the columns they name, and only the last column has none below it:      *)
(* the matrix does not fall into independent parts.                        *)
(***************************************************************************)
IsFilled(m, rows) == \A i, j \in rows : i > j => i \in m.below[j]

ASSUME CholeskyAssumption ==
  /\ P \in Nat \ {0}
  /\ \A m \in Matrices :
       /\ m.n \in Nat \ {0}
       /\ m.below \in [0 .. m.n - 1 -> SUBSET (0 .. m.n - 1)]
       /\ \A k \in 0 .. m.n - 1 : /\ \A i \in m.below[k] : i > k
                                  /\ IsFilled(m, m.below[k])
                                  /\ m.below[k] = {} => k = m.n - 1
       /\ m.domains \in Seq([owner : Procs, rows : SUBSET (0 .. m.n - 1)])
       /\ \A d \in 1 .. Len(m.domains) : IsFilled(m, m.domains[d].rows)

(* The processes form a grid, as square as P allows.                         *)
P_dimj == CHOOSE t \in 1 .. P : /\ P % t = 0 /\ t * t <= P
                                /\ \A s \in t + 1 .. P : P % s = 0 => s * s > P
P_dimi == P \div P_dimj

EmbeddedOwner(b) == (b[1] % P_dimi) + (b[2] % P_dimj) * P_dimi

VARIABLES
  LB,                     (* the structure                                     *)
  remaining,              (* of each block: the updates still to be made       *)
  tasks,                  (* of each process: its queue                        *)
  AllBlocks, DiagBlock,   (* of each process and column: what has arrived      *)
  NReceived,              (* of each process and column: what is still to come *)
  pc, domain, out,        (* of each process: location, next domain, Sends due *)
  applied, factored       (* history: updates made and factorings of a block   *)

ownVars == <<AllBlocks, DiagBlock, NReceived>>
blockVars == <<remaining, applied, factored>>
vars == <<LB, blockVars, tasks, ownVars, pc, domain, out>>

(***************************************************************************)
(* The orders in which the loops of the program go through things.  They   *)
(* are not recursive, so that they can be reasoned about.                  *)
(***************************************************************************)
(* A finite set of numbers, from the smallest on.                            *)
Rank(A, e) == Cardinality({f \in A : f <= e})
InOrder(A) == [x \in 1 .. Cardinality(A) |-> CHOOSE e \in A : Rank(A, e) = x]

(* What of the sequence s is in S.                                           *)
Only(s, S) ==
  LET at == InOrder({x \in DOMAIN s : s[x] \in S})
  IN  [x \in DOMAIN at |-> s[at[x]]]

(* Two nested loops, the outer from 1 to m and the inner from 1 to n.        *)
Grid(m, n) == [x \in 1 .. m * n |-> <<(x - 1) \div n + 1, ((x - 1) % n) + 1>>]

(***************************************************************************)
(* Blocks, domains, and who has them.                                      *)
(***************************************************************************)
Columns  == 0 .. LB.n - 1
Blocks   == {b \in Columns \X Columns : b[1] = b[2] \/ b[1] \in LB.below[b[2]]}
Domains  == 1 .. Len(LB.domains)

Diagonal       == [x \in 1 .. LB.n |-> <<x - 1, x - 1>>]
Subdiagonal(k) == [x \in 1 .. Cardinality(LB.below[k]) |-> <<InOrder(LB.below[k])[x], k>>]

(* proc_domains: the domains p factors.                                       *)
MyDomains(p) == InOrder({d \in Domains : LB.domains[d].owner = p})

IsDiag(b)   == b[1] = b[2]
Pair(i, j)  == IF i > j THEN <<i, j>> ELSE <<j, i>>
Mine(p)     == {b \in Blocks : EmbeddedOwner(b) = p}

(* Where BlockDoneFO sends a block: to the processes of the grid that have   *)
(* blocks in the row or in the column that is named like the block's row,    *)
(* for there the updates are made that need it.                              *)
DoneToRow(b) == [x \in 1 .. P_dimj |-> (b[1] % P_dimi) + (x - 1) * P_dimi]

DoneToColumn(b, j) ==
  [x \in 1 .. P_dimi - 1 |->
     (IF x > b[1] % P_dimi THEN x ELSE x - 1) + (j % P_dimj) * P_dimi]

DoneToOwn(b) == DoneToRow(b) \o DoneToColumn(b, b[2])
DoneTo(b)    == DoneToRow(b) \o DoneToColumn(b, b[1])

BlockTask(b)     == [kind |-> "block", block |-> b]
UpdateTask(d, b) == [kind |-> "update", domain |-> d, block |-> b]
Terminate        == [kind |-> "terminate"]
To(q, t)         == [to |-> q, task |-> t]

(* BlockDoneFO for one of the blocks bs after the other.                     *)
BlocksDoneFO(bs) ==
  LET at == Grid(Len(bs), P_dimi + P_dimj - 1)
  IN  [x \in DOMAIN at |-> To(DoneTo(bs[at[x][1]])[at[x][2]], BlockTask(bs[at[x][1]]))]

TerminateAll == [x \in 1 .. P |-> To(x - 1, Terminate)]

(* The updates a block waits for, and the arrivals a process waits for.      *)
FromColumns(b) == Cardinality({k \in Columns : {b[1], b[2]} \subseteq LB.below[k]})

ComputeRemaining(b) ==
  Cardinality({d \in Domains : {b[1], b[2]} \subseteq LB.domains[d].rows})
    + FromColumns(b)

ReceivedByRow(p, k)   == Cardinality({b \in Blocks : b[2] = k /\ p \in ToSet(DoneToRow(b))})
ComputeReceived(p, k) == Cardinality({b \in Blocks : b[2] = k /\ p \in ToSet(DoneTo(b))})

Init ==
  /\ LB \in Matrices
  /\ remaining = [b \in Blocks |-> ComputeRemaining(b)]
  /\ tasks = [p \in Procs |-> <<>>]
  /\ AllBlocks = [p \in Procs |-> [k \in Columns |-> <<>>]]
  /\ DiagBlock = [p \in Procs |-> [k \in Columns |-> FALSE]]
  /\ NReceived = [p \in Procs |-> [k \in Columns |-> ComputeReceived(p, k)]]
  /\ pc = [p \in Procs |-> "domains"] /\ domain = [p \in Procs |-> 1]
  /\ out = [p \in Procs |-> <<>>]
  /\ applied = [b \in Blocks |-> {}] /\ factored = [b \in Blocks |-> 0]

Goto(p, there) == pc' = [pc EXCEPT ![p] = there]

(* One of the Sends that p has to do.                                        *)
Send(p) ==
  /\ out[p] # <<>>
  /\ tasks' = [tasks EXCEPT ![Head(out[p]).to] = Append(@, Head(out[p]).task)]
  /\ out' = [out EXCEPT ![p] = Tail(@)]
  /\ UNCHANGED <<LB, blockVars, ownVars, pc, domain>>

(* p goes on from here when its Sends are done.                              *)
At(p, here) == pc[p] = here /\ out[p] = <<>>

(* The blocks bs of p get factored, in this order; rest is sent after them.  *)
Factor(p, bs, rest) ==
  /\ factored' = [b \in Blocks |-> IF b \in ToSet(bs) THEN factored[b] + 1 ELSE factored[b]]
  /\ out' = [out EXCEPT ![p] = BlocksDoneFO(bs) \o rest]

(* FactorLLDomain and DistributeUpdateFO for the next of p's domains.        *)
Distributed(d) ==
  LET rows == InOrder(LB.domains[d].rows)
      at   == Only(Grid(Len(rows), Len(rows)), {x \in (DOMAIN rows) \X (DOMAIN rows) : x[2] <= x[1]})
      pair(x) == <<rows[at[x][1]], rows[at[x][2]]>>
  IN  [x \in DOMAIN at |-> To(EmbeddedOwner(pair(x)), UpdateTask(d, pair(x)))]

FactorLLDomain(p) ==
  /\ At(p, "domains") /\ domain[p] <= Len(MyDomains(p))
  /\ out' = [out EXCEPT ![p] = Distributed(MyDomains(p)[domain[p]])]
  /\ domain' = [domain EXCEPT ![p] = @ + 1]
  /\ UNCHANGED <<LB, blockVars, tasks, ownVars, pc>>

(* DriveParallelFO before its loop: diagonal blocks without any update.      *)
Drive(p) ==
  /\ At(p, "domains") /\ domain[p] > Len(MyDomains(p))
  /\ Factor(p, Only(Diagonal, {b \in Mine(p) : remaining[b] = 0}), <<>>)
  /\ Goto(p, "loop")
  /\ UNCHANGED <<LB, remaining, applied, tasks, ownVars, domain>>

(* GetBlock finds a task of this kind.                                       *)
GetBlock(p, kind) ==
  /\ At(p, "loop") /\ tasks[p] # <<>> /\ Head(tasks[p]).kind = kind
  /\ tasks' = [tasks EXCEPT ![p] = Tail(@)]

(* It spins while there is none.                                              *)
Spin(p) == At(p, "loop") /\ tasks[p] = <<>> /\ UNCHANGED vars

Got(p) == Head(tasks[p]).block

(* A block whose last update was made is factored at once if it can be: a    *)
(* diagonal block, or one whose diagonal block has arrived.                  *)
BlockReadyFO(p, b) == IsDiag(b) \/ DiagBlock[p][b[2]]

(* p makes this update to each of the blocks bs.                             *)
Update(p, bs, from) ==
  /\ remaining' = [b \in Blocks |-> IF b \in ToSet(bs) THEN remaining[b] - 1 ELSE remaining[b]]
  /\ applied' = [b \in Blocks |-> IF b \in ToSet(bs) THEN applied[b] \cup {from} ELSE applied[b]]
  /\ Factor(p, Only(bs, {b \in Blocks : remaining[b] = 1 /\ BlockReadyFO(p, b)}), <<>>)

HandleUpdate2FO(p) ==
  /\ GetBlock(p, "update")
  /\ Update(p, <<Got(p)>>, <<"domain", Head(tasks[p]).domain>>)
  /\ UNCHANGED <<LB, ownVars, pc, domain>>

(* p has received one more block of column k, and forgets the column's       *)
(* blocks with the last of them; all and diag are its lists by then.         *)
Received(p, k, all, diag) ==
  LET last == NReceived[p][k] = 1
  IN  /\ NReceived' = [NReceived EXCEPT ![p][k] = @ - 1]
      /\ AllBlocks' = [AllBlocks EXCEPT ![p][k] = IF last THEN <<>> ELSE all]
      /\ DiagBlock' = [DiagBlock EXCEPT ![p][k] = diag /\ ~last]

(* With a diagonal block, p factors its blocks of that column that waited    *)
(* for it; the owner of the last one tells everybody to stop.                *)
NextToLast(k)  == k >= LB.n - 2
IsLast(k)      == k = LB.n - 1

DiagReceived(p) ==
  LET k == Got(p)[2]
  IN  /\ GetBlock(p, "block") /\ IsDiag(Got(p))
      /\ Received(p, k, AllBlocks[p][k], TRUE)
      /\ Factor(p, Only(Subdiagonal(k), {b \in Mine(p) : remaining[b] = 0}),
                IF IsLast(k) /\ EmbeddedOwner(Got(p)) = p THEN TerminateAll ELSE <<>>)
      /\ UNCHANGED <<LB, remaining, applied, pc, domain>>

(* With another block, p makes the updates that pair it with the blocks of   *)
(* its column that came before it, and with itself.                          *)
BlockReceived(p) ==
  LET i == Got(p)[1]
      k == Got(p)[2]
      with == Append(AllBlocks[p][k], i)
      pairs == [x \in DOMAIN with |-> Pair(i, with[x])]
  IN  /\ GetBlock(p, "block") /\ ~IsDiag(Got(p))
      /\ Received(p, k, <<i>> \o AllBlocks[p][k], DiagBlock[p][k])
      /\ Update(p, Only(pairs, Mine(p)), <<"column", k>>)
      /\ UNCHANGED <<LB, pc, domain>>

(* The order to stop, whatever is still in the queue.                        *)
Stop(p) ==
  /\ GetBlock(p, "terminate")
  /\ Goto(p, "stopped")
  /\ UNCHANGED <<LB, blockVars, ownVars, domain, out>>

Stopped == \A p \in Procs : pc[p] = "stopped"
Finished == Stopped /\ UNCHANGED vars

Process(p) == \/ Send(p) \/ Spin(p) \/ FactorLLDomain(p) \/ Drive(p)
              \/ HandleUpdate2FO(p) \/ DiagReceived(p) \/ BlockReceived(p) \/ Stop(p)

Next == Finished \/ \E p \in Procs : Process(p)

Spec == Init /\ [][Next]_vars
FairSpec == Spec /\ \A p \in Procs : WF_vars(Process(p))

(* What a block must be given before it is right: the update of every domain *)
(* and of every earlier column that has both of its rows.                    *)
Contributions(b) ==
  {<<"domain", d>> : d \in {d \in Domains : \A r \in {b[1], b[2]} : r \in LB.domains[d].rows}}
    \cup {<<"column", k>> : k \in {k \in Columns : \A r \in {b[1], b[2]} : <<r, k>> \in Blocks /\ r > k}}

(* A block is factored once, when it has had every update, and after the     *)
(* diagonal block of its column; so what others read of it never changes.    *)
FactoredWhenRight ==
  \A b \in Blocks :
    /\ factored[b] \in {0, 1}
    /\ factored[b] = 1 => applied[b] = Contributions(b) /\ factored[<<b[2], b[2]>>] = 1

(* A process forgets the blocks of a column only when it has no more use for *)
(* them: its own blocks of the column are factored and no other block of the *)
(* column can come.                                                          *)
ForgetsWhatIsUsed ==
  \A p \in Procs, k \in Columns : NReceived[p][k] = 0 =>
    /\ \A b \in Blocks : b[2] = k /\ EmbeddedOwner(b) = p => factored[b] = 1
    /\ \A b \in Blocks : EmbeddedOwner(b) = p /\ <<"column", k>> \in Contributions(b)
          => <<"column", k>> \in applied[b]

(* A process that was told to stop has nothing left to do, whatever is in    *)
(* its queue.                                                                *)
StopsWhenDone ==
  \A p \in Procs : pc[p] = "stopped" =>
    \A b \in Blocks : EmbeddedOwner(b) = p => factored[b] = 1

(* DriveParallelFO prints "Termination error" if this fails.                 *)
NothingWaiting == \A p \in Procs : pc[p] = "stopped" => tasks[p] = <<>>

(* The factorization ends.                                                   *)
Ends == <>Stopped
=============================================================================
