------------------------------ MODULE Symbolic ------------------------------
(***************************************************************************)
(* What splash2/cholesky computes from the structure of a sparse symmetric *)
(* matrix before its processes start: the elimination tree, the length of  *)
(* the factor's columns, supernodes, their amalgamation and the reordering *)
(* that follows, the domains that single processes will factor, and the    *)
(* blocks of the rest, which Cholesky.tla takes as given.                  *)
(***************************************************************************)
EXTENDS Integers, FiniteSets, Sequences, SequencesExt

CONSTANTS N,         (* M.n, the number of columns                           *)
          P,         (* the number of processes                              *)
          PPS,       (* postpass_partition_size                              *)
          Graphs     (* the positions <<i, j>>, i > j, that may be nonzero   *)

Cols  == 0 .. N - 1
Nodes == 0 .. N            (* N is the root above all roots of the tree      *)
Lower == {<<i, k>> \in Cols \X Cols : i > k}

ASSUME SymbolicAssumption ==
  /\ {N, P, PPS} \subseteq Nat \ {0}
  /\ Graphs \subseteq SUBSET Lower

VARIABLES
  A,                                        (* the matrix                      *)
  stage, j, todo,                           (* where the computation is        *)
  T, subtree,                               (* EliminationTreeFromA            *)
  nz, node,                                 (* column lengths, supernodes      *)
  members, member_of, super_parent, kids,   (* supernodes being amalgamated    *)
  original, stack,                          (* the walk through their tree     *)
  PERM,                                     (* the new order of the columns    *)
  chunks, domains,                          (* Partition                       *)
  LB                                        (* the blocks                      *)

treeVars  == <<T, subtree>>
superVars == <<members, member_of, super_parent, kids, original>>
vars == <<A, stage, j, todo, treeVars, nz, node, superVars, stack, PERM, chunks, domains, LB>>

Init ==
  /\ A \in Graphs
  /\ stage = "tree" /\ j = 0 /\ todo = {}
  /\ T = [i \in Nodes |-> N] /\ subtree = [i \in Nodes |-> N]
  /\ nz = [i \in Nodes |-> 0] /\ node = [i \in Nodes |-> 0]
  /\ members = [i \in Nodes |-> <<>>] /\ member_of = [i \in Nodes |-> i]
  /\ super_parent = [i \in Nodes |-> N] /\ kids = [i \in Nodes |-> <<>>]
  /\ original = [i \in Nodes |-> <<>>] /\ stack = <<>>
  /\ PERM = [i \in Nodes |-> i]
  /\ chunks = <<>> /\ domains = <<>> /\ LB = <<>>

(* The columns are first taken in the order of the input.                    *)
IsNonzero(a, b) == a = b \/ <<a, b>> \in A \/ <<b, a>> \in A

(***************************************************************************)
(* EliminationTreeFromA: for every nonzero left of the diagonal in row j,  *)
(* the root of the tree that column is in becomes a child of j; subtree    *)
(* leads to roots on shortened paths.                                      *)
(***************************************************************************)
Path(x) == LET path[i \in Nodes] == IF subtree[i] = N THEN {i} ELSE {i} \cup path[subtree[i]]
           IN  path[x]
Itself(x) == x
RootOf(x) == CHOOSE i \in Path(x) : subtree[i] = N

Link(nabor) ==
  /\ stage = "tree" /\ nabor \in todo
  /\ todo' = todo \ {nabor}
  /\ T' = IF RootOf(nabor) = j THEN T ELSE [T EXCEPT ![RootOf(nabor)] = j]
  /\ subtree' = [i \in Nodes |-> IF i \in Path(nabor) \ {j} THEN j ELSE subtree[i]]
  /\ UNCHANGED <<A, stage, j, nz, node, superVars, stack, PERM, chunks, domains, LB>>

NextColumn ==
  /\ stage = "tree" /\ todo = {} /\ j < N - 1
  /\ j' = j + 1
  /\ todo' = {i \in 0 .. j : IsNonzero(i, j + 1)}
  /\ UNCHANGED <<A, stage, treeVars, nz, node, superVars, stack, PERM, chunks, domains, LB>>

(* ParentToChild: the children of a node, in ascending order.                *)
Children(t, i) == SetToSortSeq({c \in Cols : t[c] = i}, <)

(* ComputeNZ: row i of the factor is nonzero in the columns on the paths of   *)
(* the tree from the nonzeros left of the diagonal up to i.                   *)
UpTo(i, x) == LET up[k \in Nodes] == IF k < i THEN {k} \cup up[T[k]] ELSE {} IN up[x]
RowOfFactor(i) == UNION {UpTo(i, k) : k \in {k \in Cols : IsNonzero(i, k)}}
ComputeNZ == [k \in Nodes |->
                IF k = N THEN 0 ELSE 1 + Cardinality({i \in Cols : k \in RowOfFactor(i)})]

(* FindSupernodes: a column joins the one before it, its only child, when    *)
(* they have the same rows below.                                            *)
Joins(i, len) == /\ len[i] = len[i - 1] - 1 /\ T[i - 1] = i
                 /\ Len(Children(T, i)) = 1

(* node of supernodes that begin at Heads: their size, or the way back.      *)
NodeOf(Heads) ==
  [i \in Nodes |->
     IF i = N THEN 0
     ELSE LET head == CHOOSE h \in Heads : h <= i /\ \A g \in Heads : g <= i => g <= h
              last == CHOOSE l \in i .. N - 1 : /\ l + 1 \in Heads \cup {N}
                                                /\ \A m \in i + 1 .. l : m \notin Heads
          IN  IF head = i THEN last - i + 1 ELSE head - i]

Heads(nd) == {i \in Cols : nd[i] > 0}
SuperOf(nd, i) == IF nd[i] > 0 THEN i ELSE i + nd[i]
EndOf(nd, s) == s + nd[s] - 1

(* FindSupernodes, and the beginning of Amalgamate2: lists of the children   *)
(* of supernodes, the last one first, and of their columns.                  *)
FindSupernodes ==
  /\ stage = "tree" /\ todo = {} /\ j = N - 1
  /\ stage' = "merge"
  /\ nz' = ComputeNZ
  /\ node' = NodeOf({i \in Cols : i = 0 \/ ~Joins(i, nz')})
  /\ super_parent' = [s \in Nodes |-> IF s \in Heads(node') THEN T[EndOf(node', s)] ELSE N]
  /\ kids' = [p \in Nodes |->
                SetToSortSeq({s \in Heads(node') : T[EndOf(node', s)] = p}, >)]
  /\ original' = kids'
  /\ members' = [s \in Nodes |-> IF s \in Heads(node')
                                 THEN [x \in 1 .. node'[s] |-> s + x - 1] ELSE <<>>]
  /\ member_of' = [i \in Nodes |-> IF i = N THEN N ELSE SuperOf(node', i)]
  /\ stack' = kids'[N]
  /\ UNCHANGED <<A, j, todo, treeVars, PERM, chunks, domains, LB>>

(***************************************************************************)
(* Amalgamate2.  ConsiderMerge goes down the tree of supernodes; whether   *)
(* one is worth merging with its parent depends on estimated times and is  *)
(* left open here.                                                         *)
(***************************************************************************)
Considered == member_of[Head(stack)]

(* JoinTwoSupers2.                                                           *)
MovedKids(child, parent) == SelectSeq(kids[parent], LAMBDA i : member_of[i] # child)
LengthOfParent(child, parent) == nz[parent]
LengthJoined(child, parent) == nz[parent] + node[child]

JoinTwoSupers2(child, parent) ==
  LET moved == MovedKids(child, parent)
      grandparent == super_parent[parent]
  IN  /\ member_of' = [i \in Nodes |-> IF i \in ToSet(members[parent]) THEN child ELSE member_of[i]]
      /\ members' = [members EXCEPT ![child] = @ \o members[parent]]
      /\ nz' = [nz EXCEPT ![child] = LengthJoined(child, parent)]
      /\ node' = [node EXCEPT ![child] = @ + node[parent]]
      /\ super_parent' = [s \in Nodes |-> IF s = child THEN grandparent
                                          ELSE IF \E x \in DOMAIN moved : member_of[moved[x]] = s
                                               THEN child ELSE super_parent[s]]
      /\ kids' = [kids EXCEPT ![parent] = <<>>,
                              ![child] = Reverse(moved) \o @,
                              ![grandparent] = [x \in DOMAIN @ |-> IF @[x] = parent THEN child ELSE @[x]]]

Merge ==
  /\ stage = "merge" /\ stack # <<>>
  /\ super_parent[Considered] # N
  /\ JoinTwoSupers2(Considered, super_parent[Considered])
  /\ UNCHANGED <<A, stage, j, todo, treeVars, original, stack, PERM, chunks, domains, LB>>

(* No more merging here: on with the children the supernode had at first.    *)
GoDown ==
  /\ stage = "merge" /\ stack # <<>>
  /\ stack' = original[Considered] \o Tail(stack)
  /\ UNCHANGED <<A, stage, j, todo, treeVars, nz, node, superVars, PERM, chunks, domains, LB>>

(* ReorderMatrix puts the supernodes at the places from j downwards, parents *)
(* before children.                                                          *)
StartReorder ==
  /\ stage = "merge" /\ stack = <<>>
  /\ stage' = "reorder" /\ stack' = kids[N] /\ j' = N
  /\ UNCHANGED <<A, todo, treeVars, nz, node, superVars, PERM, chunks, domains, LB>>

ReorderMatrix ==
  /\ stage = "reorder" /\ stack # <<>>
  /\ LET super == member_of[Head(stack)]
     IN  /\ j' = j - node[super]
         /\ PERM' = [i \in Nodes |-> IF i \in j' .. j - 1 THEN members[super][i - j' + 1]
                                     ELSE PERM[i]]
         /\ stack' = kids[super] \o Tail(stack)
  /\ UNCHANGED <<A, stage, todo, treeVars, nz, node, superVars, chunks, domains, LB>>

INVP(i) == CHOOSE x \in Nodes : PERM[x] = i

(* FixNodeNZAndT: the supernodes lie one after the other.                    *)
NewHeads == LET heads[i \in Nodes] == IF i >= N THEN {} ELSE {i} \cup heads[i + node[PERM[i]]]
            IN  heads[0]

FixNodeNZAndT ==
  /\ stage = "reorder" /\ stack = <<>>
  /\ stage' = "roots"
  /\ node' = NodeOf(NewHeads)
  /\ nz' = [i \in Nodes |-> IF i = N THEN 0 ELSE
              LET s == SuperOf(node', i) IN nz[PERM[s]] + s - i]
  /\ T' = [i \in Nodes |-> IF i = N THEN N ELSE
              LET s == SuperOf(node', i)
              IN  IF i = EndOf(node', s) THEN INVP(super_parent[PERM[s]]) ELSE i + 1]
  /\ UNCHANGED <<A, j, todo, subtree, superVars, stack, PERM, chunks, domains, LB>>

(***************************************************************************)
(* Partition.  A chunk is a subtree, the columns from first on and before  *)
(* last; the list has the one with most work first.  The first chunk is    *)
(* divided into the subtrees below its top until the processes' shares of  *)
(* work are about equal.                                                   *)
(***************************************************************************)
work_tree == LET work[i \in Nodes] ==
                   LET c == Children(T, i)
                   IN  nz[i] * nz[i] + FoldSeq(LAMBDA k, sum : sum + work[k], 0, c)
             IN  [i \in Nodes |-> work[i]]

AddInOrder(cs, t) ==
  LET w(c) == work_tree[c.last - 1]
      before == {x \in DOMAIN cs : w(t) >= w(cs[x])}
      at == IF before = {} THEN Len(cs) + 1 ELSE CHOOSE x \in before : \A y \in before : x <= y
  IN  InsertAt(cs, at, t)

RECURSIVE AddAll(_, _, _)
AddAll(cs, first, lasts) ==
  IF lasts = <<>> THEN cs
  ELSE AddAll(AddInOrder(cs, [first |-> first, last |-> Head(lasts) + 1]),
              Head(lasts) + 1, Tail(lasts))

(* NumberPartition: every chunk goes to the process with the least work.     *)
Procs == 0 .. P - 1
MinBucket(ops) == CHOOSE p \in Procs : \A q \in Procs : ops[p] <= ops[q] /\ (ops[p] = ops[q] => p <= q)
NumberPartition(cs) ==
  FoldLeft(LAMBDA acc, c :
             LET p == MinBucket(acc.ops)
             IN  [ops |-> [acc.ops EXCEPT ![p] = @ + work_tree[c.last - 1]],
                  assign |-> Append(acc.assign, p)],
           [ops |-> [p \in Procs |-> 0], assign |-> <<>>], cs)

Balanced(ops) ==
  LET maxm == CHOOSE m \in {ops[p] : p \in Procs} : \A p \in Procs : ops[p] <= m
      minm == CHOOSE m \in {ops[p] : p \in Procs} : \A p \in Procs : ops[p] >= m
  IN  \/ maxm = 0
      \/ 100 * (maxm - minm) < 20 * maxm
      \/ 20 * P * maxm < work_tree[N]

StartPartition ==
  /\ stage = "roots"
  /\ chunks' = AddAll(<<>>, 0, Children(T, N))
  /\ stage' = "divide"
  /\ UNCHANGED <<A, j, todo, treeVars, nz, node, superVars, stack, PERM, domains, LB>>

(* Divide: the columns at the top with a single child belong to nobody.      *)
Undivided(i) == i
Top(i) == LET top[k \in Cols] == IF Len(Children(T, k)) = 1 THEN top[k - 1] ELSE k IN top[i]

Divide ==
  /\ stage = "divide" /\ ~Balanced(NumberPartition(chunks).ops)
  /\ chunks' = AddAll(Tail(chunks), Head(chunks).first,
                      Children(T, Top(Head(chunks).last - 1)))
  /\ UNCHANGED <<A, stage, j, todo, treeVars, nz, node, superVars, stack, PERM, domains, LB>>

(* The domains, those of process 0 first, and the deeper ones first.         *)
BlDepth(i) == LET depth[k \in Nodes] == IF k = N THEN 0 ELSE 1 + depth[T[k]] IN depth[i]

DomainsOf(p) ==
  LET assign == NumberPartition(chunks).assign
      mine   == SelectSeq([x \in DOMAIN chunks |-> x], LAMBDA x : assign[x] = p)
      deeper(x, y) == LET dx == BlDepth(chunks[x].last - 1)
                          dy == BlDepth(chunks[y].last - 1)
                      IN  dx > dy \/ (dx = dy /\ x < y)
      sorted == SetToSortSeq(ToSet(mine), deeper)
  IN  [x \in DOMAIN sorted |-> [owner |-> p, root |-> chunks[sorted[x]].last - 1]]

EndPartition ==
  /\ stage = "divide" /\ Balanced(NumberPartition(chunks).ops)
  /\ domains' = FlattenSeq([x \in 1 .. P |-> DomainsOf(x - 1)])
  /\ stage' = "blocks"
  /\ UNCHANGED <<A, j, todo, treeVars, nz, node, superVars, stack, PERM, chunks, LB>>

(* MarkSubtreeAsDomain.                                                      *)
FirstLeaf(r) == LET leaf[k \in Cols] == IF Children(T, k) = <<>> THEN k ELSE leaf[Children(T, k)[1]]
                IN  leaf[r]
DomainCols(r) == (FirstLeaf(r) .. r) \cup (SuperOf(node, r) .. EndOf(node, SuperOf(node, r)))
domain == UNION {DomainCols(domains[x].root) : x \in DOMAIN domains}

(***************************************************************************)
(* CreateBlockedMatrix2: supernodes outside the domains are cut into       *)
(* partitions of about PPS columns.                                        *)
(***************************************************************************)
FindNumPartitions(size) ==
  LET n == (size + PPS - 1) \div PPS
  IN  IF size <= (4 * PPS) \div 3 THEN 1
      ELSE IF PPS - size \div n > size \div (n - 1) - PPS THEN n - 1 ELSE n

Pieces(s) == LET n == FindNumPartitions(node[s])
             IN  {s + (node[s] * x) \div n : x \in 0 .. n - 1}
Partitions == UNION {Pieces(s) : s \in {s \in Heads(node) : s \notin domain}}
HeadOf(i) == IF i \in domain THEN i
             ELSE CHOOSE h \in Partitions : h <= i /\ \A g \in Partitions : g <= i => g <= h

(* FindSuperStructure: the rows of a supernode.                              *)
RowsOfFirst(s) == {i \in s .. N - 1 : IsNonzero(PERM[i], PERM[s])}
RowsOf(s) == {i \in s .. N - 1 : \E k \in s .. EndOf(node, s) : IsNonzero(PERM[i], PERM[k])}
SuperStructure ==
  LET str[s \in Nodes] == RowsOf(s) \cup
        UNION {str[SuperOf(node, c)] \cap s .. N - 1 : c \in ToSet(Children(T, s))}
  IN  [s \in Heads(node) |-> str[s]]

(* FindDomStructure and FindBlStructure: the rows of a domain's columns, and *)
(* the blocks of a partition.  Only the first partition of a supernode looks *)
(* at the matrix.                                                            *)
Structure ==
  LET ss == SuperStructure
      str[i \in Cols] ==
        IF i \in domain THEN {r \in ss[SuperOf(node, i)] : r >= i}
        ELSE {HeadOf(r) : r \in IF node[i] > 0 THEN RowsOf(i) ELSE {}}
               \cup {b \in UNION {{HeadOf(r) : r \in str[HeadOf(c)]} : c \in ToSet(Children(T, i))} :
                       b >= i}
  IN  [i \in {i \in Cols : i \in domain \/ i \in Partitions} |-> str[i]]

(* ComputePartitionNumbering.                                                *)
renumbering(h) == Cardinality({g \in Partitions : g < h})

FindBlocks ==
  /\ stage = "blocks"
  /\ LET str == Structure
         number(rows) == {renumbering(HeadOf(r)) : r \in rows}
     IN  LB' = [n |-> Cardinality(Partitions),
                below |-> [k \in 0 .. Cardinality(Partitions) - 1 |->
                             LET h == CHOOSE h \in Partitions : renumbering(h) = k
                             IN  number(str[h] \ {h})],
                domains |-> [x \in DOMAIN domains |->
                               [owner |-> domains[x].owner,
                                rows |-> number(str[domains[x].root] \ {domains[x].root})]]]
  /\ stage' = "done"
  /\ UNCHANGED <<A, j, todo, treeVars, nz, node, superVars, stack, PERM, chunks, domains>>

Finished == stage = "done" /\ UNCHANGED vars

Next == \/ \E nabor \in todo : Link(nabor)
        \/ NextColumn \/ FindSupernodes \/ Merge \/ GoDown \/ StartReorder \/ ReorderMatrix
        \/ FixNodeNZAndT \/ StartPartition \/ Divide \/ EndPartition \/ FindBlocks \/ Finished

Spec == Init /\ [][Next]_vars

(***************************************************************************)
(* Properties.                                                             *)
(***************************************************************************)
(* What elimination in the order perm fills in: with column k its rows       *)
(* become connected.                                                         *)
Factor(perm) ==
  LET fill[k \in Nodes] ==
        IF k = 0 THEN {<<a, b>> \in Lower : IsNonzero(perm[a], perm[b])}
        ELSE fill[k - 1] \cup {<<a, b>> \in Lower : {<<a, k - 1>>, <<b, k - 1>>} \subseteq fill[k - 1]}
  IN  fill[N]
Column(f, k) == {i \in Cols : <<i, k>> \in f}

(* The tree leads from a column to its first nonzero below, and the lengths  *)
(* are those of the factor's columns, whatever the order of the nonzeros.    *)
TreeIsRight ==
  stage = "tree" /\ j = N - 1 /\ todo = {} =>
    LET f == Factor([i \in Nodes |-> i])
    IN  \A k \in Cols :
          /\ ComputeNZ[k] = 1 + Cardinality(Column(f, k))
          /\ IF Column(f, k) = {} THEN T[k] = N
             ELSE T[k] \in Column(f, k) /\ \A i \in Column(f, k) : T[k] <= i

Ancestors(i) == LET up[k \in Nodes] == IF k = N THEN {N} ELSE {k} \cup up[T[k]] IN up[i]
Descendants(r) == {i \in Cols : r \in Ancestors(i)}

(* Whatever was merged, the new order is one of all columns in which every   *)
(* subtree is a range, the supernodes have room for all that is filled in,   *)
(* and their lengths, which merging kept up to date, are what their          *)
(* structure turns out to be (CheckColLength).                               *)
OrderIsRight ==
  stage = "done" =>
    /\ {PERM[i] : i \in Cols} = Cols
    /\ \A r \in Cols : T[r] > r /\ Descendants(r) = FirstLeaf(r) .. r
    /\ \A s \in Heads(node) : Cardinality(SuperStructure[s]) = nz[s]
    /\ \A e \in Factor(PERM) : e[1] \in SuperStructure[SuperOf(node, e[2])]

(* No column is in two domains; a domain is all of a subtree, and all of its *)
(* supernodes.                                                               *)
DomainsAreSubtrees ==
  \A x, y \in DOMAIN domains :
    /\ DomainCols(domains[x].root) = Descendants(domains[x].root)
    /\ x # y => DomainCols(domains[x].root) \cap DomainCols(domains[y].root) = {}
    /\ \A i \in DomainCols(domains[x].root) :
         SuperOf(node, i) .. EndOf(node, SuperOf(node, i)) \subseteq DomainCols(domains[x].root)

(* The domains are subtrees, and the blocks are what Cholesky.tla assumes:   *)
(* the rows of a column, and those of a domain, are filled in further up,    *)
(* and only the last column has none below it if the matrix is in one piece; *)
(* and every entry of the factor has its block.                              *)
Connected == \A k \in Cols : k \in Descendants(N - 1)
IsFilled(rows) == \A a, b \in rows : a > b => a \in LB.below[b]

BlocksAreRight ==
  stage = "done" =>
    /\ DomainsAreSubtrees
    /\ \A k \in 0 .. LB.n - 1 : /\ \A a \in LB.below[k] : a > k /\ a < LB.n
                                /\ IsFilled(LB.below[k])
                                /\ Connected /\ LB.below[k] = {} => k = LB.n - 1
    /\ \A x \in DOMAIN LB.domains : IsFilled(LB.domains[x].rows)
    /\ \A e \in Factor(PERM) :
         e[2] \notin domain =>
           LET a == renumbering(HeadOf(e[1])) IN LET b == renumbering(HeadOf(e[2]))
           IN a = b \/ a \in LB.below[b]
=============================================================================
