------------------------------ MODULE Wal_proof ------------------------------
(***************************************************************************)
(* Proofs about Wal, for every number of connections, pages and marks and  *)
(* every use of the database: the locks exclude each other (LocksExclude), *)
(* a mark in use never moves (MarksStay), nobody writes over what an open  *)
(* read transaction reads from (ReadsStay), what it would read stays the   *)
(* same (ViewStays, while no checkpoint is past the end of the log), and   *)
(* the log has room in the index (TypeOK).  The inductive invariant IInv   *)
(* says which locks a connection holds at each control location; Fits,     *)
(* which rests on it, how long the log may be where a connection is;       *)
(* SnapInv, which rests on both, where snapshots end and what a writer may *)
(* write over; ViewInv, on top of them, how far a checkpoint may go.       *)
(***************************************************************************)
EXTENDS Wal, WellFoundedInduction, FiniteSetTheorems, TLAPS

-----------------------------------------------------------------------------
(* The inductive invariant. *)

\* The records the actions update have their fields.
CnRec(r) ==
    /\ DOMAIN r = {"pc", "hdr", "chg", "mxI", "mxMark", "min", "cache", "dirty", "w", "k"}
    /\ DOMAIN r.k = {"mode", "safe", "i", "todo", "ok"}
CnShape   == DOMAIN cn = Conn /\ \A c \in Conn : CnRec(cn[c])
HeldShape == DOMAIN held = Conn /\ \A c \in Conn : DOMAIN held[c] = {"excl", "shared"}
ShmShape  == /\ DOMAIN shm = {"h1", "h0", "nBackfill", "attempted", "mark", "pgno"}
             /\ DOMAIN shm.mark = 1..NReader - 1

\* LocksExclude, and nobody shares what it holds exclusively itself.
LocksApart ==
    \A c, d \in Conn :
        /\ held[c].excl \cap held[d].shared = {}
        /\ c # d => held[c].excl \cap held[d].excl = {}

\* The locks that go with a control location pc, in a checkpoint of mode m or
\* outside of one (None).
Locks(pc, m, ex, sh) ==
    /\ pc \in {"closed", "idle", "pick0"} => m = None /\ ex = {} /\ sh = {}
    /\ pc \in {"header", "hdrlock"} =>
          sh = {} /\ ex \subseteq {WRITE, CKPT} /\ (m = None => ex = {})
    /\ pc \in {"hdrtry", "recover"} =>
          sh = {} /\ WRITE \in ex /\ ex \subseteq {WRITE, CKPT} /\ (m = None => CKPT \notin ex)
    /\ pc \in {"rscan", "rh1", "rh0", "rinfo"} =>
          /\ sh = {}
          /\ (IF m # None THEN {RECOVER} ELSE {CKPT, RECOVER}) \cup READERS \subseteq ex
          /\ ex \subseteq {WRITE, CKPT, RECOVER} \cup READERS
    /\ pc \in {"chk0", "read"} => m = None /\ ex = {}
    /\ pc \in {"pick", "excl", "share"} => m = None /\ sh = {} /\ ex \subseteq {WRITE}
    /\ pc \in {"min", "chk"} => m = None /\ ex \subseteq {WRITE}
    /\ pc \in {"wchk", "write", "restart", "unl0", "whdr", "wframe", "wreck", "windex",
               "wh1", "wh0", "wend"} => m = None /\ ex = {WRITE}
    /\ pc \in {"sh1", "sh0", "sinfo"} =>
          /\ READERS \subseteq ex
          /\ m = None => ex = {WRITE} \cup READERS
          /\ m # None => sh = {} /\ ex \subseteq {WRITE, CKPT} \cup READERS
    /\ pc = "ktrunc" => m # None /\ sh = {} /\ ex \subseteq {WRITE, CKPT} \cup READERS
    /\ pc \in {"kwlock", "kstart", "kmark", "kiter", "kread0", "kmode", "kfin"} =>
          m # None /\ sh = {} /\ ex \subseteq {WRITE, CKPT}
    /\ pc = "kcopy" => m # None /\ sh = {} /\ ex \subseteq {WRITE, CKPT, READ(0)}
    /\ pc = "delete" => m = "CLOSE" /\ sh = {} /\ ex = {}
    /\ m \notin {None, "CLOSE"} => CKPT \in ex
    /\ m \notin {None, "CLOSE", "PASSIVE"} /\ pc # "kwlock" => WRITE \in ex
    /\ pc = "kwlock" => m # "CLOSE"
    /\ pc \in {"hdrtry", "recover", "rscan", "rh1", "rh0", "rinfo"} =>
          WRITE \in ex /\ m \in {None, "PASSIVE", "CLOSE"}
    /\ pc \in {"kmode", "sh1", "sh0", "sinfo", "ktrunc"} => m \in {None, "TRUNCATE"}

OwnsOf(c) == Locks(cn[c].pc, cn[c].k.mode, held[c].excl, held[c].shared)
Owns == \A c \in Conn : OwnsOf(c)

\* A connection that closes the database is the only one attached.
Alone == \A c, d \in Conn : c # d /\ Exclusive(c) => cn[d].pc = "closed"

IInv == CnShape /\ HeldShape /\ ShmShape /\ LocksApart /\ Owns /\ Alone

\* The part of the invariant that a step of one connection can disturb.
CInv == CnShape /\ HeldShape /\ LocksApart /\ Owns /\ Alone

-----------------------------------------------------------------------------
(* The locks. *)

\* The lock numbers differ: locks 0, 1, 2, and 3 + i for mark i.
LEMMA LockNumbers ==
  /\ WRITE \notin READERS /\ CKPT \notin READERS /\ RECOVER \notin READERS
  /\ READ(0) \notin READERS
  /\ WRITE # CKPT /\ WRITE # RECOVER /\ CKPT # RECOVER
  /\ READ(0) # WRITE /\ READ(0) # CKPT /\ READ(0) # RECOVER
  /\ \A i \in 1..NReader - 1 : READ(i) \in READERS
BY WalConstants DEF WRITE, CKPT, RECOVER, READ, READERS

\* A set of numbers that is not empty has a smallest: the first free mark.
LEMMA Smallest ==
  ASSUME NEW T \in SUBSET Nat, T # {}
  PROVE  \E x \in T : \A y \in T : x <= y
<1>1. PICK x \in T : \A y \in T : ~ (<<y, x>> \in OpToRel(<, Nat))
  BY NatLessThanWellFounded, WFMin, Zenon
<1>2. \A y \in T : ~ (y < x)
  BY <1>1, Zenon DEF OpToRel
<1>3. QED
  BY <1>2

\* The modes of a checkpoint, of the closing one, and none, are all different.
LEMMA NoMode == None # "CLOSE" /\ None \notin CkptModes /\ "CLOSE" \notin CkptModes
                /\ "PASSIVE" \in CkptModes /\ \A u \in Use : u.modes \subseteq CkptModes
BY WalConstants DEF CkptModes

\* What becomes of the locks in a step of c.
LocksOf(c, ex, sh) ==
    /\ HeldShape' /\ LocksApart'
    /\ held'[c].excl = ex /\ held'[c].shared = sh
    /\ \A d \in Conn \ {c} : held'[d] = held[d]

\* Taking locks that CanExclude grants keeps the locks apart.
LEMMA TakeX ==
  ASSUME NEW c \in Conn, NEW L, HeldShape, LocksApart, CanExclude(L), LockX(c, L)
  PROVE  LocksOf(c, held[c].excl \cup L, held[c].shared)
<1>1. /\ held'[c].excl = held[c].excl \cup L /\ held'[c].shared = held[c].shared
      /\ HeldShape'
      /\ \A d \in Conn \ {c} : held'[d] = held[d]
  BY DEF HeldShape, LockX
<1>2. ASSUME NEW a \in Conn, NEW b \in Conn
      PROVE  /\ held'[a].excl \cap held'[b].shared = {}
             /\ a # b => held'[a].excl \cap held'[b].excl = {}
  <2>1. held[a].excl \cap held[b].shared = {} /\ (a # b => held[a].excl \cap held[b].excl = {})
    BY DEF LocksApart
  <2>2. L \cap held[a].excl = {} /\ L \cap held[b].excl = {} /\ L \cap held[b].shared = {}
    BY DEF CanExclude
  <2>3. QED
    BY <1>1, <2>1, <2>2
<1>3. QED
  BY <1>1, <1>2 DEF LocksApart, LocksOf

\* Giving locks back keeps them apart.
LEMMA GiveX ==
  ASSUME NEW c \in Conn, NEW L, HeldShape, LocksApart, FreeX(c, L)
  PROVE  LocksOf(c, held[c].excl \ L, held[c].shared)
<1>1. /\ held'[c].excl = held[c].excl \ L /\ held'[c].shared = held[c].shared
      /\ HeldShape'
      /\ \A d \in Conn \ {c} : held'[d] = held[d]
  BY DEF HeldShape, FreeX
<1>2. QED
  BY <1>1 DEF LocksApart, LocksOf

\* Sharing a lock that CanShare grants keeps the locks apart.
LEMMA TakeS ==
  ASSUME NEW c \in Conn, NEW l, HeldShape, LocksApart, CanShare(l), LockS(c, l)
  PROVE  LocksOf(c, held[c].excl, held[c].shared \cup {l})
<1>1. /\ held'[c].excl = held[c].excl /\ held'[c].shared = held[c].shared \cup {l}
      /\ HeldShape'
      /\ \A d \in Conn \ {c} : held'[d] = held[d]
  BY DEF HeldShape, LockS
<1>2. \A a \in Conn : l \notin held'[a].excl
  BY <1>1 DEF CanShare
<1>3. QED
  BY <1>1, <1>2 DEF LocksApart, LocksOf

\* Giving the shared lock back.
LEMMA GiveS ==
  ASSUME NEW c \in Conn, HeldShape, LocksApart, FreeS(c)
  PROVE  LocksOf(c, held[c].excl, {})
<1>1. /\ held'[c].excl = held[c].excl /\ held'[c].shared = {}
      /\ HeldShape'
      /\ \A d \in Conn \ {c} : held'[d] = held[d]
  BY DEF HeldShape, FreeS
<1>2. QED
  BY <1>1 DEF LocksApart, LocksOf

\* Steps that take and give back no lock.
LEMMA SameLocks ==
  ASSUME NEW c \in Conn, HeldShape, LocksApart, UNCHANGED held
  PROVE  LocksOf(c, held[c].excl, held[c].shared)
BY DEF HeldShape, LocksApart, LocksOf

\* c moves to control location pc, and no other connection does anything.
Goes(c, pc, m) ==
    /\ CnShape'
    /\ cn'[c].pc = pc /\ cn'[c].k.mode = m
    /\ \A d \in Conn \ {c} : cn'[d] = cn[d]

\* A step of c keeps the invariant if the locks that go with the new location
\* are held, and nobody else is attached to a database c closes.
LEMMA Keeps ==
  ASSUME NEW c \in Conn, NEW pc, NEW m, NEW ex, NEW sh,
         CInv, Goes(c, pc, m), LocksOf(c, ex, sh), Locks(pc, m, ex, sh),
         m = "CLOSE" => Exclusive(c) \/ \A d \in Conn \ {c} : cn[d].pc = "closed",
         cn[c].pc = "closed" => pc = "closed" \/ \A d \in Conn : ~Exclusive(d)
  PROVE  CInv'
<1>1. Owns'
  BY DEF CInv, Owns, OwnsOf, Goes, LocksOf
<1>2. ASSUME NEW a \in Conn, NEW b \in Conn, a # b, cn'[a].k.mode = "CLOSE"
      PROVE  cn'[b].pc = "closed"
  <2>1. CASE a = c
    BY <1>2, <2>1 DEF CInv, Alone, Goes, Exclusive
  <2>2. CASE a # c
    BY <1>2, <2>2 DEF CInv, Alone, Goes, Exclusive
  <2>3. QED
    BY <2>1, <2>2
<1>3. Alone'
  BY <1>2 DEF Alone, Exclusive
<1>4. QED
  BY <1>1, <1>3 DEF CInv, Goes, LocksOf

\* The usual step: outside of the closing of the database, or on with it.
LEMMA Moves ==
  ASSUME NEW c \in Conn, NEW pc, NEW ex, NEW sh,
         CInv, cn[c].pc # "closed",
         Goes(c, pc, cn[c].k.mode), LocksOf(c, ex, sh), Locks(pc, cn[c].k.mode, ex, sh)
  PROVE  CInv'
BY Keeps DEF Exclusive

(* What the code does at several places. *)

\* The writer's frames are in the index.
LEMMA Counts ==
  ASSUME NEW c \in Conn, CnShape, NEW mx, NEW chg, NEW dirty, NEW w, NEW pc,
         cn' = [cn EXCEPT ![c].hdr.mx = mx, ![c].hdr.chg = chg, ![c].dirty = dirty,
                          ![c].w = w, ![c].pc = pc]
  PROVE  Goes(c, pc, cn[c].k.mode)
BY DEF CnShape, CnRec, Goes

\* A record that takes the place of c's.
LEMMA Puts ==
  ASSUME NEW c \in Conn, CnShape, NEW r, CnRec(r), cn' = [cn EXCEPT ![c] = r]
  PROVE  Goes(c, r.pc, r.k.mode)
BY DEF CnShape, CnRec, Goes

\* A header that was accepted.
LEMMA Accepts ==
  ASSUME NEW c \in Conn, CInv, NEW ex,
         cn' = [cn EXCEPT ![c] = AcceptHdr(c, cn[c])], LocksOf(c, ex, {}),
         \/ cn[c].pc = "header" /\ ex = held[c].excl
         \/ cn[c].pc = "hdrtry" /\ ex = held[c].excl \ {WRITE}
  PROVE  CInv'
<1> DEFINE r == AcceptHdr(c, cn[c])
<1>1. CnRec(r) /\ r.k.mode = cn[c].k.mode /\ r.pc = IF InCkpt(c) THEN "kstart" ELSE "pick0"
  BY DEF CInv, CnShape, CnRec, AcceptHdr
<1> HIDE DEF r
<1>2. Goes(c, r.pc, cn[c].k.mode)
  BY <1>1, Puts, Zenon DEF CInv, r
<1>3. Locks(r.pc, cn[c].k.mode, ex, {}) /\ cn[c].pc # "closed"
  BY <1>1, LockNumbers DEF CInv, Owns, OwnsOf, Locks, InCkpt
<1>4. QED
  BY <1>2, <1>3, Moves

\* A begin that failed, or has to be tried again.
LEMMA Busies ==
  ASSUME NEW c \in Conn, CInv, NEW ex, NEW me,
         CnRec(me), me.k.mode = cn[c].k.mode,
         cn' = [cn EXCEPT ![c] = BusyHdr(c, me)], LocksOf(c, ex, {}),
         \/ cn[c].pc = "hdrlock" /\ ex = held[c].excl
         \/ cn[c].pc = "recover" /\ ex = held[c].excl \ {WRITE}
  PROVE  CInv'
<1> DEFINE r == BusyHdr(c, me)
<1>1. /\ CnRec(r) /\ r.k.mode = cn[c].k.mode
      /\ r.pc \in {"header", "kfin", "idle"}
      /\ InCkpt(c) => r.pc = "kfin"
      /\ ~InCkpt(c) => r.pc \in {"header", "idle"}
  BY DEF CnRec, BusyHdr, FailRead
<1> HIDE DEF r
<1>2. Goes(c, r.pc, cn[c].k.mode)
  BY <1>1, Puts, Zenon DEF CInv, r
<1>3. Locks(r.pc, cn[c].k.mode, ex, {}) /\ cn[c].pc # "closed"
  BY <1>1, LockNumbers DEF CInv, Owns, OwnsOf, Locks, InCkpt
<1>4. QED
  BY <1>2, <1>3, Moves

\* The choice of a mark starts again.
LEMMA Retries ==
  ASSUME NEW c \in Conn, CInv, cn[c].pc \in {"chk0", "excl", "share", "chk"},
         cn' = [cn EXCEPT ![c] = Retry(c, cn[c])], LocksOf(c, held[c].excl, {})
  PROVE  CInv'
<1> DEFINE r == Retry(c, cn[c])
<1>1. /\ CnRec(r) /\ r.k.mode = cn[c].k.mode
      /\ r.pc = IF UseWal(c) THEN "pick" ELSE "header"
  BY DEF CInv, CnShape, CnRec, Retry
<1> HIDE DEF r
<1>2. Goes(c, r.pc, cn[c].k.mode)
  BY <1>1, Puts, Zenon DEF CInv, r
<1>3. OwnsOf(c)
  BY DEF CInv, Owns
<1>4. Locks(r.pc, cn[c].k.mode, held[c].excl, {})
  BY <1>1, <1>3, LockNumbers DEF OwnsOf, Locks, UseWal, Has
<1>5. QED
  BY <1>2, <1>4, Moves

\* The snapshot is taken.
LEMMA Opens ==
  ASSUME NEW c \in Conn, CInv, cn[c].pc \in {"chk0", "chk"}, NEW me, NEW image,
         CnRec(me), me.k.mode = cn[c].k.mode,
         cn' = [cn EXCEPT ![c] = OpenTx(c, me, image)], UNCHANGED held
  PROVE  CInv'
<1> DEFINE r == OpenTx(c, me, image)
<1>1. /\ CnRec(r) /\ r.k.mode = cn[c].k.mode
      /\ UseWal(c) => r.pc \in {"whdr", "wframe"}
      /\ ~UseWal(c) => r.pc = "read"
  BY DEF CnRec, OpenTx
<1> HIDE DEF r
<1>2. Goes(c, r.pc, cn[c].k.mode)
  BY <1>1, Puts, Zenon DEF CInv, r
<1>3. OwnsOf(c)
  BY DEF CInv, Owns
<1>4. Locks(r.pc, cn[c].k.mode, held[c].excl, held[c].shared)
  BY <1>1, <1>3, LockNumbers DEF OwnsOf, Locks, UseWal, Has
<1>5. QED
  BY <1>2, <1>4, Moves, SameLocks DEF CInv

\* The log is started over.
LEMMA Restarts ==
  ASSUME NEW c \in Conn, CInv, cn[c].pc \in {"restart", "kmode"},
         cn' = [cn EXCEPT ![c] = RestartHdr(cn[c])],
         CanExclude(READERS), LockX(c, READERS)
  PROVE  CInv'
<1> DEFINE r == RestartHdr(cn[c])
<1>1. CnRec(r) /\ r.k.mode = cn[c].k.mode /\ r.pc = "sh1"
  BY DEF CInv, CnShape, CnRec, RestartHdr
<1> HIDE DEF r
<1>2. Goes(c, "sh1", cn[c].k.mode)
  BY <1>1, Puts, Zenon DEF CInv, r
<1>3. OwnsOf(c)
  BY DEF CInv, Owns
<1>4. Locks("sh1", cn[c].k.mode, held[c].excl \cup READERS, held[c].shared)
  BY <1>3 DEF OwnsOf, Locks
<1>5. QED
  BY <1>2, <1>4, Moves, TakeX DEF CInv

\* Reading the header, recovery included.
LEMMA HeaderSteps ==
  ASSUME NEW c \in Conn, CInv,
         BeginRead(c) \/ TryHdr(c) \/ LockHdr(c) \/ TryHdrAgain(c)
         \/ RecoverLock(c) \/ RecoverScan(c) \/ RecoverHdr0(c)
         \/ RecoverInfo(c)
  PROVE  CInv'
<1>1. CASE BeginRead(c)
  <2>1. Goes(c, "header", cn[c].k.mode)
    BY <1>1 DEF BeginRead, Goes, CInv, CnShape, CnRec
  <2>2. LocksOf(c, held[c].excl, held[c].shared)
    BY <1>1, SameLocks DEF BeginRead, CInv
  <2>3. QED
    BY <1>1, <2>1, <2>2, Moves, Zenon DEF Locks, CInv, Owns, OwnsOf, At, BeginRead
<1>2. CASE TryHdr(c)
  <2>1. CASE HdrReadable
    <3>1. OwnsOf(c) /\ CnRec(cn[c])
      BY DEF CInv, Owns, CnShape
    <3>2. LocksOf(c, held[c].excl, {})
      BY <1>2, <2>1, <3>1, SameLocks, LockNumbers, Zenon DEF TryHdr, CInv, OwnsOf, Locks, At
    <3>3. QED
      BY <1>2, <2>1, <3>1, <3>2, Accepts, LockNumbers, Zenon DEF TryHdr, At, OwnsOf, Locks
  <2>2. CASE ~HdrReadable
    <3>1. Goes(c, "hdrlock", cn[c].k.mode)
      BY <1>2, <2>2 DEF TryHdr, Goes, CInv, CnShape, CnRec
    <3>2. LocksOf(c, held[c].excl, held[c].shared)
      BY <1>2, <2>2, SameLocks DEF TryHdr, CInv
    <3>3. QED
      BY <1>2, <2>2, <3>1, <3>2, Moves, Zenon DEF Locks, CInv, Owns, OwnsOf, At, TryHdr
  <2>3. QED
    BY <1>2, <2>1, <2>2 DEF TryHdr
<1>3. CASE LockHdr(c)
  <2>1. CASE CanExclude({WRITE})
    <3>1. Goes(c, "hdrtry", cn[c].k.mode)
      BY <1>3, <2>1 DEF LockHdr, Goes, CInv, CnShape, CnRec, Goto
    <3>2. LocksOf(c, held[c].excl \cup {WRITE}, held[c].shared)
      BY <1>3, <2>1, TakeX DEF LockHdr, CInv
    <3>3. OwnsOf(c) /\ WRITE \notin held[c].excl
      BY <2>1 DEF CanExclude, CInv, Owns
    <3>4. QED
      BY <1>3, <2>1, <3>1, <3>2, <3>3, Moves, LockNumbers, Zenon DEF Locks, OwnsOf, At, LockHdr
  <2>2. CASE ~CanExclude({WRITE})
    <3>1. OwnsOf(c) /\ CnRec(cn[c])
      BY DEF CInv, Owns, CnShape
    <3>2. LocksOf(c, held[c].excl, {})
      BY <1>3, <2>2, <3>1, SameLocks, LockNumbers, Zenon DEF LockHdr, CInv, OwnsOf, Locks, At
    <3>3. QED
      BY <1>3, <2>2, <3>1, <3>2, Busies, LockNumbers DEF LockHdr, At, OwnsOf, Locks
  <2>3. QED
    BY <1>3, <2>1, <2>2 DEF LockHdr
<1>4. CASE TryHdrAgain(c)
  <2>1. CASE HdrReadable
    <3>1. OwnsOf(c) /\ CnRec(cn[c])
      BY DEF CInv, Owns, CnShape
    <3>2. LocksOf(c, held[c].excl \ {WRITE}, {})
      BY <1>4, <2>1, <3>1, GiveX, LockNumbers, Zenon DEF TryHdrAgain, CInv, OwnsOf, Locks, At
    <3>3. QED
      BY <1>4, <2>1, <3>1, <3>2, Accepts, LockNumbers DEF TryHdrAgain, At, OwnsOf, Locks
  <2>2. CASE ~HdrReadable
    <3>1. Goes(c, "recover", cn[c].k.mode)
      BY <1>4, <2>2 DEF TryHdrAgain, Goes, CInv, CnShape, CnRec, Goto
    <3>2. LocksOf(c, held[c].excl, held[c].shared)
      BY <1>4, <2>2, SameLocks DEF TryHdrAgain, CInv
    <3>3. QED
      BY <1>4, <2>2, <3>1, <3>2, Moves, Zenon DEF Locks, CInv, Owns, OwnsOf, At, TryHdrAgain
  <2>3. QED
    BY <1>4, <2>1, <2>2 DEF TryHdrAgain
<1>5. CASE RecoverLock(c)
  <2>1. CASE CanExclude(RecoverLocks(c))
    <3>1. Goes(c, "rscan", cn[c].k.mode)
      BY <1>5, <2>1 DEF RecoverLock, Goes, CInv, CnShape, CnRec, Goto
    <3>2. LocksOf(c, held[c].excl \cup RecoverLocks(c), held[c].shared)
      BY <1>5, <2>1, TakeX DEF RecoverLock, CInv
    <3>3. QED
      BY <1>5, <2>1, <3>1, <3>2, Moves, LockNumbers, Zenon DEF Locks, CInv, Owns, OwnsOf, At,
         RecoverLock, RecoverLocks, InCkpt
  <2>2. CASE ~CanExclude(RecoverLocks(c))
    <3> DEFINE me == [cn[c] EXCEPT !.chg = TRUE]
    <3>0. CnRec(me) /\ me.k.mode = cn[c].k.mode
      BY DEF CInv, CnShape, CnRec
    <3>1. OwnsOf(c) /\ CnRec(cn[c])
      BY DEF CInv, Owns, CnShape
    <3>2. LocksOf(c, held[c].excl \ {WRITE}, {})
      BY <1>5, <2>2, <3>1, GiveX, LockNumbers, Zenon DEF RecoverLock, CInv, OwnsOf, Locks, At
    <3>3. cn[c].pc = "recover" /\ cn' = [cn EXCEPT ![c] = BusyHdr(c, me)]
      BY <1>5, <2>2, Zenon DEF RecoverLock, At
    <3> HIDE DEF me
    <3>4. QED
      BY <3>0, <3>2, <3>3, Busies, Zenon
  <2>3. QED
    BY <1>5, <2>1, <2>2 DEF RecoverLock
<1>6. CASE RecoverScan(c)
  <2>1. Goes(c, "rh1", cn[c].k.mode)
    BY <1>6 DEF RecoverScan, Goes, CInv, CnShape, CnRec
  <2>2. LocksOf(c, held[c].excl, held[c].shared)
    BY <1>6, SameLocks DEF RecoverScan, CInv
  <2>3. QED
    BY <1>6, <2>1, <2>2, Moves, Zenon DEF Locks, CInv, Owns, OwnsOf, At, RecoverScan
<1>7. CASE RecoverHdr0(c)
  <2>1. Goes(c, "rinfo", cn[c].k.mode)
    BY <1>7 DEF RecoverHdr0, Goes, CInv, CnShape, CnRec, Goto
  <2>2. LocksOf(c, held[c].excl, held[c].shared)
    BY <1>7, SameLocks DEF RecoverHdr0, CInv
  <2>3. QED
    BY <1>7, <2>1, <2>2, Moves, Zenon DEF Locks, CInv, Owns, OwnsOf, At, RecoverHdr0
<1>8. CASE RecoverInfo(c)
  <2> DEFINE ex == held[c].excl \ (RecoverLocks(c) \cup {WRITE})
  <2>1. Goes(c, IF InCkpt(c) THEN "kstart" ELSE "pick0", cn[c].k.mode)
    BY <1>8 DEF RecoverInfo, Goes, CInv, CnShape, CnRec, Goto
  <2>2. LocksOf(c, ex, held[c].shared)
    BY <1>8, GiveX DEF RecoverInfo, CInv
  <2>3. cn[c].pc = "rinfo" /\ OwnsOf(c)
    BY <1>8 DEF RecoverInfo, At, CInv, Owns
  <2>4. ex \subseteq {CKPT} /\ (cn[c].k.mode = None => ex = {}) /\ held[c].shared = {}
        /\ (cn[c].k.mode \notin {None, "CLOSE"} => CKPT \in ex)
        /\ cn[c].k.mode \in {None, "PASSIVE", "CLOSE"}
    BY <2>3, LockNumbers DEF OwnsOf, Locks, RecoverLocks, InCkpt
  <2>5. Locks(IF InCkpt(c) THEN "kstart" ELSE "pick0", cn[c].k.mode, ex, held[c].shared)
    <3> HIDE DEF ex
    <3>1. QED
      BY <2>4 DEF Locks, InCkpt
  <2> HIDE DEF ex
  <2>6. QED
    BY <2>1, <2>2, <2>3, <2>5, Moves
<1>9. QED
  BY <1>1, <1>2, <1>3, <1>4, <1>5, <1>6, <1>7, <1>8

\* From the header to the open transaction.
LEMMA BeginSteps ==
  ASSUME NEW c \in Conn, CInv,
         PickZero(c) \/ CheckZero(c) \/ PickMark(c) \/ RaiseMark(c)
         \/ ShareMark(c) \/ SetMin(c) \/ CheckMark(c) \/ EndRead(c)
  PROVE  CInv'
<1>1. CASE PickZero(c)
  <2>1. CASE shm.nBackfill = cn[c].hdr.mx /\ CanShare(READ(0))
    <3>1. Goes(c, "chk0", cn[c].k.mode)
      BY <1>1, <2>1 DEF PickZero, Goes, CInv, CnShape, CnRec, Goto
    <3>2. LocksOf(c, held[c].excl, held[c].shared \cup {READ(0)})
      BY <1>1, <2>1, TakeS DEF PickZero, CInv
    <3>3. QED
      BY <1>1, <2>1, <3>1, <3>2, Moves, LockNumbers, Zenon DEF Locks, CInv, Owns, OwnsOf, At,
         PickZero
  <2>2. CASE ~(shm.nBackfill = cn[c].hdr.mx /\ CanShare(READ(0)))
    <3>1. Goes(c, "pick", cn[c].k.mode)
      BY <1>1, <2>2 DEF PickZero, Goes, CInv, CnShape, CnRec, Goto
    <3>2. LocksOf(c, held[c].excl, held[c].shared)
      BY <1>1, <2>2, SameLocks DEF PickZero, CInv
    <3>3. QED
      BY <1>1, <2>2, <3>1, <3>2, Moves, Zenon DEF Locks, CInv, Owns, OwnsOf, At, PickZero
  <2>3. QED
    BY <1>1, <2>1, <2>2 DEF PickZero
<1>2. CASE CheckZero(c)
  <2>1. CASE shm.h0 = cn[c].hdr
    BY <1>2, <2>1, Opens DEF CheckZero, CInv, CnShape, At
  <2>2. CASE shm.h0 # cn[c].hdr
    BY <1>2, <2>2, Retries, GiveS DEF CheckZero, CInv, At
  <2>3. QED
    BY <1>2, <2>1, <2>2 DEF CheckZero
<1>3. CASE PickMark(c)
  <2>1. CASE cn'[c].pc = "excl"
    <3>1. Goes(c, "excl", cn[c].k.mode)
      BY <1>3, <2>1, Zenon DEF PickMark, Goes, CInv, CnShape, CnRec
    <3>2. LocksOf(c, held[c].excl, held[c].shared)
      BY <1>3, <2>1, SameLocks, Zenon DEF PickMark, CInv
    <3>3. QED
      BY <1>3, <2>1, <3>1, <3>2, Moves, Zenon DEF Locks, CInv, Owns, OwnsOf, At, PickMark
  <2>2. CASE cn'[c].pc # "excl"
    <3>1. Goes(c, "share", cn[c].k.mode)
      BY <1>3, <2>2, Zenon DEF PickMark, Goes, CInv, CnShape, CnRec
    <3>2. LocksOf(c, held[c].excl, held[c].shared)
      BY <1>3, <2>2, SameLocks, Zenon DEF PickMark, CInv
    <3>3. QED
      BY <1>3, <2>2, <3>1, <3>2, Moves, Zenon DEF Locks, CInv, Owns, OwnsOf, At, PickMark
  <2>3. QED
    BY <1>3, <2>1, <2>2, Zenon DEF PickMark
<1>4. CASE RaiseMark(c)
  <2> DEFINE free == {i \in 1..NReader - 1 : CanExclude({READ(i)})}
             j    == CHOOSE i \in free : \A g \in free : i <= g
  <2>1. \/ cn' = [cn EXCEPT ![c].mxI = j, ![c].mxMark = cn[c].hdr.mx, ![c].pc = "share"]
        \/ cn' = [cn EXCEPT ![c] = IF cn[c].mxI = 0 THEN Retry(c, cn[c])
                                   ELSE [cn[c] EXCEPT !.pc = "share"]]
    BY <1>4, Zenon DEF RaiseMark
  <2>2. OwnsOf(c) /\ cn[c].pc = "excl"
    BY <1>4, Zenon DEF CInv, Owns, RaiseMark, At
  <2>3. LocksOf(c, held[c].excl, held[c].shared) /\ held[c].shared = {}
    BY <1>4, <2>2, SameLocks, Zenon DEF RaiseMark, CInv, OwnsOf, Locks
  <2>4. CASE cn' = [cn EXCEPT ![c] = Retry(c, cn[c])]
    BY <2>2, <2>3, <2>4, Retries, Zenon
  <2>5. CASE cn' = [cn EXCEPT ![c] = [cn[c] EXCEPT !.pc = "share"]]
    <3>1. Goes(c, "share", cn[c].k.mode)
      BY <2>5 DEF Goes, CInv, CnShape, CnRec
    <3>2. QED
      BY <2>2, <2>3, <3>1, Moves, Zenon DEF OwnsOf, Locks
  <2>6. ASSUME NEW i, NEW m,
               cn' = [cn EXCEPT ![c].mxI = i, ![c].mxMark = m, ![c].pc = "share"]
        PROVE  CInv'
    <3>1. Goes(c, "share", cn[c].k.mode)
      BY <2>6 DEF Goes, CInv, CnShape, CnRec
    <3>2. QED
      BY <2>2, <2>3, <3>1, Moves, Zenon DEF OwnsOf, Locks
  <2> HIDE DEF j
  <2>7. CASE cn' = [cn EXCEPT ![c] = IF cn[c].mxI = 0 THEN Retry(c, cn[c])
                                     ELSE [cn[c] EXCEPT !.pc = "share"]]
    <3>1. CASE cn[c].mxI = 0
      BY <2>4, <2>7, <3>1
    <3>2. CASE cn[c].mxI # 0
      BY <2>5, <2>7, <3>2
    <3>3. QED
      BY <3>1, <3>2
  <2>8. QED
    BY <2>1, <2>6, <2>7, Zenon
<1>5. CASE ShareMark(c)
  <2>1. CASE CanShare(READ(cn[c].mxI))
    <3>1. Goes(c, "min", cn[c].k.mode)
      BY <1>5, <2>1 DEF ShareMark, Goes, CInv, CnShape, CnRec, Goto
    <3>2. LocksOf(c, held[c].excl, held[c].shared \cup {READ(cn[c].mxI)})
      BY <1>5, <2>1, TakeS DEF ShareMark, CInv
    <3>3. QED
      BY <1>5, <2>1, <3>1, <3>2, Moves, LockNumbers, Zenon DEF Locks, CInv, Owns, OwnsOf, At,
         ShareMark
  <2>2. CASE ~CanShare(READ(cn[c].mxI))
    <3>1. OwnsOf(c)
      BY DEF CInv, Owns
    <3>2. LocksOf(c, held[c].excl, {})
      BY <1>5, <2>2, <3>1, SameLocks, Zenon DEF ShareMark, CInv, OwnsOf, Locks, At
    <3>3. QED
      BY <1>5, <2>2, <3>2, Retries DEF ShareMark, At
  <2>3. QED
    BY <1>5, <2>1, <2>2 DEF ShareMark
<1>6. CASE SetMin(c)
  <2>1. Goes(c, "chk", cn[c].k.mode)
    BY <1>6 DEF SetMin, Goes, CInv, CnShape, CnRec
  <2>2. LocksOf(c, held[c].excl, held[c].shared)
    BY <1>6, SameLocks DEF SetMin, CInv
  <2>3. QED
    BY <1>6, <2>1, <2>2, Moves, Zenon DEF Locks, CInv, Owns, OwnsOf, At, SetMin
<1>7. CASE CheckMark(c)
  <2>1. CASE shm.mark[cn[c].mxI] = cn[c].mxMark /\ shm.h0 = cn[c].hdr
    <3> DEFINE me == [cn[c] EXCEPT !.mxI = 0, !.mxMark = 0]
    <3>1. CnRec(me) /\ me.k.mode = cn[c].k.mode
      BY DEF CInv, CnShape, CnRec
    <3> HIDE DEF me
    <3>2. QED
      BY <1>7, <2>1, <3>1, Opens, Zenon DEF CheckMark, At, me
  <2>2. CASE ~(shm.mark[cn[c].mxI] = cn[c].mxMark /\ shm.h0 = cn[c].hdr)
    BY <1>7, <2>2, Retries, GiveS DEF CheckMark, CInv, At
  <2>3. QED
    BY <1>7, <2>1, <2>2 DEF CheckMark
<1>8. CASE EndRead(c)
  <2>1. Goes(c, "idle", cn[c].k.mode)
    BY <1>8 DEF EndRead, Goes, CInv, CnShape, CnRec
  <2>2. LocksOf(c, held[c].excl, {})
    BY <1>8, GiveS DEF EndRead, CInv
  <2>3. QED
    BY <1>8, <2>1, <2>2, Moves, LockNumbers, Zenon DEF Locks, CInv, Owns, OwnsOf, At, EndRead
<1>9. QED
  BY <1>1, <1>2, <1>3, <1>4, <1>5, <1>6, <1>7, <1>8

\* A write transaction.
LEMMA WriteSteps ==
  ASSUME NEW c \in Conn, CInv,
         BeginWrite(c) \/ CheckWrite(c) \/ Restart(c) \/ UnlockZero(c)
         \/ WriteWalHdr(c) \/ WriteFrame(c) \/ RewriteChecksums(c)
         \/ AppendIndex(c) \/ CountFrames(c) \/ CommitHdr0(c)
         \/ EndWrite(c) \/ Rollback(c) \/ FailWrite(c)
  PROVE  CInv'
<1>1. CASE BeginWrite(c)
  <2>1. Goes(c, "wchk", cn[c].k.mode)
    BY <1>1 DEF BeginWrite, Goes, CInv, CnShape, CnRec, Goto
  <2>2. LocksOf(c, held[c].excl \cup {WRITE}, held[c].shared)
    BY <1>1, TakeX DEF BeginWrite, CInv
  <2>3. QED
    BY <1>1, <2>1, <2>2, Moves, LockNumbers, Zenon DEF Locks, CInv, Owns, OwnsOf, At, BeginWrite
<1>2. CASE CheckWrite(c)
  <2>1. CASE cn[c].hdr = shm.h0
    <3>1. Goes(c, "write", cn[c].k.mode)
      BY <1>2, <2>1 DEF CheckWrite, Goes, CInv, CnShape, CnRec, Goto
    <3>2. LocksOf(c, held[c].excl, held[c].shared)
      BY <1>2, <2>1, SameLocks DEF CheckWrite, CInv
    <3>3. QED
      BY <1>2, <2>1, <3>1, <3>2, Moves, Zenon DEF Locks, CInv, Owns, OwnsOf, At, CheckWrite
  <2>2. CASE cn[c].hdr # shm.h0
    <3>1. Goes(c, "read", cn[c].k.mode)
      BY <1>2, <2>2 DEF CheckWrite, Goes, CInv, CnShape, CnRec, Goto
    <3>2. LocksOf(c, held[c].excl \ {WRITE}, held[c].shared)
      BY <1>2, <2>2, GiveX DEF CheckWrite, CInv
    <3>3. QED
      BY <1>2, <2>2, <3>1, <3>2, Moves, LockNumbers, Zenon DEF Locks, CInv, Owns, OwnsOf, At,
         CheckWrite
  <2>3. QED
    BY <1>2, <2>1, <2>2 DEF CheckWrite
<1>3. CASE Restart(c)
  <2>1. CASE shm.nBackfill > 0 /\ CanExclude(READERS)
    BY <1>3, <2>1, Restarts DEF Restart, At
  <2>2. CASE ~(shm.nBackfill > 0 /\ CanExclude(READERS))
    <3>1. Goes(c, "unl0", cn[c].k.mode)
      BY <1>3, <2>2 DEF Restart, Goes, CInv, CnShape, CnRec, Goto
    <3>2. LocksOf(c, held[c].excl, held[c].shared)
      BY <1>3, <2>2, SameLocks DEF Restart, CInv
    <3>3. QED
      BY <1>3, <2>2, <3>1, <3>2, Moves, Zenon DEF Locks, CInv, Owns, OwnsOf, At, Restart
  <2>3. QED
    BY <1>3, <2>1, <2>2 DEF Restart
<1>4. CASE UnlockZero(c)
  <2>1. Goes(c, "pick", cn[c].k.mode)
    BY <1>4 DEF UnlockZero, Goes, CInv, CnShape, CnRec, Goto
  <2>2. LocksOf(c, held[c].excl, {})
    BY <1>4, GiveS DEF UnlockZero, CInv
  <2>3. QED
    BY <1>4, <2>1, <2>2, Moves, LockNumbers, Zenon DEF Locks, CInv, Owns, OwnsOf, At, UnlockZero
<1>5. CASE WriteWalHdr(c)
  <2>1. PICK salt : cn' = [cn EXCEPT ![c].pc = "wframe", ![c].hdr.salt = salt,
                                     ![c].hdr.ck = HdrCk(salt)]
    BY <1>5, Zenon DEF WriteWalHdr
  <2>2. Goes(c, "wframe", cn[c].k.mode)
    BY <2>1 DEF Goes, CInv, CnShape, CnRec
  <2>3. LocksOf(c, held[c].excl, held[c].shared)
    BY <1>5, SameLocks, Zenon DEF WriteWalHdr, CInv
  <2>4. QED
    BY <1>5, <2>2, <2>3, Moves, Zenon DEF Locks, CInv, Owns, OwnsOf, At, WriteWalHdr
<1>6. CASE WriteFrame(c)
  <2>a. DOMAIN cn' = Conn /\ \A d \in Conn \ {c} : cn'[d] = cn[d]
    BY <1>6, Zenon DEF WriteFrame, CInv, CnShape
  <2>b. cn'[c].pc \in {"wframe", "wreck", "windex"}
    BY <1>6, Zenon DEF WriteFrame, CInv, CnShape, CnRec
  <2>c. CnRec(cn'[c]) /\ cn'[c].k = cn[c].k
    <3>1. DOMAIN cn'[c] = DOMAIN cn[c]
      BY <1>6, Zenon DEF WriteFrame, CInv, CnShape
    <3>2. cn'[c].k = cn[c].k
      BY <1>6, ZenonT(60) DEF WriteFrame, CInv, CnShape, CnRec
    <3> QED
      BY <3>1, <3>2, Zenon DEF CInv, CnShape, CnRec
  <2>2. /\ Goes(c, cn'[c].pc, cn[c].k.mode)
        /\ cn'[c].pc \in {"wframe", "wreck", "windex"}
    BY <2>a, <2>b, <2>c, Zenon DEF Goes, CInv, CnShape
  <2>3. LocksOf(c, held[c].excl, held[c].shared)
    BY <1>6, SameLocks, Zenon DEF WriteFrame, CInv
  <2>4. QED
    BY <1>6, <2>2, <2>3, Moves, Zenon DEF Locks, CInv, Owns, OwnsOf, At, WriteFrame
<1>7. CASE RewriteChecksums(c)
  <2>1. Goes(c, "windex", cn[c].k.mode)
    BY <1>7, Zenon DEF RewriteChecksums, Goes, CInv, CnShape, CnRec
  <2>2. LocksOf(c, held[c].excl, held[c].shared)
    BY <1>7, SameLocks, Zenon DEF RewriteChecksums, CInv
  <2>3. QED
    BY <1>7, <2>1, <2>2, Moves, Zenon DEF Locks, CInv, Owns, OwnsOf, At, RewriteChecksums
<1>8. CASE AppendIndex(c)
  <2>1. Goes(c, "windex", cn[c].k.mode)
    BY <1>8 DEF AppendIndex, Goes, CInv, CnShape, CnRec, At
  <2>2. LocksOf(c, held[c].excl, held[c].shared)
    BY <1>8, SameLocks DEF AppendIndex, CInv
  <2>3. QED
    BY <1>8, <2>1, <2>2, Moves, Zenon DEF Locks, CInv, Owns, OwnsOf, At, AppendIndex
<1>9. CASE CountFrames(c)
  <2>1. Goes(c, IF cn[c].w.commit THEN "wh1" ELSE "write", cn[c].k.mode)
    BY <1>9, Counts, Zenon DEF CountFrames, CInv
  <2>2. LocksOf(c, held[c].excl, held[c].shared)
    BY <1>9, SameLocks, Zenon DEF CountFrames, CInv
  <2>3. QED
    BY <1>9, <2>1, <2>2, Moves, Zenon DEF Locks, CInv, Owns, OwnsOf, At, CountFrames
<1>10. CASE CommitHdr0(c)
  <2>1. Goes(c, "wend", cn[c].k.mode)
    BY <1>10 DEF CommitHdr0, Goes, CInv, CnShape, CnRec, Goto
  <2>2. LocksOf(c, held[c].excl, held[c].shared)
    BY <1>10, SameLocks DEF CommitHdr0, CInv
  <2>3. QED
    BY <1>10, <2>1, <2>2, Moves, Zenon DEF Locks, CInv, Owns, OwnsOf, At, CommitHdr0
<1>11. CASE EndWrite(c)
  <2>1. Goes(c, "read", cn[c].k.mode)
    BY <1>11 DEF EndWrite, Goes, CInv, CnShape, CnRec, Goto
  <2>2. LocksOf(c, held[c].excl \ {WRITE}, held[c].shared)
    BY <1>11, GiveX DEF EndWrite, CInv
  <2>3. QED
    BY <1>11, <2>1, <2>2, Moves, LockNumbers, Zenon DEF Locks, CInv, Owns, OwnsOf, At, EndWrite
<1>12. CASE Rollback(c)
  <2>1. Goes(c, "read", cn[c].k.mode)
    BY <1>12 DEF Rollback, Goes, CInv, CnShape, CnRec
  <2>2. LocksOf(c, held[c].excl \ {WRITE}, held[c].shared)
    BY <1>12, GiveX, Zenon DEF Rollback, CInv
  <2>3. QED
    BY <1>12, <2>1, <2>2, Moves, LockNumbers, Zenon DEF Locks, CInv, Owns, OwnsOf, At, Rollback
<1>13. CASE FailWrite(c)
  <2>1. Goes(c, "write", cn[c].k.mode)
    BY <1>13 DEF FailWrite, Goes, CInv, CnShape, CnRec
  <2>2. LocksOf(c, held[c].excl, held[c].shared)
    BY <1>13, SameLocks DEF FailWrite, CInv
  <2>3. QED
    BY <1>13, <2>1, <2>2, Moves, Zenon DEF Locks, CInv, Owns, OwnsOf, At, FailWrite
<1>14. QED
  BY <1>1, <1>2, <1>3, <1>4, <1>5, <1>6, <1>7, <1>8, <1>9, <1>10, <1>11, <1>12, <1>13

\* Writing the header, and starting the log over.
LEMMA HdrSteps ==
  ASSUME NEW c \in Conn, CInv,
         WriteHdr1(c) \/ RestartHdr0(c) \/ RestartInfo(c)
  PROVE  CInv'
<1>1. CASE WriteHdr1(c)
  <2>1. Goes(c, CASE At(c, "rh1") -> "rh0" [] At(c, "sh1") -> "sh0" [] OTHER -> "wh0",
      cn[c].k.mode)
    BY <1>1 DEF WriteHdr1, Goes, CInv, CnShape, CnRec, Goto
  <2>2. LocksOf(c, held[c].excl, held[c].shared)
    BY <1>1, SameLocks DEF WriteHdr1, CInv
  <2>3. QED
    BY <1>1, <2>1, <2>2, Moves, Zenon DEF Locks, CInv, Owns, OwnsOf, At, WriteHdr1
<1>2. CASE RestartHdr0(c)
  <2>1. Goes(c, "sinfo", cn[c].k.mode)
    BY <1>2 DEF RestartHdr0, Goes, CInv, CnShape, CnRec, Goto
  <2>2. LocksOf(c, held[c].excl, held[c].shared)
    BY <1>2, SameLocks DEF RestartHdr0, CInv
  <2>3. QED
    BY <1>2, <2>1, <2>2, Moves, Zenon DEF Locks, CInv, Owns, OwnsOf, At, RestartHdr0
<1>3. CASE RestartInfo(c)
  <2>1. CASE InCkpt(c)
    <3>1. Goes(c, "ktrunc", cn[c].k.mode)
      BY <1>3, <2>1 DEF RestartInfo, Goes, CInv, CnShape, CnRec, Goto
    <3>2. LocksOf(c, held[c].excl, held[c].shared)
      BY <1>3, <2>1, SameLocks DEF RestartInfo, CInv
    <3>3. QED
      BY <1>3, <2>1, <3>1, <3>2, Moves, Zenon DEF Locks, CInv, Owns, OwnsOf, At, RestartInfo,
         InCkpt
  <2>2. CASE ~InCkpt(c)
    <3>1. Goes(c, "unl0", cn[c].k.mode)
      BY <1>3, <2>2 DEF RestartInfo, Goes, CInv, CnShape, CnRec, Goto
    <3>2. LocksOf(c, held[c].excl \ READERS, held[c].shared)
      BY <1>3, <2>2, GiveX DEF RestartInfo, CInv
    <3>3. OwnsOf(c) /\ cn[c].pc = "sinfo"
      BY <1>3 DEF CInv, Owns, RestartInfo, At
    <3>4. cn[c].k.mode = None /\ held[c].excl \ READERS = {WRITE}
      BY <2>2, <3>3, LockNumbers DEF OwnsOf, Locks, InCkpt
    <3>5. QED
      BY <3>1, <3>2, <3>3, <3>4, Moves, Zenon DEF Locks
  <2>3. QED
    BY <1>3, <2>1, <2>2 DEF RestartInfo
<1>4. QED
  BY <1>1, <1>2, <1>3

\* A checkpoint.
LEMMA CheckpointSteps ==
  ASSUME NEW c \in Conn, CInv,
         LockWriter(c) \/ StartCheckpoint(c) \/ MoveMark(c)
         \/ StartIterator(c) \/ LockDb(c) \/ CopyPage(c) \/ FinishCopy(c)
         \/ FailCopy(c) \/ EndMode(c) \/ TruncateLog(c)
  PROVE  CInv'
<1>1. CASE LockWriter(c)
  <2>1. CASE CanExclude({WRITE})
    <3>1. Goes(c, "header", cn[c].k.mode)
      BY <1>1, <2>1 DEF LockWriter, Goes, CInv, CnShape, CnRec, Goto
    <3>2. LocksOf(c, held[c].excl \cup {WRITE}, held[c].shared)
      BY <1>1, <2>1, TakeX DEF LockWriter, CInv
    <3>3. QED
      BY <1>1, <2>1, <3>1, <3>2, Moves, LockNumbers, Zenon DEF Locks, CInv, Owns, OwnsOf, At,
         LockWriter
  <2>2. CASE ~CanExclude({WRITE})
    <3>1. Goes(c, "header", "PASSIVE")
      BY <1>1, <2>2 DEF LockWriter, Goes, CInv, CnShape, CnRec, Goto
    <3>2. LocksOf(c, held[c].excl, held[c].shared)
      BY <1>1, <2>2, SameLocks DEF LockWriter, CInv
    <3>3. QED
      BY <1>1, <2>2, <3>1, <3>2, Keeps, NoMode, Zenon DEF Locks, CInv, Owns, OwnsOf, At, LockWriter
  <2>3. QED
    BY <1>1, <2>1, <2>2 DEF LockWriter
<1>2. CASE StartCheckpoint(c)
  <2>1. CASE shm.nBackfill < cn[c].hdr.mx
    <3>1. Goes(c, "kmark", cn[c].k.mode)
      BY <1>2, <2>1 DEF StartCheckpoint, Goes, CInv, CnShape, CnRec
    <3>2. LocksOf(c, held[c].excl, held[c].shared)
      BY <1>2, <2>1, SameLocks DEF StartCheckpoint, CInv
    <3>3. QED
      BY <1>2, <2>1, <3>1, <3>2, Moves, Zenon DEF Locks, CInv, Owns, OwnsOf, At, StartCheckpoint
  <2>2. CASE ~(shm.nBackfill < cn[c].hdr.mx)
    <3>1. Goes(c, AfterCopy(c), cn[c].k.mode)
      BY <1>2, <2>2 DEF StartCheckpoint, Goes, CInv, CnShape, CnRec, AfterCopy
    <3>2. LocksOf(c, held[c].excl, held[c].shared)
      BY <1>2, <2>2, SameLocks DEF StartCheckpoint, CInv
    <3>3. QED
      BY <1>2, <2>2, <3>1, <3>2, Moves, Zenon DEF Locks, CInv, Owns, OwnsOf, At, StartCheckpoint,
         AfterCopy
  <2>3. QED
    BY <1>2, <2>1, <2>2 DEF StartCheckpoint
<1>3. CASE MoveMark(c)
  <2> DEFINE next == [cn[c] EXCEPT
                 !.k.i = IF cn[c].k.i = NReader - 1 THEN 1 ELSE cn[c].k.i + 1,
                 !.pc = IF cn[c].k.i = NReader - 1 THEN "kiter" ELSE "kmark"]
  <2>1. CnRec(next) /\ next.k.mode = cn[c].k.mode /\ next.pc \in {"kiter", "kmark"}
    BY DEF CInv, CnShape, CnRec
  <2>2. \/ cn' = [cn EXCEPT ![c] = next]
        \/ cn' = [cn EXCEPT ![c] = [next EXCEPT !.k.safe = shm.mark[cn[c].k.i]]]
    BY <1>3 DEF MoveMark
  <2> HIDE DEF next
  <2>3. Goes(c, next.pc, cn[c].k.mode)
    BY <2>1, <2>2 DEF Goes, CInv, CnShape, CnRec
  <2>4. LocksOf(c, held[c].excl, held[c].shared)
    BY <1>3, SameLocks DEF MoveMark, CInv
  <2>5. OwnsOf(c) /\ cn[c].pc = "kmark"
    BY <1>3 DEF CInv, Owns, MoveMark, At
  <2>6. QED
    BY <2>1, <2>3, <2>4, <2>5, Moves, Zenon DEF Locks, OwnsOf
<1>4. CASE StartIterator(c)
  <2>1. CASE shm.nBackfill < cn[c].k.safe
    <3>1. Goes(c, "kread0", cn[c].k.mode)
      BY <1>4, <2>1 DEF StartIterator, Goes, CInv, CnShape, CnRec
    <3>2. LocksOf(c, held[c].excl, held[c].shared)
      BY <1>4, <2>1, SameLocks DEF StartIterator, CInv
    <3>3. QED
      BY <1>4, <2>1, <3>1, <3>2, Moves, Zenon DEF Locks, CInv, Owns, OwnsOf, At, StartIterator
  <2>2. CASE ~(shm.nBackfill < cn[c].k.safe)
    <3>1. Goes(c, AfterCopy(c), cn[c].k.mode)
      BY <1>4, <2>2 DEF StartIterator, Goes, CInv, CnShape, CnRec, AfterCopy
    <3>2. LocksOf(c, held[c].excl, held[c].shared)
      BY <1>4, <2>2, SameLocks DEF StartIterator, CInv
    <3>3. QED
      BY <1>4, <2>2, <3>1, <3>2, Moves, Zenon DEF Locks, CInv, Owns, OwnsOf, At, StartIterator,
         AfterCopy
  <2>3. QED
    BY <1>4, <2>1, <2>2 DEF StartIterator
<1>5. CASE LockDb(c)
  <2>1. CASE CanExclude({READ(0)})
    <3>0. PICK todo : cn' = [cn EXCEPT ![c].k.todo = todo, ![c].pc = "kcopy"]
      BY <1>5, <2>1, Zenon DEF LockDb
    <3>1. Goes(c, "kcopy", cn[c].k.mode)
      BY <3>0 DEF Goes, CInv, CnShape, CnRec
    <3>2. LocksOf(c, held[c].excl \cup {READ(0)}, held[c].shared)
      BY <1>5, <2>1, TakeX DEF LockDb, CInv
    <3>3. QED
      BY <1>5, <2>1, <3>1, <3>2, Moves, LockNumbers, Zenon DEF Locks, CInv, Owns, OwnsOf, At,
         LockDb
  <2>2. CASE ~CanExclude({READ(0)})
    <3>1. Goes(c, AfterCopy(c), cn[c].k.mode)
      BY <1>5, <2>2 DEF LockDb, Goes, CInv, CnShape, CnRec, AfterCopy
    <3>2. LocksOf(c, held[c].excl, held[c].shared)
      BY <1>5, <2>2, SameLocks DEF LockDb, CInv
    <3>3. QED
      BY <1>5, <2>2, <3>1, <3>2, Moves, Zenon DEF Locks, CInv, Owns, OwnsOf, At, LockDb, AfterCopy
  <2>3. QED
    BY <1>5, <2>1, <2>2 DEF LockDb
<1>6. CASE CopyPage(c)
  <2>0. PICK p : cn' = [cn EXCEPT ![c].k.todo[p] = 0]
    BY <1>6, Zenon DEF CopyPage
  <2>1. Goes(c, "kcopy", cn[c].k.mode)
    BY <1>6, <2>0 DEF CopyPage, Goes, CInv, CnShape, CnRec, At
  <2>2. LocksOf(c, held[c].excl, held[c].shared)
    BY <1>6, SameLocks DEF CopyPage, CInv
  <2>3. QED
    BY <1>6, <2>1, <2>2, Moves, Zenon DEF Locks, CInv, Owns, OwnsOf, At, CopyPage
<1>7. CASE FinishCopy(c)
  <2>1. Goes(c, AfterCopy(c), cn[c].k.mode)
    BY <1>7 DEF FinishCopy, Goes, CInv, CnShape, CnRec, AfterCopy
  <2>2. LocksOf(c, held[c].excl \ {READ(0)}, held[c].shared)
    BY <1>7, GiveX, Zenon DEF FinishCopy, CInv
  <2>3. QED
    BY <1>7, <2>1, <2>2, Moves, LockNumbers, Zenon DEF Locks, CInv, Owns, OwnsOf, At, FinishCopy,
       AfterCopy
<1>8. CASE FailCopy(c)
  <2>1. Goes(c, "kfin", cn[c].k.mode)
    BY <1>8 DEF FailCopy, Goes, CInv, CnShape, CnRec
  <2>2. LocksOf(c, held[c].excl \ {READ(0)}, held[c].shared)
    BY <1>8, GiveX, Zenon DEF FailCopy, CInv
  <2>3. QED
    BY <1>8, <2>1, <2>2, Moves, LockNumbers, Zenon DEF Locks, CInv, Owns, OwnsOf, At, FailCopy
<1>9. CASE EndMode(c)
  <2>1. CASE shm.nBackfill >= cn[c].hdr.mx /\ CanExclude(READERS)
    BY <1>9, <2>1, Restarts DEF EndMode, At
  <2>2. CASE ~(shm.nBackfill >= cn[c].hdr.mx /\ CanExclude(READERS))
    <3>1. Goes(c, "kfin", cn[c].k.mode)
      BY <1>9, <2>2 DEF EndMode, Goes, CInv, CnShape, CnRec, Goto
    <3>2. LocksOf(c, held[c].excl, held[c].shared)
      BY <1>9, <2>2, SameLocks DEF EndMode, CInv
    <3>3. QED
      BY <1>9, <2>2, <3>1, <3>2, Moves, Zenon DEF Locks, CInv, Owns, OwnsOf, At, EndMode
  <2>3. QED
    BY <1>9, <2>1, <2>2 DEF EndMode
<1>10. CASE TruncateLog(c)
  <2>1. Goes(c, "kfin", cn[c].k.mode)
    BY <1>10 DEF TruncateLog, Goes, CInv, CnShape, CnRec, Goto
  <2>2. LocksOf(c, held[c].excl \ READERS, held[c].shared)
    BY <1>10, GiveX, Zenon DEF TruncateLog, CInv
  <2>3. QED
    BY <1>10, <2>1, <2>2, Moves, LockNumbers, Zenon DEF Locks, CInv, Owns, OwnsOf, At, TruncateLog
<1>11. QED
  BY <1>1, <1>2, <1>3, <1>4, <1>5, <1>6, <1>7, <1>8, <1>9, <1>10

\* Pages that change in the cache.
LEMMA UpdateStep ==
  ASSUME NEW c \in Conn, CInv, NEW S, Update(c, S)
  PROVE  CInv'
<1>1. Goes(c, "write", cn[c].k.mode)
  BY DEF Update, Goes, CInv, CnShape, CnRec, At
<1>2. LocksOf(c, held[c].excl, held[c].shared)
  BY SameLocks DEF Update, CInv
<1>3. QED
  BY <1>1, <1>2, Moves, Zenon DEF Update, Locks, CInv, Owns, OwnsOf, At

\* Pages on their way to the log.
LEMMA WalFramesStep ==
  ASSUME NEW c \in Conn, CInv, NEW list, NEW commit, WalFrames(c, list, commit)
  PROVE  CInv'
<1>1. cn'[c].pc \in {"restart", "whdr", "wframe"}
  BY DEF WalFrames, CInv, CnShape, CnRec
<1>2. Goes(c, cn'[c].pc, cn[c].k.mode)
  BY DEF WalFrames, Goes, CInv, CnShape, CnRec
<1>3. LocksOf(c, held[c].excl, held[c].shared)
  BY SameLocks DEF WalFrames, CInv
<1>4. QED
  BY <1>1, <1>2, <1>3, Moves, Zenon DEF WalFrames, Locks, CInv, Owns, OwnsOf, At

\* A checkpoint begins.
LEMMA CheckpointStep ==
  ASSUME NEW c \in Conn, CInv, NEW mode \in CkptModes, Checkpoint(c, mode)
  PROVE  CInv'
<1> DEFINE pc == IF mode = "PASSIVE" THEN "header" ELSE "kwlock"
<1>1. Goes(c, pc, mode)
  BY DEF Checkpoint, Goes, CInv, CnShape, CnRec
<1>2. LocksOf(c, held[c].excl \cup {CKPT}, held[c].shared)
  BY TakeX DEF Checkpoint, CInv
<1>3. OwnsOf(c) /\ cn[c].pc = "idle" /\ mode # None /\ mode # "CLOSE"
  BY NoMode DEF CInv, Owns, Checkpoint, At
<1>4. Locks(pc, mode, held[c].excl \cup {CKPT}, held[c].shared)
  BY <1>3 DEF OwnsOf, Locks
<1>5. QED
  BY <1>1, <1>2, <1>3, <1>4, Keeps

\* Connections that come, go and die.
LEMMA ComeAndGo ==
  ASSUME NEW c \in Conn, CInv,
         Open(c) \/ Close(c) \/ DeleteLog(c) \/ Die(c) \/ EndCheckpoint(c)
  PROVE  CInv'
<1>1. \A pc : CnRec(Fresh(pc)) /\ Fresh(pc).pc = pc /\ Fresh(pc).k.mode = None
  BY DEF Fresh, CnRec, NoCkpt
<1>2. OwnsOf(c)
  BY DEF CInv, Owns
<1>3. CASE Open(c)
  <2>1. Goes(c, "idle", None)
    BY <1>1, <1>3, Puts, Zenon DEF Open, CInv
  <2>2. LocksOf(c, held[c].excl, held[c].shared)
    BY <1>3, SameLocks DEF Open, CInv
  <2>3. QED
    BY <1>2, <1>3, <2>1, <2>2, Keeps, NoMode DEF Open, At, OwnsOf, Locks
<1>4. CASE Close(c)
  <2>1. LocksOf(c, held[c].excl, held[c].shared)
    BY <1>4, SameLocks DEF Close, CInv
  <2>2. CASE \E d \in Conn \ {c} : Attached(d)
    <3>0. cn' = [cn EXCEPT ![c] = Fresh("closed")]
      BY <1>4, <2>2 DEF Close
    <3>1. Goes(c, "closed", None)
      BY <1>1, <3>0, Puts, Zenon DEF CInv
    <3>2. QED
      BY <1>2, <1>4, <2>1, <3>1, Keeps, NoMode DEF Close, At, OwnsOf, Locks
  <2>3. CASE ~\E d \in Conn \ {c} : Attached(d)
    <3>1. Goes(c, "header", "CLOSE")
      BY <1>4, <2>3 DEF Close, Goes, CInv, CnShape, CnRec
    <3>2. QED
      BY <1>2, <1>4, <2>1, <2>3, <3>1, Keeps, NoMode
      DEF Close, At, OwnsOf, Locks, Attached
  <2>4. QED
    BY <2>2, <2>3
<1>5. CASE DeleteLog(c)
  <2>1. Goes(c, "closed", None)
    BY <1>1, <1>5, Puts, Zenon DEF DeleteLog, CInv
  <2>2. LocksOf(c, held[c].excl, held[c].shared)
    BY <1>5, SameLocks DEF DeleteLog, CInv
  <2>3. QED
    BY <1>2, <1>5, <2>1, <2>2, Keeps, NoMode DEF DeleteLog, At, OwnsOf, Locks
<1>6. CASE Die(c)
  <2>1. Goes(c, "closed", None)
    BY <1>1, <1>6, Puts, Zenon DEF Die, CInv
  <2>2. LocksOf(c, {}, {})
    BY <1>6 DEF Die, CInv, HeldShape, LocksApart, LocksOf
  <2>3. QED
    BY <1>6, <2>1, <2>2, Keeps, NoMode DEF Die, Attached, Locks
<1>7. CASE EndCheckpoint(c)
  <2>1. LocksOf(c, held[c].excl \ {WRITE, CKPT}, held[c].shared)
    BY <1>7, GiveX DEF EndCheckpoint, CInv
  <2>2. held[c].excl \ {WRITE, CKPT} = {} /\ held[c].shared = {} /\ cn[c].pc = "kfin"
    BY <1>2, <1>7 DEF EndCheckpoint, At, OwnsOf, Locks
  <2>3. CASE Exclusive(c) /\ cn[c].k.ok
    <3>1. Goes(c, "delete", cn[c].k.mode)
      BY <1>7, <2>3 DEF EndCheckpoint, Goes, CInv, CnShape, CnRec
    <3>2. QED
      BY <2>1, <2>2, <2>3, <3>1, Moves, Zenon DEF Exclusive, Locks
  <2>4. CASE Exclusive(c) /\ ~cn[c].k.ok
    <3>1. Goes(c, "closed", None)
      <4>1. cn' = [cn EXCEPT ![c] = Fresh("closed")]
        BY <1>7, <2>4 DEF EndCheckpoint
      <4>2. QED
        BY <1>1, <4>1, Puts, Zenon DEF CInv
    <3>2. QED
      BY <2>1, <2>2, <3>1, Keeps, NoMode DEF Locks
  <2>5. CASE ~Exclusive(c)
    <3>1. Goes(c, "idle", None)
      BY <1>7, <2>5 DEF EndCheckpoint, Goes, CInv, CnShape, CnRec, NoCkpt
    <3>2. QED
      BY <2>1, <2>2, <3>1, Keeps, NoMode DEF Locks
  <2>6. QED
    BY <2>3, <2>4, <2>5
<1>8. QED
  BY <1>3, <1>4, <1>5, <1>6, <1>7

-----------------------------------------------------------------------------
(* The wal-index keeps its fields, and marks in use do not move. *)

\* What MarksStay says of one step.
StepMarks ==
    \A d \in Conn : \A i \in 1..NReader - 1 :
        (READ(i) \in held[d].shared /\ READ(i) \in held'[d].shared)
            => shm'.mark[i] = shm.mark[i]

\* Steps that leave the wal-index, or its marks, alone.
LEMMA OtherFields ==
  ASSUME NEW c \in Conn, ShmShape,
         \/ RecoverScan(c) \/ WriteHdr1(c) \/ RecoverHdr0(c) \/ RestartHdr0(c)
         \/ AppendIndex(c) \/ CommitHdr0(c) \/ Rollback(c) \/ LockDb(c) \/ FinishCopy(c)
         \/ UNCHANGED shm
  PROVE  ShmShape' /\ shm'.mark = shm.mark
<1>1. CASE RecoverScan(c)
  BY <1>1 DEF RecoverScan, ShmShape
<1>2. CASE WriteHdr1(c) \/ RecoverHdr0(c) \/ RestartHdr0(c) \/ CommitHdr0(c)
  BY <1>2 DEF WriteHdr1, RecoverHdr0, RestartHdr0, CommitHdr0, ShmShape
<1>3. CASE AppendIndex(c) \/ Rollback(c)
  BY <1>3 DEF AppendIndex, Rollback, ShmShape
<1>4. CASE LockDb(c) \/ FinishCopy(c)
  BY <1>4 DEF LockDb, FinishCopy, ShmShape
<1>5. CASE UNCHANGED shm
  BY <1>5 DEF ShmShape
<1>6. QED
  BY <1>1, <1>2, <1>3, <1>4, <1>5

\* A mark is moved under its own lock, which nobody shares.
LEMMA OneMark ==
  ASSUME NEW c \in Conn, IInv, RaiseMark(c) \/ MoveMark(c)
  PROVE  ShmShape' /\ StepMarks
<1>1. ASSUME NEW j \in 1..NReader - 1, NEW m, CanExclude({READ(j)}),
             shm' = [shm EXCEPT !.mark[j] = m]
      PROVE  ShmShape' /\ StepMarks
  <2>1. ShmShape' /\ \A i \in (1..NReader - 1) \ {j} : shm'.mark[i] = shm.mark[i]
    BY <1>1 DEF IInv, ShmShape
  <2>2. \A d \in Conn : READ(j) \notin held[d].shared
    BY <1>1 DEF CanExclude
  <2>3. QED
    BY <2>1, <2>2 DEF StepMarks
<1>2. CASE UNCHANGED shm
  BY <1>2 DEF IInv, ShmShape, StepMarks
<1>3. CASE RaiseMark(c)
  <2> DEFINE free == {i \in 1..NReader - 1 : CanExclude({READ(i)})}
             j    == CHOOSE i \in free : \A g \in free : i <= g
  <2>1. CASE free = {}
    BY <1>2, <1>3, <2>1, Zenon DEF RaiseMark
  <2>2. CASE free # {}
    <3>1. \E i \in free : \A g \in free : i <= g
      <4>1. free \subseteq 1..NReader - 1 /\ 1..NReader - 1 \subseteq Nat
        BY WalConstants
      <4>2. QED
        BY <2>2, <4>1, Smallest, Zenon
    <3>2. j \in free
      BY <3>1, Zenon
    <3>3. shm' = [shm EXCEPT !.mark[j] = cn[c].hdr.mx]
      BY <1>3, <2>2, Zenon DEF RaiseMark
    <3> HIDE DEF j
    <3>4. j \in 1..NReader - 1 /\ CanExclude({READ(j)})
      BY <3>2
    <3>5. QED
      BY <1>1, <3>3, <3>4
  <2>3. QED
    BY <2>1, <2>2
<1>4. CASE MoveMark(c)
  <2>1. PICK m : \/ UNCHANGED shm
                 \/ CanExclude({READ(cn[c].k.i)}) /\ shm' = [shm EXCEPT !.mark[cn[c].k.i] = m]
    BY <1>4 DEF MoveMark
  <2>2. CASE cn[c].k.i \in 1..NReader - 1
    BY <1>1, <1>2, <2>1, <2>2
  <2>3. CASE cn[c].k.i \notin 1..NReader - 1
    BY <1>2, <2>1, <2>3, Zenon DEF IInv, ShmShape, StepMarks
  <2>4. QED
    BY <2>2, <2>3
<1>5. QED
  BY <1>3, <1>4

\* All marks are moved under all their locks, or when nobody is attached.
LEMMA AllMarks ==
  ASSUME NEW c \in Conn, IInv,
         RecoverInfo(c) \/ RestartInfo(c) \/ Open(c) \/ DeleteLog(c)
  PROVE  ShmShape' /\ StepMarks
<1>1. OwnsOf(c)
  BY DEF IInv, Owns
<1>2. ShmShape'
  <2>1. DOMAIN ZeroShm = DOMAIN shm /\ DOMAIN ZeroShm.mark = 1..NReader - 1
    BY DEF ZeroShm, IInv, ShmShape
  <2>2. CASE RecoverInfo(c) \/ RestartInfo(c)
    BY <2>2, Zenon DEF RecoverInfo, RestartInfo, IInv, ShmShape
  <2>3. CASE Open(c) \/ DeleteLog(c)
    BY <2>1, <2>3 DEF Open, DeleteLog, IInv, ShmShape
  <2>4. QED
    BY <2>2, <2>3
<1>3. CASE RecoverInfo(c) \/ RestartInfo(c)
  <2>1. READERS \subseteq held[c].excl
    BY <1>1, <1>3 DEF RecoverInfo, RestartInfo, At, OwnsOf, Locks
  <2>2. \A d \in Conn, i \in 1..NReader - 1 : READ(i) \notin held[d].shared
    BY <2>1, LockNumbers DEF IInv, LocksApart
  <2>3. QED
    BY <1>2, <2>2 DEF StepMarks
<1>4. CASE UNCHANGED shm
  BY <1>2, <1>4 DEF StepMarks
<1>5. CASE \A d \in Conn : held[d].shared = {}
  BY <1>2, <1>5 DEF StepMarks
<1>6. CASE Open(c)
  <2>1. CASE \A d \in Conn : cn[d].pc = "closed"
    <3>1. \A d \in Conn : held[d].shared = {}
      BY <2>1 DEF IInv, Owns, OwnsOf, Locks
    <3>2. QED
      BY <1>5, <3>1
  <2>2. CASE ~\A d \in Conn : cn[d].pc = "closed"
    BY <1>4, <1>6, <2>2 DEF Open, Attached
  <2>3. QED
    BY <2>1, <2>2
<1>7. CASE DeleteLog(c)
  <2>1. held[c].shared = {} /\ Exclusive(c)
    BY <1>1, <1>7 DEF DeleteLog, At, OwnsOf, Locks, Exclusive
  <2>2. \A d \in Conn \ {c} : cn[d].pc = "closed"
    BY <2>1 DEF IInv, Alone
  <2>3. \A d \in Conn \ {c} : held[d].shared = {}
    BY <2>2 DEF IInv, Owns, OwnsOf, Locks
  <2>4. QED
    BY <1>5, <2>1, <2>3
<1>8. QED
  BY <1>3, <1>6, <1>7

\* Every step.
LEMMA Marks ==
  ASSUME NEW c \in Conn, IInv, Step(c) \/ Call(c) \/ Fault(c)
  PROVE  ShmShape' /\ StepMarks
<1>1. ASSUME ShmShape', shm'.mark = shm.mark
      PROVE  ShmShape' /\ StepMarks
  BY <1>1 DEF StepMarks
<1>2. CASE UNCHANGED shm
  BY <1>1, <1>2, OtherFields DEF IInv
<1>3. CASE Fault(c)
  BY <1>2, <1>3 DEF Fault, FailWrite, FailCopy, Die
<1>4. CASE Call(c)
  <2>1. CASE Open(c)
    BY <2>1, AllMarks
  <2>2. CASE Rollback(c)
    BY <1>1, <2>2, OtherFields DEF IInv
  <2>3. CASE ~Open(c) /\ ~Rollback(c)
    BY <1>2, <1>4, <2>3, Zenon DEF Call, Close, BeginRead, EndRead, BeginWrite, Commit, Update, Spill,
                            WalFrames, Checkpoint
  <2>4. QED
    BY <2>1, <2>2, <2>3
<1>5. CASE Step(c)
  <2>1. CASE RaiseMark(c) \/ MoveMark(c)
    BY <2>1, OneMark
  <2>2. CASE RecoverInfo(c) \/ RestartInfo(c) \/ DeleteLog(c)
    BY <2>2, AllMarks
  <2>3. CASE \/ RecoverScan(c) \/ WriteHdr1(c) \/ RecoverHdr0(c) \/ RestartHdr0(c)
             \/ AppendIndex(c) \/ CommitHdr0(c) \/ LockDb(c) \/ FinishCopy(c)
    BY <1>1, <2>3, OtherFields DEF IInv
  <2>4. CASE \/ TryHdr(c) \/ LockHdr(c) \/ TryHdrAgain(c) \/ RecoverLock(c)
             \/ PickZero(c) \/ CheckZero(c) \/ PickMark(c) \/ ShareMark(c)
             \/ SetMin(c) \/ CheckMark(c)
    BY <1>2, <2>4, Zenon DEF TryHdr, LockHdr, TryHdrAgain, RecoverLock, PickZero, CheckZero,
                      PickMark, ShareMark, SetMin, CheckMark
  <2>5. CASE \/ CheckWrite(c) \/ Restart(c) \/ UnlockZero(c) \/ WriteWalHdr(c)
             \/ WriteFrame(c) \/ RewriteChecksums(c) \/ CountFrames(c) \/ EndWrite(c)
    BY <1>2, <2>5, Zenon DEF CheckWrite, Restart, UnlockZero, WriteWalHdr, WriteFrame,
                      RewriteChecksums, CountFrames, EndWrite
  <2>6. CASE \/ LockWriter(c) \/ StartCheckpoint(c) \/ StartIterator(c) \/ CopyPage(c)
             \/ EndMode(c) \/ TruncateLog(c) \/ EndCheckpoint(c)
    BY <1>2, <2>6 DEF LockWriter, StartCheckpoint, StartIterator, CopyPage, EndMode,
                      TruncateLog, EndCheckpoint
  <2>7. QED
    BY <1>5, <2>1, <2>2, <2>3, <2>4, <2>5, <2>6 DEF Step
<1>6. QED
  BY <1>3, <1>4, <1>5

-----------------------------------------------------------------------------
(* The theorems. *)

\* At first nobody holds a lock.
LEMMA InitInv == Init => IInv
<1> SUFFICES ASSUME Init PROVE IInv
  OBVIOUS
<1>1. CnRec(Fresh("idle")) /\ Fresh("idle").pc = "idle" /\ Fresh("idle").k.mode = None
  BY DEF Fresh, CnRec, NoCkpt
<1>2. CnShape /\ HeldShape /\ LocksApart
  BY <1>1 DEF Init, CnShape, HeldShape, LocksApart
<1>3. ShmShape
  BY DEF Init, ZeroShm, ShmShape
<1>4. Owns /\ Alone
  BY <1>1, NoMode DEF Init, Owns, OwnsOf, Locks, Alone, Exclusive
<1>5. QED
  BY <1>2, <1>3, <1>4 DEF IInv

\* Every step keeps the invariant and the marks in use.
LEMMA NextInv ==
  ASSUME IInv, use \in Use, [Next]_vars
  PROVE  IInv' /\ StepMarks
<1> CInv
  BY DEF IInv, CInv
<1>1. CASE UNCHANGED vars
  BY <1>1 DEF vars, IInv, CnShape, HeldShape, ShmShape, LocksApart, Owns, OwnsOf, Alone,
              Exclusive, StepMarks
<1>2. ASSUME NEW c \in Conn, Step(c) \/ Call(c) \/ Fault(c)
      PROVE  IInv' /\ StepMarks
  <2>1. CInv'
    BY Zenon, <1>2, HeaderSteps, BeginSteps, WriteSteps, HdrSteps, CheckpointSteps, UpdateStep,
       WalFramesStep, CheckpointStep, ComeAndGo, NoMode DEF Step, Call, Fault, Spill, Commit
  <2>2. ShmShape' /\ StepMarks
    BY <1>2, Marks
  <2>3. QED
    BY <2>1, <2>2 DEF CInv, IInv
<1>3. QED
  BY <1>1, <1>2 DEF Next

\* What the library does on its own does not change how the database is used.
LEMMA SameUse ==
  ASSUME NEW c \in Conn, Step(c)
  PROVE  use' = use
<1> USE DEF bounds
<1>1. CASE \/ TryHdr(c) \/ LockHdr(c) \/ TryHdrAgain(c) \/ RecoverLock(c) \/ RecoverScan(c)
           \/ WriteHdr1(c) \/ RecoverHdr0(c) \/ RecoverInfo(c) \/ PickZero(c) \/ CheckZero(c)
  BY <1>1 DEF TryHdr, LockHdr, TryHdrAgain, RecoverLock, RecoverScan, WriteHdr1, RecoverHdr0,
              RecoverInfo, PickZero, CheckZero
<1>2. CASE \/ PickMark(c) \/ RaiseMark(c) \/ ShareMark(c) \/ SetMin(c) \/ CheckMark(c)
           \/ CheckWrite(c) \/ Restart(c) \/ RestartHdr0(c) \/ RestartInfo(c)
  BY <1>2, Zenon DEF PickMark, RaiseMark, ShareMark, SetMin, CheckMark, CheckWrite, Restart,
              RestartHdr0, RestartInfo
<1>3. CASE \/ UnlockZero(c) \/ WriteWalHdr(c) \/ WriteFrame(c) \/ RewriteChecksums(c)
           \/ AppendIndex(c) \/ CountFrames(c) \/ CommitHdr0(c) \/ EndWrite(c) \/ LockWriter(c)
  BY <1>3, Zenon DEF UnlockZero, WriteWalHdr, WriteFrame, RewriteChecksums, AppendIndex, CountFrames,
              CommitHdr0, EndWrite, LockWriter
<1>4. CASE \/ StartCheckpoint(c) \/ MoveMark(c) \/ StartIterator(c) \/ LockDb(c)
           \/ CopyPage(c) \/ FinishCopy(c) \/ EndMode(c) \/ TruncateLog(c)
           \/ EndCheckpoint(c) \/ DeleteLog(c)
  BY <1>4, Zenon DEF StartCheckpoint, MoveMark, StartIterator, LockDb, CopyPage, FinishCopy, EndMode,
              TruncateLog, EndCheckpoint, DeleteLog
<1>5. QED
  BY <1>1, <1>2, <1>3, <1>4 DEF Step

\* A behaviour follows one way of use.
LEMMA UseInv == Spec => [](use \in Use)
<1>1. Init => use \in Use
  BY DEF Init
<1>2. use \in Use /\ [Next]_vars => (use \in Use)'
  <2>1. ASSUME NEW c \in Conn, Step(c)
        PROVE  use' = use
    BY <2>1, SameUse
  <2>2. ASSUME NEW c \in Conn, Call(c)
        PROVE  use' = use
    BY <2>2, Zenon DEF Call, bounds, Open, Close, BeginRead, EndRead, BeginWrite, Commit, Rollback,
                Update, Spill, WalFrames, Checkpoint
  <2>3. ASSUME NEW c \in Conn, Fault(c)
        PROVE  use' = use
    BY <2>3 DEF Fault, FailWrite, FailCopy, Die
  <2>4. QED
    BY <2>1, <2>2, <2>3 DEF Next, vars
<1>3. QED
  BY <1>1, <1>2, PTL DEF Spec

\* At every control location the locks are held that go with it.
THEOREM LocksAreOwned == Spec => []IInv
<1>1. IInv /\ use \in Use /\ [Next]_vars => IInv'
  BY NextInv
<1>2. QED
  BY InitInv, <1>1, UseInv, PTL DEF Spec

\* What one connection holds exclusively no other holds at all (unixShmLock):
\* one writer, one checkpointer, and no mark moved or log restarted under a reader.
LocksExclude ==
    \A c, d \in Conn :
        c # d => held[c].excl \cap (held[d].excl \cup held[d].shared) = {}

\* That holds for every number of connections, whoever dies.
THEOREM LocksExcludeHolds == Spec => []LocksExclude
<1>1. IInv => LocksExclude
  BY DEF IInv, LocksApart, LocksExclude
<1>2. QED
  BY LocksAreOwned, <1>1, PTL

\* One connection writes at a time (sqlite3WalBeginWriteTransaction).
THEOREM OneWriter == Spec => [](\A c, d \in Conn : Writing(c) /\ Writing(d) => c = d)
<1>1. IInv => \A c, d \in Conn : Writing(c) /\ Writing(d) => c = d
  BY DEF IInv, LocksApart, Writing, Has
<1>2. QED
  BY LocksAreOwned, <1>1, PTL

\* MarksStay for every number of connections and marks: nobody moves a mark that
\* is in use, a recovery and the restart of the log included.
THEOREM MarksStayHolds == Spec => MarksStay
<1>1. IInv /\ use \in Use /\ [Next]_vars => [StepMarks]_vars
  BY NextInv
<1>2. [StepMarks]_vars =>
        [\A c \in Conn : \A i \in 1..NReader - 1 :
            (READ(i) \in held[c].shared /\ READ(i) \in held'[c].shared)
                => shm'.mark[i] = shm.mark[i]]_vars
  BY DEF StepMarks
<1>3. QED
  BY LocksAreOwned, UseInv, <1>1, <1>2, PTL DEF Spec, MarksStay

-----------------------------------------------------------------------------
(* What is kept fits where it is kept.  The locks are bytes of the shm     *)
(* file, numbered 0 .. READ(NReader - 1).                                  *)

Bytes == 0..READ(NReader - 1)

\* A connection holds bytes of the lock range, and shares at most one of them.
HeldFits == \A d \in Conn : held[d].excl \subseteq Bytes /\ \E l : held[d].shared \subseteq {l}

\* The locks are in the range.
LEMMA BytesOfFile ==
  /\ WRITE \in Bytes /\ CKPT \in Bytes /\ RECOVER \in Bytes /\ READ(0) \in Bytes
  /\ READERS \subseteq Bytes
BY WalConstants DEF Bytes, WRITE, CKPT, RECOVER, READ, READERS

\* What each way to take or drop locks (walLockShared, walLockExclusive and their
\* opposites) leaves.
LEMMA HeldKinds ==
  ASSUME NEW c \in Conn, HeldShape, HeldFits
  PROVE  /\ UNCHANGED held => HeldFits'
         /\ \A L \in SUBSET Bytes : LockX(c, L) => HeldFits'
         /\ \A L : FreeX(c, L) => HeldFits'
         /\ \A l : LockS(c, l) /\ held[c].shared = {} => HeldFits'
         /\ FreeS(c) => HeldFits'
<1>1. UNCHANGED held => HeldFits'
  BY DEF HeldFits
<1>2. ASSUME NEW L \in SUBSET Bytes, LockX(c, L)
      PROVE  HeldFits'
  BY <1>2 DEF HeldFits, HeldShape, LockX
<1>3. ASSUME NEW L, FreeX(c, L)
      PROVE  HeldFits'
  BY <1>3 DEF HeldFits, HeldShape, FreeX
<1>4. ASSUME NEW l, LockS(c, l), held[c].shared = {}
      PROVE  HeldFits'
  BY <1>4 DEF HeldFits, HeldShape, LockS
<1>5. ASSUME FreeS(c)
      PROVE  HeldFits'
  BY <1>5 DEF HeldFits, HeldShape, FreeS
<1>6. QED
  BY <1>1, <1>2, <1>3, <1>4, <1>5, Zenon

\* Whatever a connection does, or dies of, it still shares at most one lock.
LEMMA HeldStep ==
  ASSUME NEW c \in Conn, IInv, HeldFits, Step(c) \/ Call(c) \/ Fault(c)
  PROVE  HeldFits'
<1> HeldShape /\ OwnsOf(c)
  BY DEF IInv, Owns
<1>1. CASE Fault(c)
  <2>1. CASE Die(c)
    BY <2>1 DEF Die, HeldFits, HeldShape
  <2>2. QED
    BY <1>1, <2>1, HeldKinds, Zenon DEF Fault, FailWrite, FailCopy
<1>2. CASE Call(c)
  BY <1>2, HeldKinds, BytesOfFile DEF Call, Open, Close, BeginRead, EndRead, BeginWrite, Commit,
     Rollback, Update, Spill, WalFrames, Checkpoint
<1>3. CASE \/ TryHdr(c) \/ LockHdr(c) \/ TryHdrAgain(c) \/ RecoverScan(c) \/ WriteHdr1(c)
           \/ RecoverHdr0(c) \/ RecoverInfo(c) \/ PickMark(c) \/ RaiseMark(c) \/ SetMin(c)
           \/ CheckZero(c) \/ CheckMark(c)
  BY <1>3, HeldKinds, BytesOfFile DEF TryHdr, LockHdr, TryHdrAgain, RecoverScan, WriteHdr1,
     RecoverHdr0, RecoverInfo, PickMark, RaiseMark, SetMin, CheckZero, CheckMark
<1>4. CASE PickZero(c) \/ ShareMark(c)
  BY <1>4, HeldKinds DEF PickZero, ShareMark, OwnsOf, Locks, At
<1>5. CASE RecoverLock(c)
  <2>1. RecoverLocks(c) \in SUBSET Bytes
    BY BytesOfFile DEF RecoverLocks
  <2>2. QED
    BY <1>5, <2>1, HeldKinds, Zenon DEF RecoverLock
<1>6. CASE \/ CheckWrite(c) \/ Restart(c) \/ RestartHdr0(c) \/ RestartInfo(c) \/ UnlockZero(c)
           \/ WriteWalHdr(c) \/ WriteFrame(c) \/ RewriteChecksums(c) \/ AppendIndex(c)
           \/ CountFrames(c) \/ CommitHdr0(c) \/ EndWrite(c)
  BY <1>6, HeldKinds, BytesOfFile, Zenon DEF CheckWrite, Restart, RestartHdr0, RestartInfo,
     UnlockZero, WriteWalHdr, WriteFrame, RewriteChecksums, AppendIndex, CountFrames, CommitHdr0,
     EndWrite
<1>7. CASE \/ LockWriter(c) \/ StartCheckpoint(c) \/ MoveMark(c) \/ StartIterator(c)
           \/ LockDb(c) \/ CopyPage(c) \/ FinishCopy(c) \/ EndMode(c) \/ TruncateLog(c)
           \/ EndCheckpoint(c) \/ DeleteLog(c)
  BY <1>7, HeldKinds, BytesOfFile, Zenon DEF LockWriter, StartCheckpoint, MoveMark, StartIterator,
     LockDb, CopyPage, FinishCopy, EndMode, TruncateLog, EndCheckpoint, DeleteLog
<1>8. QED
  BY <1>1, <1>2, <1>3, <1>4, <1>5, <1>6, <1>7 DEF Step

-----------------------------------------------------------------------------
(* The invariant behind TypeOK.  A transaction adds at most its pages and   *)
(* its spills to the log (Per); the n-th one finds at most Room(n - 1)     *)
(* frames.  That the index has a place for each frame therefore follows    *)
(* from what a writer still has to write (ListFits) and from where the log *)
(* ended when it began (LogFits), which the WRITE lock keeps for it.       *)

Per     == Cardinality(Page) + MaxSpill
Room(n) == Per * n
Val(n)  == 0..2 * n + 1

\* Headers of the index and frames of the log have their fields, and a frame has a
\* value that one of the first n transactions wrote.
HdrFits(h) == DOMAIN h = {"init", "mx", "salt", "chg", "ck"} /\ h.mx \in 0..MaxFrame
FrameFits(f, n) ==
    DOMAIN f = {"page", "val", "commit", "salt", "prev"} /\ f.page \in Page /\ f.val \in Val(n)

\* The database file and the log.
FilesFit ==
    /\ use \in Use
    /\ ntx \in 0..use.tx
    /\ db \in [Page -> Val(ntx)]
    /\ DOMAIN wal = {"salt", "frames"}
    /\ \E S : wal.frames \in Seq(S)
    /\ Len(wal.frames) <= Room(ntx)
    /\ \A f \in 1..Len(wal.frames) : FrameFits(wal.frames[f], ntx)

\* The wal-index; the header readers trust ends within the log.
IndexFits ==
    /\ HdrFits(shm.h0) /\ HdrFits(shm.h1)
    /\ shm.nBackfill \in 0..MaxFrame /\ shm.attempted \in 0..MaxFrame
    /\ shm.mark \in [1..NReader - 1 -> 0..NotUsed]
    /\ shm.pgno \in [1..MaxFrame -> Page \cup {0}]
    /\ shm.h0.mx <= Len(wal.frames)

\* A write of pages to the log, and what a connection keeps in struct Wal, in its
\* page cache and in a checkpoint.
WriteFits(w, n) ==
    /\ DOMAIN w = {"list", "i", "app", "j", "commit", "first", "reck", "tx", "spills", "failed"}
    /\ w.list \in Seq(Page) /\ w.app \in Seq(Page)
    /\ w.i \in Nat \ {0} /\ w.j \in Nat \ {0} /\ w.spills \in 0..MaxSpill /\ w.tx \in 0..n
    /\ w.first \in Nat

RecFits(c) ==
    /\ HdrFits(cn[c].hdr)
    /\ cn[c].min \in Nat
    /\ cn[c].cache = None \/ cn[c].cache \in [Page -> Val(ntx)]
    /\ cn[c].dirty \subseteq Page
    /\ WriteFits(cn[c].w, ntx)
    /\ cn[c].k.safe \in 0..MaxFrame /\ cn[c].k.i \in 1..NReader - 1

\* The locations of walTryBeginRead once it looks for a mark; those a writer goes
\* through before and while it appends; and c as a writer with the log.
Picking == {"pick", "excl", "share", "min", "chk"}
Going == {"restart", "unl0", "sh1", "sh0", "sinfo", "whdr", "wframe"} \cup Picking
InLog(c) == cn[c].k.mode = None /\ WRITE \in held[c].excl
            /\ cn[c].pc \in {"write", "wreck", "windex"} \cup Going

\* The pages a writer appends: with what it spilled before they are no more than
\* the room of one transaction, and it appends each of them at most once.
ListFits(w) ==
    /\ ~w.failed
    /\ w.list # <<>>
    /\ w.spills + Len(w.list) <= Per
    /\ ~w.commit => Len(w.list) = 1 /\ w.spills < MaxSpill
    /\ Len(w.app) <= w.i - 1

\* What the writer relies on: it is in its own transaction, the log ended within
\* the room of those before it, and what it appended is behind its own header.
LogFits(c) ==
    /\ cn[c].cache \in [Page -> Val(ntx)]
    /\ ntx > 0 /\ shm.h0.mx <= Room(ntx - 1)
    /\ cn[c].hdr.mx + Len(cn[c].w.app) <= Len(wal.frames)
    /\ cn[c].w.failed \/ cn[c].hdr.mx <= Room(ntx - 1) + cn[c].w.spills
    /\ cn[c].pc = "write" => cn[c].w.app = <<>>
    /\ cn[c].pc # "write" => ListFits(cn[c].w)
    /\ cn[c].pc \in Going => cn[c].w.i <= Len(cn[c].w.list)
    /\ cn[c].pc \in {"wreck", "windex"} => cn[c].w.i = Len(cn[c].w.list) + 1

\* What holds at the control locations.
PlaceFits(c) ==
    /\ InLog(c) => LogFits(c)
    /\ ~InLog(c) => cn[c].w = NoWrite
    /\ cn[c].pc \in {"read", "wchk", "wend", "wh1", "wh0"} => cn[c].cache \in [Page -> Val(ntx)]
    /\ cn[c].pc = "wchk" => ntx < use.tx
    /\ cn[c].pc \in {"rh1", "rh0", "wh1", "wh0"} => cn[c].hdr.mx <= Len(wal.frames)
    /\ cn[c].pc \in {"sh1", "sh0", "sinfo", "ktrunc"} => cn[c].hdr.mx = 0
    /\ cn[c].pc \in {"sinfo", "ktrunc"} => shm.h0.mx = 0

Fits == FilesFit /\ IndexFits /\ \A c \in Conn : RecFits(c) /\ PlaceFits(c)

\* What a step of c establishes of what is shared and of c itself.
Fitted(c) == FilesFit' /\ IndexFits' /\ RecFits(c)' /\ PlaceFits(c)'

\* A step that only moves c on.
Keep(c) ==
    /\ cn'[c].hdr = cn[c].hdr /\ cn'[c].min = cn[c].min /\ cn'[c].cache = cn[c].cache
    /\ cn'[c].dirty = cn[c].dirty /\ cn'[c].w = cn[c].w
    /\ cn'[c].k.safe = cn[c].k.safe /\ cn'[c].k.i = cn[c].k.i

\* Goto is such a step.
LEMMA Onward ==
  ASSUME NEW c \in Conn, NEW l, CnShape, Goto(c, l)
  PROVE  Keep(c) /\ cn'[c].pc = l /\ cn'[c].k.mode = cn[c].k.mode /\ cn'[c].k = cn[c].k
BY DEF Goto, CnShape, CnRec, Keep

\* Steps that touch neither files nor index.
LEMMA Quiet ==
  ASSUME FilesFit, IndexFits, UNCHANGED <<files, shm, ntx, use>>
  PROVE  FilesFit' /\ IndexFits'
BY DEF FilesFit, IndexFits, files

\* Steps that keep the connection's record.
LEMMA Kept ==
  ASSUME NEW c \in Conn, RecFits(c), Keep(c), UNCHANGED ntx
  PROVE  RecFits(c)'
BY DEF RecFits, Keep, WriteFits

\* At these locations nothing is promised but what holds everywhere.
Elsewhere == {"closed", "idle", "header", "hdrlock", "hdrtry", "recover", "rscan", "rinfo",
              "pick0", "chk0", "kwlock", "kstart", "kmark", "kiter", "kread0", "kcopy",
              "kmode", "kfin", "delete"}

\* c is outside of the log before and after the step.
LEMMA Outside ==
  ASSUME NEW c \in Conn, PlaceFits(c), ~InLog(c), cn'[c].w = cn[c].w,
         cn'[c].pc \in Elsewhere
  PROVE  PlaceFits(c)'
BY DEF PlaceFits, InLog, Elsewhere, Going, Picking

\* Locations and locks outside of the log.
LEMMA NotInLog ==
  ASSUME NEW c \in Conn, IInv
  PROVE  /\ cn[c].pc \in Elsewhere \cup {"read", "wchk", "wend", "wh1", "wh0", "rh1", "rh0", "ktrunc"}
               => ~InLog(c)
         /\ cn[c].k.mode # None => ~InLog(c)
         /\ ~Has(c, WRITE) => ~InLog(c)
BY DEF InLog, Elsewhere, Going, Picking, Has

\* Steps that only lead from one location outside of the log to the next.
LEMMA FitMove ==
  ASSUME NEW c \in Conn, NEW l \in Elsewhere, IInv, Fits, Goto(c, l), ~InLog(c),
         UNCHANGED <<files, shm, ntx, use>>
  PROVE  Fitted(c)
<1>1. Keep(c) /\ cn'[c].pc = l
  BY Onward DEF IInv
<1>2. RecFits(c) /\ PlaceFits(c)
  BY DEF Fits
<1>3. PlaceFits(c)'
  BY <1>1, <1>2, Outside DEF Keep
<1>4. QED
  BY <1>1, <1>2, <1>3, Kept, Quiet DEF Fits, Fitted

\* A call that begins to read.
LEMMA FitBeginRead ==
  ASSUME NEW c \in Conn, IInv, Fits, BeginRead(c)
  PROVE  Fitted(c)
<1>1. Goto(c, "header") /\ cn[c].pc = "idle" /\ UNCHANGED <<files, shm, ntx, use>>
  BY DEF BeginRead, At, bounds, Goto
<1>2. QED
  BY <1>1, FitMove, NotInLog DEF Elsewhere

\* The header that was accepted.
LEMMA FitAccept ==
  ASSUME NEW c \in Conn, IInv, Fits, cn' = [cn EXCEPT ![c] = AcceptHdr(c, cn[c])], ~InLog(c),
         UNCHANGED <<files, shm, ntx, use>>
  PROVE  Fitted(c)
<1>1. /\ cn'[c].hdr = shm.h0 /\ cn'[c].min = cn[c].min /\ cn'[c].cache = cn[c].cache
      /\ cn'[c].dirty = cn[c].dirty /\ cn'[c].w = cn[c].w /\ cn'[c].k = cn[c].k
      /\ cn'[c].pc \in {"kstart", "pick0"}
  BY DEF AcceptHdr, IInv, CnShape, CnRec
<1>2. RecFits(c) /\ PlaceFits(c) /\ HdrFits(shm.h0)
  BY DEF Fits, IndexFits
<1>3. RecFits(c)'
  BY <1>1, <1>2 DEF RecFits, WriteFits
<1>4. PlaceFits(c)'
  BY <1>1, <1>2, Outside DEF Elsewhere
<1>5. QED
  BY <1>3, <1>4, Quiet DEF Fits, Fitted

\* A read or a checkpoint that could not get the header (BusyHdr).
LEMMA BusyRec ==
  ASSUME NEW c \in Conn, NEW me, NEW r, CnRec(me), r = BusyHdr(c, me)
  PROVE  /\ r.hdr = me.hdr /\ r.min = me.min /\ r.cache \in {me.cache, None}
         /\ r.dirty = me.dirty /\ r.w = me.w /\ r.k.safe = me.k.safe /\ r.k.i = me.k.i
         /\ r.pc \in {"header", "kfin", "idle"}
<1>1. CASE InCkpt(c)
  <2>1. r = [me EXCEPT !.pc = "kfin", !.k.ok = FALSE]
    BY <1>1 DEF BusyHdr, FailRead
  <2>2. QED
    BY <2>1 DEF CnRec
<1>2. CASE ~InCkpt(c)
  <2>1. r \in {[me EXCEPT !.pc = "header"], [me EXCEPT !.pc = "idle", !.cache = None, !.chg = FALSE]}
    BY <1>2 DEF BusyHdr, FailRead
  <2>2. QED
    BY <2>1 DEF CnRec
<1>3. QED
  BY <1>1, <1>2

\* The steps that give up on a lock of walIndexReadHdr, or wait.
LEMMA FitBusy ==
  ASSUME NEW c \in Conn, IInv, Fits, NEW me,
         me = cn[c] \/ me = [cn[c] EXCEPT !.chg = TRUE],
         cn' = [cn EXCEPT ![c] = BusyHdr(c, me)], ~InLog(c), UNCHANGED <<files, shm, ntx, use>>
  PROVE  Fitted(c)
<1>0. /\ me.hdr = cn[c].hdr /\ me.min = cn[c].min /\ me.cache = cn[c].cache
      /\ me.dirty = cn[c].dirty /\ me.w = cn[c].w /\ me.k = cn[c].k
  BY DEF IInv, CnShape, CnRec
<1>rec. CnRec(me)
  BY DEF IInv, CnShape, CnRec
<1>1. /\ cn'[c].hdr = me.hdr /\ cn'[c].min = me.min
      /\ cn'[c].cache \in {me.cache, None}
      /\ cn'[c].dirty = me.dirty /\ cn'[c].w = me.w
      /\ cn'[c].k.safe = me.k.safe /\ cn'[c].k.i = me.k.i
      /\ cn'[c].pc \in {"header", "kfin", "idle"}
  <2>1. cn'[c] = BusyHdr(c, me)
    BY DEF IInv, CnShape
  <2>2. QED
    BY <1>rec, <2>1, BusyRec
<1>2. RecFits(c) /\ PlaceFits(c)
  BY DEF Fits
<1>3. RecFits(c)'
  <2>1. /\ cn'[c].hdr = cn[c].hdr /\ cn'[c].min = cn[c].min
        /\ cn'[c].cache = cn[c].cache \/ cn'[c].cache = None
        /\ cn'[c].dirty = cn[c].dirty /\ cn'[c].w = cn[c].w
        /\ cn'[c].k.safe = cn[c].k.safe /\ cn'[c].k.i = cn[c].k.i /\ ntx' = ntx
    BY <1>0, <1>1
  <2>2. QED
    BY <1>2, <2>1 DEF RecFits, WriteFits
<1>4. PlaceFits(c)'
  <2>1. cn'[c].w = cn[c].w /\ cn'[c].pc \in Elsewhere
    BY <1>0, <1>1 DEF Elsewhere
  <2>2. QED
    BY <1>2, <2>1, Outside
<1>5. QED
  BY <1>3, <1>4, Quiet DEF Fits, Fitted

\* Reading the header.
LEMMA FitReadHdr ==
  ASSUME NEW c \in Conn, IInv, Fits, TryHdr(c) \/ LockHdr(c) \/ TryHdrAgain(c) \/ RecoverLock(c)
  PROVE  Fitted(c)
<1>1. ~InLog(c) /\ UNCHANGED <<files, shm, ntx, use>>
  BY NotInLog DEF TryHdr, LockHdr, TryHdrAgain, RecoverLock, At, Elsewhere, bounds
<1>2. \/ \E l \in Elsewhere : Goto(c, l)
      \/ cn' = [cn EXCEPT ![c] = AcceptHdr(c, cn[c])]
      \/ cn' = [cn EXCEPT ![c] = BusyHdr(c, cn[c])]
      \/ cn' = [cn EXCEPT ![c] = BusyHdr(c, [cn[c] EXCEPT !.chg = TRUE])]
  <2>1. {"hdrlock", "hdrtry", "recover", "rscan"} \subseteq Elsewhere
    BY DEF Elsewhere
  <2>2. QED
    BY <2>1 DEF TryHdr, LockHdr, TryHdrAgain, RecoverLock, Goto
<1>3. QED
  BY <1>1, <1>2, FitMove, FitAccept, FitBusy

-----------------------------------------------------------------------------
(* Room. *)

\* The room of one transaction more, and of all.
LEMMA RoomNat ==
  ASSUME NEW n \in Nat
  PROVE  Room(n) \in Nat /\ Per \in Nat /\ MaxFrame \in Nat /\ Room(n + 1) = Room(n) + Per
<1>1. Per \in Nat /\ Cardinality(Page) \in Nat
  BY WalConstants, FS_CardinalityType DEF Per
<1>2. ASSUME NEW p \in Nat
      PROVE  p * n \in Nat /\ p * (n + 1) = p * n + p /\ (MaxTx \in Nat => MaxTx * p \in Nat)
  OBVIOUS
<1>3. QED
  BY <1>1, <1>2, WalConstants DEF Room, MaxFrame, Per

\* A transaction finds room for its own frames behind those before it.
LEMMA Rooms ==
  /\ Per \in Nat /\ MaxFrame \in Nat
  /\ \A n \in Nat : Room(n) \in Nat /\ Room(n) <= Room(n + 1) /\ Room(n + 1) = Room(n) + Per
  /\ \A n \in 0..MaxTx : Room(n) <= MaxFrame
<1>1. Per \in Nat /\ Cardinality(Page) \in Nat
  BY WalConstants, FS_CardinalityType DEF Per
<1>2. ASSUME NEW p \in Nat, NEW n \in Nat
      PROVE  p * n \in Nat /\ p * (n + 1) = p * n + p
  OBVIOUS
<1>3. ASSUME NEW p \in Nat, NEW n \in Nat, NEW m \in Nat, n <= m
      PROVE  p * n <= p * m
  <2>1. m - n \in Nat /\ m = n + (m - n)
    BY <1>3
  <2>2. \A k \in Nat : p * k \in Nat /\ p * (n + k) = p * n + p * k
    OBVIOUS
  <2>3. QED
    BY <2>1, <2>2
<1>4. MaxFrame = Per * MaxTx
  BY <1>1, WalConstants DEF MaxFrame, Per
<1>5. QED
  BY <1>1, <1>2, <1>3, <1>4, WalConstants DEF Room

\* The last of a set of numbers up to n.
LEMMA LastUpTo ==
  ASSUME NEW n \in Nat, NEW T \in SUBSET (0..n)
  PROVE  LastOr0(T) \in T \cup {0}
<1> DEFINE U == {m \in 0..n : \A x \in T \cup {0} : x <= m}
<1>1. U \in SUBSET Nat /\ U # {}
  <2>1. n \in U
    OBVIOUS
  <2>2. QED
    BY <2>1
<1>2. PICK m \in U : \A y \in U : m <= y
  BY <1>1, Smallest
<1>3. m \in T \cup {0}
  <2>1. SUFFICES ASSUME m \notin T \cup {0} PROVE FALSE
    OBVIOUS
  <2>2. m \in 1..n /\ \A x \in T \cup {0} : x <= m - 1
    BY <1>2, <2>1
  <2>3. m - 1 \in U
    BY <2>2
  <2>4. QED
    BY <1>2, <2>2, <2>3
<1>4. T \cup {0} \in SUBSET Nat /\ \E x \in T \cup {0} : \A y \in T \cup {0} : x >= y
  BY <1>2, <1>3
<1>5. QED
  BY <1>4 DEF LastOr0, Largest

\* What is found is a frame up to hi.
LEMMA Found ==
  ASSUME NEW p, NEW lo \in Nat, NEW hi \in Nat
  PROVE  FindFrame(p, lo, hi) \in 0..hi
<1> DEFINE T == {f \in lo..hi : shm.pgno[f] = p}
<1>1. T \in SUBSET (0..hi)
  OBVIOUS
<1>2. LastOr0(T) \in T \cup {0}
  BY <1>1, LastUpTo, Zenon
<1>3. QED
  BY <1>1, <1>2 DEF FindFrame

\* The frames of the log, and the room they have.
LEMMA LogRoom ==
  ASSUME FilesFit
  PROVE  /\ Len(wal.frames) \in Nat /\ DOMAIN wal.frames = 1..Len(wal.frames)
         /\ ntx \in 0..MaxTx /\ Len(wal.frames) \in 0..MaxFrame /\ MaxFrame \in Nat
<1>1. Len(wal.frames) \in Nat /\ DOMAIN wal.frames = 1..Len(wal.frames)
  BY DEF FilesFit
<1>2. ntx \in 0..MaxTx
  BY WalConstants DEF FilesFit
<1>3. Room(ntx) \in Nat /\ Room(ntx) <= MaxFrame /\ MaxFrame \in Nat
  BY <1>2, Rooms
<1>4. Len(wal.frames) <= Room(ntx)
  BY DEF FilesFit
<1>5. QED
  BY <1>1, <1>2, <1>3, <1>4

\* A page is read from the file or from a frame of the log.
LEMMA ReadFits ==
  ASSUME FilesFit, NEW p \in Page, NEW f \in 0..Len(wal.frames)
  PROVE  ReadPage(p, f) \in Val(ntx)
BY LogRoom DEF FilesFit, ReadPage, FrameFits

\* A connection's view of the database has values of transactions that were.
LEMMA ViewFits ==
  ASSUME NEW c \in Conn, FilesFit, RecFits(c), cn[c].hdr.mx <= Len(wal.frames)
  PROVE  ViewImage(c) \in [Page -> Val(ntx)]
<1>1. ASSUME NEW p \in Page
      PROVE  View(c, p) \in Val(ntx)
  <2>1. db[p] \in Val(ntx)
    BY DEF FilesFit
  <2>2. cn[c].hdr.mx \in Nat /\ cn[c].min \in Nat
    BY DEF RecFits, HdrFits
  <2>3. FindFrame(p, cn[c].min, cn[c].hdr.mx) \in 0..Len(wal.frames)
    BY <2>2, Found, LogRoom
  <2>4. QED
    BY <2>1, <2>3, ReadFits DEF View
<1>2. QED
  BY <1>1 DEF ViewImage

\* Recovery.
LEMMA FitRecoverScan ==
  ASSUME NEW c \in Conn, IInv, Fits, RecoverScan(c)
  PROVE  Fitted(c)
<1> FilesFit /\ IndexFits /\ RecFits(c) /\ PlaceFits(c)
  BY DEF Fits
<1>1. ~InLog(c) /\ UNCHANGED <<files, ntx, use>> /\ cn[c].pc = "rscan"
  BY NotInLog DEF RecoverScan, At, Elsewhere, bounds
<1>2. LastOr0(ValidFrames) \in 0..Len(wal.frames) /\ RecoverFrame \in 0..Len(wal.frames)
  <2>1. ValidFrames \in SUBSET (0..Len(wal.frames))
    BY LogRoom DEF ValidFrames
  <2>2. {f \in ValidFrames : wal.frames[f].commit} \in SUBSET (0..Len(wal.frames))
    BY <2>1
  <2>3. Len(wal.frames) \in Nat
    BY LogRoom
  <2>4. /\ LastOr0(ValidFrames) \in ValidFrames \cup {0}
        /\ RecoverFrame \in {f \in ValidFrames : wal.frames[f].commit} \cup {0}
    BY <2>1, <2>2, <2>3, LastUpTo, Zenon DEF RecoverFrame
  <2>5. {f \in ValidFrames : wal.frames[f].commit} \subseteq ValidFrames
    OBVIOUS
  <2>6. 0 \in 0..Len(wal.frames)
    BY <2>3
  <2>7. QED
    BY <2>1, <2>4, <2>5, <2>6, Zenon
<1>3. /\ cn'[c].pc = "rh1" /\ cn'[c].min = cn[c].min /\ cn'[c].cache = cn[c].cache
      /\ cn'[c].dirty = cn[c].dirty /\ cn'[c].w = cn[c].w /\ cn'[c].k = cn[c].k
      /\ DOMAIN cn'[c].hdr = {"init", "mx", "salt", "chg", "ck"}
      /\ cn'[c].hdr.mx = RecoverFrame
  BY DEF RecoverScan, IInv, CnShape, CnRec
<1>4. IndexFits'
  <2>1. CASE LastOr0(ValidFrames) = 0
    BY <1>1, <2>1 DEF RecoverScan, IndexFits, files
  <2>2. CASE LastOr0(ValidFrames) # 0
    <3>1. \A f \in 1..LastOr0(ValidFrames) : wal.frames[f].page \in Page
      BY <1>2, LogRoom DEF FilesFit, FrameFits
    <3>2. DOMAIN shm.pgno = 1..MaxFrame
      BY DEF IndexFits
    <3>3. shm' = [shm EXCEPT !.pgno = [f \in 1..MaxFrame |->
                        IF f <= LastOr0(ValidFrames) THEN wal.frames[f].page ELSE 0]]
      BY <2>2, <3>2 DEF RecoverScan
    <3>4. /\ shm'.pgno \in [1..MaxFrame -> Page \cup {0}]
          /\ shm'.h0 = shm.h0 /\ shm'.h1 = shm.h1 /\ shm'.nBackfill = shm.nBackfill
          /\ shm'.attempted = shm.attempted /\ shm'.mark = shm.mark
      BY <1>2, <3>1, <3>3, Rooms, LogRoom DEF IInv, ShmShape
    <3>5. QED
      BY <1>1, <3>4 DEF IndexFits, files
  <2>3. QED
    BY <2>1, <2>2
<1>5. RecFits(c)'
  <2>1. HdrFits(cn'[c].hdr)
    BY <1>2, <1>3, LogRoom DEF HdrFits
  <2>2. QED
    BY <1>1, <1>3, <2>1 DEF RecFits, WriteFits
<1>6. PlaceFits(c)'
  BY <1>1, <1>2, <1>3 DEF PlaceFits, InLog, Going, Picking, files
<1>7. FilesFit'
  BY <1>1 DEF FilesFit, files
<1>8. QED
  BY <1>4, <1>5, <1>6, <1>7 DEF Fitted

\* Writing the header.
LEMMA FitWriteHdr1 ==
  ASSUME NEW c \in Conn, IInv, Fits, WriteHdr1(c)
  PROVE  Fitted(c)
<1> FilesFit /\ IndexFits /\ RecFits(c) /\ PlaceFits(c)
  BY DEF Fits
<1>1. /\ UNCHANGED <<files, ntx, use, held>>
      /\ \/ cn[c].pc = "rh1" /\ Goto(c, "rh0")
         \/ cn[c].pc = "sh1" /\ Goto(c, "sh0")
         \/ cn[c].pc = "wh1" /\ Goto(c, "wh0")
  BY DEF WriteHdr1, At, bounds
<1>2. Keep(c) /\ cn'[c].k.mode = cn[c].k.mode
  BY <1>1, Onward DEF IInv
<1>3. \/ cn[c].pc = "rh1" /\ cn'[c].pc = "rh0"
      \/ cn[c].pc = "sh1" /\ cn'[c].pc = "sh0"
      \/ cn[c].pc = "wh1" /\ cn'[c].pc = "wh0"
  BY <1>1, Onward DEF IInv
<1>4. /\ shm'.h0 = shm.h0 /\ shm'.h1 = cn[c].hdr /\ shm'.nBackfill = shm.nBackfill
      /\ shm'.attempted = shm.attempted /\ shm'.mark = shm.mark /\ shm'.pgno = shm.pgno
  BY DEF WriteHdr1, IInv, ShmShape
<1>5. IndexFits'
  BY <1>1, <1>4 DEF IndexFits, RecFits, files
<1>6. RecFits(c)'
  BY <1>1, <1>2, Kept
<1>7. PlaceFits(c)'
  BY <1>1, <1>2, <1>3, <1>4 DEF PlaceFits, InLog, Going, Picking, files, Keep, LogFits
<1>8. FilesFit'
  BY <1>1 DEF FilesFit, files
<1>9. QED
  BY <1>5, <1>6, <1>7, <1>8 DEF Fitted

\* The second copy of the header, of a recovery and of a commit.
LEMMA FitWriteHdr0 ==
  ASSUME NEW c \in Conn, IInv, Fits, RecoverHdr0(c) \/ RestartHdr0(c) \/ CommitHdr0(c)
  PROVE  Fitted(c)
<1> FilesFit /\ IndexFits /\ RecFits(c) /\ PlaceFits(c)
  BY DEF Fits
<1>1. /\ UNCHANGED <<files, ntx, use, held>>
      /\ \/ cn[c].pc = "rh0" /\ Goto(c, "rinfo")
         \/ cn[c].pc = "sh0" /\ Goto(c, "sinfo")
         \/ cn[c].pc = "wh0" /\ Goto(c, "wend")
  BY DEF RecoverHdr0, RestartHdr0, CommitHdr0, At, bounds
<1>2. Keep(c) /\ cn'[c].k.mode = cn[c].k.mode
  BY <1>1, Onward DEF IInv
<1>3. \/ cn[c].pc = "rh0" /\ cn'[c].pc = "rinfo"
      \/ cn[c].pc = "sh0" /\ cn'[c].pc = "sinfo"
      \/ cn[c].pc = "wh0" /\ cn'[c].pc = "wend"
  BY <1>1, Onward DEF IInv
<1>4. /\ shm'.h0 = cn[c].hdr /\ shm'.h1 = shm.h1 /\ shm'.nBackfill = shm.nBackfill
      /\ shm'.attempted = shm.attempted /\ shm'.mark = shm.mark /\ shm'.pgno = shm.pgno
  BY DEF RecoverHdr0, RestartHdr0, CommitHdr0, IInv, ShmShape
<1>5. IndexFits'
  BY <1>1, <1>3, <1>4, LogRoom DEF IndexFits, RecFits, files, PlaceFits
<1>6. RecFits(c)'
  BY <1>1, <1>2, Kept
<1>7. PlaceFits(c)'
  <2>1. ASSUME ntx > 0 PROVE Room(ntx - 1) \in Nat
    <3>1. ntx - 1 \in Nat
      BY <2>1, LogRoom
    <3>2. QED
      BY <3>1, RoomNat
  <2>2. QED
    BY <1>1, <1>2, <1>3, <1>4, <2>1 DEF PlaceFits, InLog, Going, Picking, files, Keep, LogFits
<1>8. FilesFit'
  BY <1>1 DEF FilesFit, files
<1>9. QED
  BY <1>5, <1>6, <1>7, <1>8 DEF Fitted

\* Marks and nBackfill after the header was written, of a recovery and of a restart.
LEMMA FitInfo ==
  ASSUME NEW c \in Conn, IInv, Fits, RecoverInfo(c) \/ RestartInfo(c)
  PROVE  Fitted(c)
<1> FilesFit /\ IndexFits /\ RecFits(c) /\ PlaceFits(c) /\ OwnsOf(c)
  BY DEF Fits, IInv, Owns
<1>1. /\ UNCHANGED <<files, ntx, use>>
      /\ \/ cn[c].pc = "rinfo" /\ (Goto(c, "kstart") \/ Goto(c, "pick0"))
         \/ cn[c].pc = "sinfo" /\ InCkpt(c) /\ Goto(c, "ktrunc")
         \/ cn[c].pc = "sinfo" /\ ~InCkpt(c) /\ Goto(c, "unl0") /\ FreeX(c, READERS)
  BY DEF RecoverInfo, RestartInfo, At, bounds
<1>2. Keep(c) /\ cn'[c].k.mode = cn[c].k.mode
  BY <1>1, Onward DEF IInv
<1>3. \/ cn[c].pc = "rinfo" /\ cn'[c].pc \in {"kstart", "pick0"}
      \/ cn[c].pc = "sinfo" /\ InCkpt(c) /\ cn'[c].pc = "ktrunc"
      \/ cn[c].pc = "sinfo" /\ ~InCkpt(c) /\ cn'[c].pc = "unl0" /\ WRITE \in held'[c].excl
  BY <1>1, Onward, LockNumbers DEF IInv, FreeX, HeldShape, OwnsOf, Locks, InCkpt
<1>4. /\ shm'.h0 = shm.h0 /\ shm'.h1 = shm.h1 /\ shm'.pgno = shm.pgno /\ shm'.nBackfill = 0
      /\ shm'.attempted \in {0, cn[c].hdr.mx}
      /\ \E m \in {0, cn[c].hdr.mx} :
            shm'.mark = [i \in 1..NReader - 1 |->
                            IF i = 1 /\ (cn[c].pc = "sinfo" \/ m > 0) THEN m ELSE NotUsed]
  <2>1. CASE RecoverInfo(c)
    BY <2>1 DEF RecoverInfo, IInv, ShmShape, At
  <2>2. CASE RestartInfo(c)
    BY <2>2 DEF RestartInfo, IInv, ShmShape, At
  <2>3. QED
    BY <2>1, <2>2
<1>5. IndexFits'
  <2>1. cn[c].hdr.mx \in 0..MaxFrame /\ NotUsed \in 0..NotUsed /\ 0..MaxFrame \subseteq 0..NotUsed
        /\ 0 \in 0..MaxFrame
    BY Rooms DEF RecFits, HdrFits, NotUsed
  <2>2. shm'.mark \in [1..NReader - 1 -> 0..NotUsed]
    BY <1>4, <2>1
  <2>3. QED
    BY <1>1, <1>4, <2>1, <2>2 DEF IndexFits, files
<1>6. RecFits(c)'
  BY <1>1, <1>2, Kept
<1>7. PlaceFits(c)'
  BY <1>1, <1>2, <1>3, <1>4 DEF PlaceFits, InLog, Going, Picking, files, Keep, LogFits, ListFits,
     OwnsOf, Locks, InCkpt
<1>8. FilesFit'
  BY <1>1 DEF FilesFit, files
<1>9. QED
  BY <1>5, <1>6, <1>7, <1>8 DEF Fitted

-----------------------------------------------------------------------------
(* The choice of a mark. *)

\* The choice starts again.
LEMMA FitRetry ==
  ASSUME NEW c \in Conn, IInv, Fits, cn' = [cn EXCEPT ![c] = Retry(c, cn[c])],
         cn[c].pc \in {"chk0", "excl", "share", "chk"}, held'[c].excl = held[c].excl,
         UNCHANGED <<files, shm, ntx, use>>
  PROVE  Fitted(c)
<1> FilesFit /\ IndexFits /\ RecFits(c) /\ PlaceFits(c) /\ OwnsOf(c)
  BY DEF Fits, IInv, Owns
<1>1. /\ cn'[c].hdr = cn[c].hdr /\ cn'[c].min = 0 /\ cn'[c].cache = cn[c].cache
      /\ cn'[c].dirty = cn[c].dirty /\ cn'[c].w = cn[c].w /\ cn'[c].k = cn[c].k
      /\ cn'[c].pc = IF UseWal(c) THEN "pick" ELSE "header"
  BY DEF Retry, IInv, CnShape, CnRec
<1>2. RecFits(c)'
  <2>1. ntx' = ntx /\ 0 \in Nat
    OBVIOUS
  <2>2. QED
    BY <1>1, <2>1 DEF RecFits
<1>3. PlaceFits(c)'
  BY <1>1 DEF PlaceFits, InLog, Going, Picking, files, LogFits, ListFits, OwnsOf, Locks, UseWal, Has
<1>4. QED
  BY <1>2, <1>3, Quiet DEF Fitted

\* The read transaction is open, its page cache dropped if the database changed.
LEMMA OpenRec ==
  ASSUME NEW c \in Conn, NEW me, NEW r, NEW image, CnRec(me), r = OpenTx(c, me, image), ~UseWal(c)
  PROVE  /\ r.pc = "read" /\ r.hdr = me.hdr /\ r.min = me.min
         /\ r.dirty = me.dirty /\ r.w = me.w /\ r.k = me.k
         /\ r.cache = IF me.chg \/ me.cache = None THEN image ELSE me.cache
BY DEF OpenTx, CnRec

LEMMA FitOpenTx ==
  ASSUME NEW c \in Conn, IInv, Fits, NEW me, CnRec(me),
         /\ me.hdr = cn[c].hdr /\ me.min = cn[c].min /\ me.cache = cn[c].cache
         /\ me.dirty = cn[c].dirty /\ me.w = cn[c].w /\ me.k = cn[c].k,
         cn' = [cn EXCEPT ![c] = OpenTx(c, me, ViewImage(c))],
         cn[c].pc \in {"chk0", "chk"}, shm.h0 = cn[c].hdr,
         UNCHANGED <<files, shm, ntx, use, held>>
  PROVE  Fitted(c)
<1> FilesFit /\ IndexFits /\ RecFits(c) /\ PlaceFits(c) /\ OwnsOf(c)
  BY DEF Fits, IInv, Owns
<1>1. cn'[c] = OpenTx(c, me, ViewImage(c))
  BY DEF IInv, CnShape
<1>2. CASE UseWal(c)
  <2>1. /\ Keep(c) /\ cn'[c].k.mode = cn[c].k.mode
        /\ cn'[c].pc \in {"whdr", "wframe"}
    BY <1>1, <1>2 DEF OpenTx, CnRec, Keep
  <2>2. PlaceFits(c)'
    BY <1>2, <2>1 DEF PlaceFits, InLog, Going, Picking, files, Keep, LogFits, ListFits, OwnsOf,
       Locks, UseWal, Has
  <2>3. QED
    BY <2>1, <2>2, Kept, Quiet DEF Fitted
<1>3. CASE ~UseWal(c)
  <2>1. /\ cn'[c].pc = "read" /\ cn'[c].hdr = cn[c].hdr /\ cn'[c].min = cn[c].min
        /\ cn'[c].dirty = cn[c].dirty /\ cn'[c].w = cn[c].w /\ cn'[c].k = cn[c].k
        /\ cn'[c].cache = IF me.chg \/ cn[c].cache = None THEN ViewImage(c) ELSE cn[c].cache
    BY <1>1, <1>3, OpenRec
  <2>2. ViewImage(c) \in [Page -> Val(ntx)]
    BY ViewFits DEF IndexFits
  <2>3. cn'[c].cache \in [Page -> Val(ntx)]
    BY <2>1, <2>2 DEF RecFits
  <2>5. RecFits(c)'
    BY <2>1, <2>3 DEF RecFits, WriteFits
  <2>6. PlaceFits(c)'
    BY <1>3, <2>1, <2>3 DEF PlaceFits, InLog, Going, Picking, files, UseWal, Has
  <2>7. QED
    BY <2>5, <2>6, Quiet DEF Fitted
<1>4. QED
  BY <1>2, <1>3

\* Steps of the choice, by a reader that starts and by a writer that is in the log.
LEMMA FitGoing ==
  ASSUME NEW c \in Conn, IInv, Fits, cn[c].pc \in Going \/ ~Has(c, WRITE),
         /\ cn'[c].hdr = cn[c].hdr /\ cn'[c].min \in Nat /\ cn'[c].cache = cn[c].cache
         /\ cn'[c].dirty = cn[c].dirty /\ cn'[c].w = cn[c].w /\ cn'[c].k = cn[c].k,
         cn'[c].pc \in {"unl0"} \cup Picking,
         held'[c].excl = held[c].excl, UNCHANGED <<files, shm, ntx, use>>
  PROVE  Fitted(c)
<1> FilesFit /\ IndexFits /\ RecFits(c) /\ PlaceFits(c)
  BY DEF Fits
<1>1. RecFits(c)'
  BY DEF RecFits, WriteFits
<1>2. PlaceFits(c)'
  BY DEF PlaceFits, InLog, Going, Picking, files, LogFits, ListFits, Has
<1>3. QED
  BY <1>1, <1>2, Quiet DEF Fitted

\* Steps of walTryBeginRead that look for a mark, raise it or share its lock.
LEMMA FitPick ==
  ASSUME NEW c \in Conn, IInv, Fits,
         PickZero(c) \/ PickMark(c) \/ RaiseMark(c) \/ ShareMark(c) \/ SetMin(c)
  PROVE  Fitted(c)
<1> OwnsOf(c) /\ FilesFit /\ IndexFits /\ RecFits(c) /\ PlaceFits(c)
  BY DEF IInv, Owns, Fits
<1>1. CASE PickZero(c)
  <2>1. CASE Goto(c, "chk0")
    BY <1>1, <2>1, FitMove, NotInLog DEF PickZero, At, Elsewhere, bounds
  <2>2. CASE Goto(c, "pick") /\ UNCHANGED held
    <3>1. ~Has(c, WRITE) /\ UNCHANGED <<files, shm, ntx, use>>
      BY <1>1 DEF PickZero, At, OwnsOf, Locks, Has, bounds
    <3>2. Keep(c) /\ cn'[c].pc = "pick" /\ cn'[c].k = cn[c].k
      BY <2>2, Onward DEF IInv
    <3>3. QED
      BY <2>2, <3>1, <3>2, FitGoing DEF Keep, Picking, RecFits
  <2>3. QED
    BY <1>1, <2>1, <2>2 DEF PickZero
<1>2. CASE PickMark(c)
  <2>1. PICK i, m, l : /\ cn' = [cn EXCEPT ![c].mxI = i, ![c].mxMark = m, ![c].pc = l]
                       /\ l = "excl" \/ l = "share"
    BY <1>2 DEF PickMark
  <2>2. /\ cn[c].pc \in Going /\ UNCHANGED <<files, shm, ntx, use, held>>
    BY <1>2, Zenon DEF PickMark, At, bounds, Going, Picking
  <2>3. /\ cn'[c].hdr = cn[c].hdr /\ cn'[c].min = cn[c].min /\ cn'[c].cache = cn[c].cache
        /\ cn'[c].dirty = cn[c].dirty /\ cn'[c].w = cn[c].w /\ cn'[c].k = cn[c].k
        /\ cn'[c].pc = l
    BY <2>1 DEF IInv, CnShape, CnRec
  <2>4. QED
    BY <2>1, <2>2, <2>3, FitGoing DEF Picking, RecFits
<1>3. CASE ShareMark(c)
  <2>1. /\ cn[c].pc = "share" /\ UNCHANGED <<files, shm, ntx, use>>
        /\ held'[c].excl = held[c].excl
    BY <1>3 DEF ShareMark, At, bounds, LockS, IInv, HeldShape
  <2>2. CASE Goto(c, "min")
    <3>1. Keep(c) /\ cn'[c].pc = "min" /\ cn'[c].k = cn[c].k
      BY <2>2, Onward DEF IInv
    <3>2. QED
      BY <2>1, <3>1, FitGoing DEF Keep, Picking, Going, RecFits
  <2>3. CASE cn' = [cn EXCEPT ![c] = Retry(c, cn[c])]
    BY <2>1, <2>3, FitRetry
  <2>4. QED
    BY <1>3, <2>2, <2>3 DEF ShareMark
<1>4. CASE SetMin(c)
  <2>1. /\ cn[c].pc \in Going /\ UNCHANGED <<files, shm, ntx, use, held>>
    BY <1>4 DEF SetMin, At, bounds, Going, Picking
  <2>3. /\ cn'[c].hdr = cn[c].hdr /\ cn'[c].min = shm.nBackfill + 1 /\ cn'[c].cache = cn[c].cache
        /\ cn'[c].dirty = cn[c].dirty /\ cn'[c].w = cn[c].w /\ cn'[c].k = cn[c].k
        /\ cn'[c].pc = "chk"
    BY <1>4 DEF SetMin, IInv, CnShape, CnRec
  <2>4. QED
    BY <2>1, <2>3, FitGoing DEF Picking, IndexFits
<1>5. CASE RaiseMark(c)
  <2> DEFINE free == {i \in 1..NReader - 1 : CanExclude({READ(i)})}
             j    == CHOOSE i \in free : \A g \in free : i <= g
  <2>1. /\ cn[c].pc = "excl" /\ UNCHANGED <<files, ntx, use, held>>
    BY <1>5, Zenon DEF RaiseMark, At, bounds
  <2>2. CASE free = {}
    <3>1. UNCHANGED shm /\ \/ cn' = [cn EXCEPT ![c] = Retry(c, cn[c])]
                           \/ Goto(c, "share")
      BY <1>5, <2>2, Zenon DEF RaiseMark, Goto
    <3>2. CASE Goto(c, "share")
      <4>1. Keep(c) /\ cn'[c].pc = "share" /\ cn'[c].k = cn[c].k
        BY <3>2, Onward DEF IInv
      <4>2. QED
        BY <2>1, <3>1, <4>1, FitGoing DEF Keep, Picking, Going, RecFits
    <3>3. QED
      BY <2>1, <3>1, <3>2, FitRetry
  <2>3. CASE free # {}
    <3>1. /\ shm' = [shm EXCEPT !.mark[j] = cn[c].hdr.mx]
          /\ cn' = [cn EXCEPT ![c].mxI = j, ![c].mxMark = cn[c].hdr.mx, ![c].pc = "share"]
      BY <1>5, <2>3, Zenon DEF RaiseMark
    <3> HIDE DEF j
    <3>2. /\ cn'[c].hdr = cn[c].hdr /\ cn'[c].min = cn[c].min /\ cn'[c].cache = cn[c].cache
          /\ cn'[c].dirty = cn[c].dirty /\ cn'[c].w = cn[c].w /\ cn'[c].k = cn[c].k
          /\ cn'[c].pc = "share"
      BY <3>1 DEF IInv, CnShape, CnRec
    <3>3. cn[c].hdr.mx \in 0..NotUsed
      BY LogRoom DEF RecFits, HdrFits, NotUsed
    <3>4. /\ shm'.h0 = shm.h0 /\ shm'.h1 = shm.h1 /\ shm'.nBackfill = shm.nBackfill
          /\ shm'.attempted = shm.attempted /\ shm'.pgno = shm.pgno
          /\ shm'.mark = [shm.mark EXCEPT ![j] = cn[c].hdr.mx]
      BY <3>1 DEF IInv, ShmShape
    <3>5. IndexFits'
      BY <2>1, <3>3, <3>4 DEF IndexFits, files
    <3>6. RecFits(c)'
      BY <2>1, <3>2 DEF RecFits, WriteFits
    <3>7. PlaceFits(c)'
      BY <2>1, <3>2, <3>4 DEF PlaceFits, InLog, Going, Picking, files, LogFits, ListFits
    <3>8. QED
      BY <2>1, <3>5, <3>6, <3>7 DEF Fitted, FilesFit, files
  <2>4. QED
    BY <2>2, <2>3
<1>6. QED
  BY <1>1, <1>2, <1>3, <1>4, <1>5

\* The last look at header and mark before the snapshot is taken.
LEMMA FitCheck ==
  ASSUME NEW c \in Conn, IInv, Fits, CheckZero(c) \/ CheckMark(c)
  PROVE  Fitted(c)
<1>1. /\ cn[c].pc \in {"chk0", "chk"} /\ UNCHANGED <<files, shm, ntx, use>>
  BY DEF CheckZero, CheckMark, At, bounds
<1> DEFINE me == [cn[c] EXCEPT !.mxI = 0, !.mxMark = 0]
<1>2. /\ CnRec(cn[c]) /\ CnRec(me)
      /\ me.hdr = cn[c].hdr /\ me.min = cn[c].min /\ me.cache = cn[c].cache
      /\ me.dirty = cn[c].dirty /\ me.w = cn[c].w /\ me.k = cn[c].k
  BY DEF IInv, CnShape, CnRec
<1>3. \/ /\ shm.h0 = cn[c].hdr /\ UNCHANGED held
         /\ \/ cn' = [cn EXCEPT ![c] = OpenTx(c, cn[c], ViewImage(c))]
            \/ cn' = [cn EXCEPT ![c] = OpenTx(c, me, ViewImage(c))]
      \/ cn' = [cn EXCEPT ![c] = Retry(c, cn[c])] /\ FreeS(c)
  BY DEF CheckZero, CheckMark
<1> HIDE DEF me
<1>4. CASE cn' = [cn EXCEPT ![c] = Retry(c, cn[c])] /\ FreeS(c)
  <2>1. held'[c].excl = held[c].excl
    BY <1>4 DEF FreeS, IInv, HeldShape
  <2>2. QED
    BY <1>1, <1>4, <2>1, FitRetry
<1>5. QED
  BY <1>1, <1>2, <1>3, <1>4, FitOpenTx, Zenon

\* A read transaction ends.
LEMMA FitEndRead ==
  ASSUME NEW c \in Conn, IInv, Fits, EndRead(c)
  PROVE  Fitted(c)
<1> RecFits(c) /\ PlaceFits(c)
  BY DEF Fits
<1>1. ~InLog(c) /\ UNCHANGED <<files, shm, ntx, use>>
  BY NotInLog DEF EndRead, At, bounds
<1>2. /\ cn'[c].hdr = cn[c].hdr /\ cn'[c].min = 0 /\ cn'[c].cache = cn[c].cache
      /\ cn'[c].dirty = cn[c].dirty /\ cn'[c].w = cn[c].w /\ cn'[c].k = cn[c].k
      /\ cn'[c].pc = "idle"
  BY DEF EndRead, IInv, CnShape, CnRec
<1>3. RecFits(c)'
  BY <1>1, <1>2 DEF RecFits, WriteFits
<1>4. PlaceFits(c)'
  BY <1>1, <1>2, Outside DEF Elsewhere
<1>5. QED
  BY <1>1, <1>3, <1>4, Quiet DEF Fits, Fitted

-----------------------------------------------------------------------------
(* Writing. *)

\* The range of the values grows with each transaction.
LEMMA ValGrows ==
  ASSUME NEW n \in Nat, NEW m \in Nat, n <= m
  PROVE  Val(n) \subseteq Val(m)
BY DEF Val

\* sqlite3WalBeginWriteTransaction.
LEMMA FitWriteLock ==
  ASSUME NEW c \in Conn, IInv, Fits, BeginWrite(c) \/ EndWrite(c)
  PROVE  Fitted(c)
<1> RecFits(c) /\ PlaceFits(c)
  BY DEF Fits
<1>1. /\ UNCHANGED <<files, shm, ntx, use>>
      /\ \/ cn[c].pc = "read" /\ ntx < use.tx /\ Goto(c, "wchk")
         \/ cn[c].pc = "wend" /\ Goto(c, "read")
  BY DEF BeginWrite, EndWrite, At, bounds
<1>2. ~InLog(c)
  BY <1>1, NotInLog
<1>3. Keep(c) /\ cn'[c].pc \in {"wchk", "read"} /\ (cn'[c].pc = "wchk" => ntx < use.tx)
  BY <1>1, Onward DEF IInv
<1>4. RecFits(c)'
  BY <1>1, <1>3, Kept
<1>5. PlaceFits(c)'
  BY <1>1, <1>2, <1>3 DEF PlaceFits, InLog, Going, Picking, Keep
<1>6. QED
  BY <1>1, <1>4, <1>5, Quiet DEF Fits, Fitted

\* The record of a write that has no list.
LEMMA BlankWrite ==
  ASSUME NEW n, NEW w,
         w.list = <<>>, w.app = <<>>, w.i = 1, w.j = 1, w.tx \in 0..n, w.spills \in 0..MaxSpill,
         w.first = 0, DOMAIN w = DOMAIN NoWrite
  PROVE  WriteFits(w, n) /\ Len(w.app) = 0
<1>1. <<>> \in Seq(Page) /\ Len(<<>>) = 0 /\ 1 \in Nat \ {0} /\ 0 \in Nat
  OBVIOUS
<1>2. DOMAIN w = {"list", "i", "app", "j", "commit", "first", "reck", "tx", "spills", "failed"}
  BY DEF NoWrite
<1>3. WriteFits(w, n)
  BY <1>1, <1>2 DEF WriteFits
<1>4. QED
  BY <1>1, <1>3

\* It goes on only from the newest header; then the transaction counts.
LEMMA FitCheckWrite ==
  ASSUME NEW c \in Conn, IInv, Fits, CheckWrite(c)
  PROVE  Fitted(c)
<1> FilesFit /\ IndexFits /\ RecFits(c) /\ PlaceFits(c) /\ OwnsOf(c)
  BY DEF Fits, IInv, Owns
<1>1. cn[c].pc = "wchk" /\ UNCHANGED <<files, shm, use>>
  BY DEF CheckWrite, At
<1>2. ~InLog(c)
  BY <1>1, NotInLog
<1>3. CASE cn[c].hdr # shm.h0
  <2>1. Goto(c, "read") /\ UNCHANGED ntx
    BY <1>3 DEF CheckWrite
  <2>2. Keep(c) /\ cn'[c].pc = "read"
    BY <2>1, Onward DEF IInv
  <2>3. RecFits(c)'
    BY <2>1, <2>2, Kept
  <2>4. PlaceFits(c)'
    BY <1>1, <1>2, <2>1, <2>2 DEF PlaceFits, InLog, Going, Picking, Keep
  <2>5. QED
    BY <1>1, <2>1, <2>3, <2>4, Quiet DEF Fitted
<1>4. CASE cn[c].hdr = shm.h0
  <2>1. ntx' = ntx + 1 /\ UNCHANGED held /\ cn' = [cn EXCEPT ![c].pc = "write", ![c].w.tx = ntx + 1]
    BY <1>4 DEF CheckWrite
  <2>2. cn[c].w = NoWrite
    BY <1>2 DEF PlaceFits
  <2>3. /\ cn'[c].hdr = cn[c].hdr /\ cn'[c].min = cn[c].min /\ cn'[c].cache = cn[c].cache
        /\ cn'[c].dirty = cn[c].dirty /\ cn'[c].k = cn[c].k /\ cn'[c].pc = "write"
        /\ cn'[c].w = [NoWrite EXCEPT !.tx = ntx + 1]
    BY <2>1, <2>2 DEF IInv, CnShape, CnRec
  <2>4. ntx \in Nat /\ ntx + 1 \in 0..use.tx /\ Room(ntx) \in Nat /\ Room(ntx + 1) = Room(ntx) + Per
        /\ Per \in Nat /\ Val(ntx) \subseteq Val(ntx + 1) /\ MaxSpill \in Nat
    <3>1. ntx \in Nat /\ use.tx \in Nat /\ ntx < use.tx
      BY <1>1, WalConstants, LogRoom DEF FilesFit, PlaceFits
    <3>2. ntx + 1 \in 0..use.tx /\ ntx + 1 \in Nat /\ ntx <= ntx + 1
      BY <3>1
    <3>3. Val(ntx) \subseteq Val(ntx + 1)
      BY <3>1, <3>2, ValGrows
    <3>4. Room(ntx) \in Nat /\ Room(ntx + 1) = Room(ntx) + Per /\ Per \in Nat
      BY <3>1, RoomNat
    <3>5. QED
      BY <3>1, <3>2, <3>3, <3>4, WalConstants
  <2>5. FilesFit'
    <3>1. db' \in [Page -> Val(ntx')]
      BY <1>1, <2>1, <2>4 DEF FilesFit, files
    <3>2. Len(wal.frames) \in Nat
      BY LogRoom
    <3>3. QED
      BY <1>1, <2>1, <2>4, <3>1, <3>2 DEF FilesFit, files, FrameFits
  <2>6. IndexFits'
    BY <1>1 DEF IndexFits, files
  <2>7. WriteFits(cn'[c].w, ntx')
    <3>1. /\ cn'[c].w.list = <<>> /\ cn'[c].w.app = <<>> /\ cn'[c].w.i = 1 /\ cn'[c].w.j = 1
          /\ cn'[c].w.tx = ntx + 1 /\ cn'[c].w.spills = 0 /\ cn'[c].w.first = 0
          /\ DOMAIN cn'[c].w = DOMAIN NoWrite
      BY <2>3 DEF NoWrite
    <3>2. ntx + 1 \in 0..ntx' /\ 0 \in 0..MaxSpill
      BY <2>1, <2>4
    <3>3. QED
      BY <3>1, <3>2, BlankWrite
  <2>8. RecFits(c)'
    BY <2>1, <2>3, <2>4, <2>7 DEF RecFits
  <2>9. PlaceFits(c)'
    <3>1. cn[c].k.mode = None /\ WRITE \in held[c].excl
      BY <1>1 DEF OwnsOf, Locks
    <3>2. cn[c].cache \in [Page -> Val(ntx)]
      BY <1>1 DEF PlaceFits
    <3>3. cn'[c].cache \in [Page -> Val(ntx')]
      BY <2>1, <2>3, <2>4, <3>2
    <3>4. shm.h0.mx <= Len(wal.frames) /\ shm.h0.mx \in Nat /\ Len(wal.frames) \in Nat
          /\ Len(wal.frames) <= Room(ntx)
      BY LogRoom DEF IndexFits, HdrFits, FilesFit
    <3>5. ntx' - 1 = ntx
      BY <2>1, <2>4
    <3>6. cn'[c].w.app = <<>> /\ cn'[c].w.spills = 0
      BY <2>3 DEF NoWrite
    <3>7. LogFits(c)'
      <4>1. /\ wal' = wal /\ shm' = shm /\ cn'[c].hdr = shm.h0 /\ cn'[c].pc = "write"
            /\ Len(cn'[c].w.app) = 0 /\ ntx' > 0
        BY <1>1, <1>4, <2>1, <2>3, <2>4, <3>6 DEF files
      <4>2. shm.h0.mx <= Room(ntx)
        BY <2>4, <3>4
      <4>3. shm.h0.mx + 0 <= Len(wal.frames) /\ shm.h0.mx <= Room(ntx) + 0
        BY <2>4, <3>4, <4>2
      <4>4. QED
        BY <3>3, <3>5, <3>6, <4>1, <4>2, <4>3 DEF LogFits, Going, Picking
    <3>8. InLog(c)'
      BY <2>1, <2>3, <3>1 DEF InLog
    <3>9. QED
      BY <2>3, <3>7, <3>8 DEF PlaceFits
  <2>10. QED
    BY <2>5, <2>6, <2>8, <2>9 DEF Fitted
<1>5. QED
  BY <1>3, <1>4

\* walRestartLog and the steps of walRestartHdr: the log is started over, or not.
LEMMA FitRestart ==
  ASSUME NEW c \in Conn, IInv, Fits, Restart(c) \/ EndMode(c)
  PROVE  Fitted(c)
<1> FilesFit /\ IndexFits /\ RecFits(c) /\ PlaceFits(c) /\ OwnsOf(c)
  BY DEF Fits, IInv, Owns
<1>1. /\ UNCHANGED <<files, shm, ntx, use>>
      /\ cn[c].pc \in {"restart", "kmode"}
      /\ \/ LockX(c, READERS) /\ cn' = [cn EXCEPT ![c] = RestartHdr(cn[c])]
         \/ cn[c].pc = "restart" /\ Goto(c, "unl0") /\ UNCHANGED held
         \/ cn[c].pc = "kmode" /\ Goto(c, "kfin") /\ UNCHANGED held
  BY DEF Restart, EndMode, At, bounds
<1>2. CASE LockX(c, READERS) /\ cn' = [cn EXCEPT ![c] = RestartHdr(cn[c])]
  <2>1. /\ cn'[c].hdr = [cn[c].hdr EXCEPT !.mx = 0, !.salt = NewSalt]
        /\ cn'[c].min = cn[c].min /\ cn'[c].cache = cn[c].cache
        /\ cn'[c].dirty = cn[c].dirty /\ cn'[c].w = cn[c].w /\ cn'[c].k = cn[c].k
        /\ cn'[c].pc = "sh1"
    BY <1>2 DEF RestartHdr, IInv, CnShape, CnRec
  <2>2. HdrFits(cn'[c].hdr) /\ cn'[c].hdr.mx = 0
    BY <2>1, LogRoom DEF RecFits, HdrFits
  <2>3. RecFits(c)'
    BY <1>1, <2>1, <2>2 DEF RecFits, WriteFits
  <2>4. held'[c].excl = held[c].excl \cup READERS
    BY <1>2 DEF LockX, IInv, HeldShape
  <2>5. PlaceFits(c)'
    <3>1. CASE cn[c].pc = "restart"
      <4>1. InLog(c) /\ LogFits(c) /\ InLog(c)'
        BY <2>1, <2>4, <3>1 DEF OwnsOf, Locks, PlaceFits, InLog, Going
      <4>2. cn[c].hdr.mx \in Nat /\ Len(cn[c].w.app) \in Nat /\ Len(wal.frames) \in Nat
            /\ cn[c].w.spills \in Nat
        BY LogRoom DEF RecFits, HdrFits, WriteFits
      <4>3. ntx - 1 \in Nat
        BY <4>1, LogRoom DEF LogFits
      <4>room. Room(ntx - 1) \in Nat
        BY <4>3, RoomNat
      <4>4. LogFits(c)'
        <5>1. /\ UNCHANGED <<wal, shm, ntx>> /\ cn'[c].hdr.mx = 0 /\ cn'[c].w = cn[c].w
              /\ cn'[c].cache = cn[c].cache /\ cn'[c].pc = "sh1" /\ cn[c].pc = "restart"
          BY <1>1, <2>1, <2>2, <3>1 DEF files
        <5>2. /\ 0 + Len(cn[c].w.app) <= Len(wal.frames)
              /\ 0 <= Room(ntx - 1) + cn[c].w.spills
          <6>1. cn[c].hdr.mx + Len(cn[c].w.app) <= Len(wal.frames)
            BY <4>1 DEF LogFits
          <6>2. QED
            BY <4>2, <4>room, <6>1
        <5>3. QED
          BY <4>1, <5>1, <5>2 DEF LogFits, Going, Picking, ListFits
      <4>5. QED
        BY <2>1, <2>2, <4>1, <4>4 DEF PlaceFits
    <3>2. CASE cn[c].pc = "kmode"
      <4>1. cn[c].k.mode # None
        BY <3>2 DEF OwnsOf, Locks
      <4>2. QED
        BY <2>1, <2>2, <3>2, <4>1 DEF PlaceFits, InLog
    <3>3. QED
      BY <1>1, <3>1, <3>2
  <2>6. QED
    BY <1>1, <2>3, <2>5, Quiet DEF Fitted
<1>3. CASE cn[c].pc = "restart" /\ Goto(c, "unl0") /\ UNCHANGED held
  <2>1. Keep(c) /\ cn'[c].pc = "unl0" /\ cn'[c].k = cn[c].k
    BY <1>3, Onward DEF IInv
  <2>2. cn[c].pc \in Going
    BY <1>3 DEF Going
  <2>3. QED
    BY <1>1, <1>3, <2>1, <2>2, FitGoing DEF Keep, RecFits
<1>4. CASE cn[c].pc = "kmode" /\ Goto(c, "kfin") /\ UNCHANGED held
  BY <1>1, <1>4, FitMove, NotInLog DEF Elsewhere
<1>5. QED
  BY <1>1, <1>2, <1>3, <1>4

\* The writer leaves read lock 0 for another mark.
LEMMA FitUnlockZero ==
  ASSUME NEW c \in Conn, IInv, Fits, UnlockZero(c)
  PROVE  Fitted(c)
<1> RecFits(c)
  BY DEF Fits
<1>1. /\ UNCHANGED <<files, shm, ntx, use>> /\ cn[c].pc = "unl0"
      /\ Goto(c, "pick") /\ FreeS(c)
  BY DEF UnlockZero, At, bounds
<1>2. Keep(c) /\ cn'[c].pc = "pick" /\ cn'[c].k = cn[c].k
  BY <1>1, Onward DEF IInv
<1>3. held'[c].excl = held[c].excl
  BY <1>1 DEF FreeS, IInv, HeldShape
<1>4. QED
  BY <1>1, <1>2, <1>3, FitGoing DEF Keep, Picking, Going, RecFits

\* A page of the transaction is changed in the page cache.
LEMMA FitUpdate ==
  ASSUME NEW c \in Conn, IInv, Fits, NEW S \in SUBSET Page, Update(c, S)
  PROVE  Fitted(c)
<1> FilesFit /\ IndexFits /\ RecFits(c) /\ PlaceFits(c) /\ OwnsOf(c)
  BY DEF Fits, IInv, Owns
<1>1. /\ UNCHANGED <<files, shm, ntx, use, held>> /\ cn[c].pc = "write"
  BY DEF Update, At, bounds
<1>2. InLog(c) /\ LogFits(c)
  BY <1>1 DEF OwnsOf, Locks, PlaceFits, InLog
<1>3. cn[c].w.tx \in 0..ntx /\ ntx \in Nat
  BY LogRoom DEF RecFits, WriteFits
<1>4. 2 * cn[c].w.tx \in Val(ntx) /\ 2 * cn[c].w.tx + 1 \in Val(ntx)
  BY <1>3 DEF Val
<1>5. /\ cn'[c].hdr = cn[c].hdr /\ cn'[c].min = cn[c].min /\ cn'[c].w = cn[c].w
      /\ cn'[c].dirty = cn[c].dirty \cup S /\ cn'[c].k = cn[c].k /\ cn'[c].pc = "write"
      /\ cn'[c].cache = [p \in Page |-> IF p \in S
                           THEN [q \in S |-> IF cn[c].cache[q] = 2 * cn[c].w.tx
                                             THEN 2 * cn[c].w.tx + 1 ELSE 2 * cn[c].w.tx][p]
                           ELSE cn[c].cache[p]]
  BY <1>1 DEF Update, IInv, CnShape, CnRec
<1>6. cn'[c].cache \in [Page -> Val(ntx)]
  BY <1>2, <1>4, <1>5 DEF LogFits
<1>7. RecFits(c)'
  BY <1>1, <1>5, <1>6 DEF RecFits
<1>8. PlaceFits(c)'
  BY <1>1, <1>2, <1>5, <1>6 DEF PlaceFits, InLog, LogFits, Going, Picking, files
<1>9. QED
  BY <1>1, <1>7, <1>8, Quiet DEF Fitted

\* A list of pages goes to the log.
LEMMA FitWalFrames ==
  ASSUME NEW c \in Conn, IInv, Fits, NEW list \in Seq(Page), NEW commit,
         list # <<>>, cn[c].w.spills + Len(list) <= Per,
         ~commit => Len(list) = 1 /\ cn[c].w.spills < MaxSpill,
         WalFrames(c, list, commit)
  PROVE  Fitted(c)
<1> FilesFit /\ IndexFits /\ RecFits(c) /\ PlaceFits(c) /\ OwnsOf(c)
  BY DEF Fits, IInv, Owns
<1>1. /\ UNCHANGED <<files, shm, ntx, use, held>> /\ cn[c].pc = "write" /\ ~cn[c].w.failed
  BY DEF WalFrames, At, bounds
<1>2. InLog(c) /\ LogFits(c)
  BY <1>1 DEF OwnsOf, Locks, PlaceFits, InLog
<1> DEFINE f == IF cn[c].hdr # shm.h0 THEN shm.h0.mx + 1 ELSE 0
           v == [cn[c].w EXCEPT !.list = list, !.i = 1, !.app = <<>>, !.j = 1,
                                !.commit = commit, !.first = f]
           l == IF READ(0) \in held[c].shared THEN "restart"
                ELSE IF cn[c].hdr.mx = 0 THEN "whdr" ELSE "wframe"
<1>3. /\ cn'[c].hdr = cn[c].hdr /\ cn'[c].min = cn[c].min /\ cn'[c].cache = cn[c].cache
      /\ cn'[c].dirty = cn[c].dirty /\ cn'[c].k = cn[c].k
      /\ cn'[c].w = v /\ cn'[c].pc = l
  BY DEF WalFrames, IInv, CnShape, CnRec
<1>4. f \in Nat /\ l \in {"restart", "whdr", "wframe"}
  BY LogRoom DEF IndexFits, HdrFits
<1> HIDE DEF f, l
<1>5. DOMAIN cn[c].w = {"list", "i", "app", "j", "commit", "first", "reck", "tx", "spills", "failed"}
  BY DEF RecFits, WriteFits
<1>6. /\ v.list = list /\ v.i = 1 /\ v.app = <<>> /\ v.j = 1 /\ v.commit = commit /\ v.first = f
      /\ v.tx = cn[c].w.tx /\ v.spills = cn[c].w.spills /\ v.failed = cn[c].w.failed
      /\ DOMAIN v = DOMAIN cn[c].w
  BY <1>5
<1> HIDE DEF v
<1>7. <<>> \in Seq(Page) /\ Len(<<>>) = 0 /\ 1 \in Nat \ {0} /\ Len(list) \in Nat \ {0}
  OBVIOUS
<1>8. WriteFits(v, ntx)
  BY <1>4, <1>5, <1>6, <1>7 DEF RecFits, WriteFits
<1>9. ListFits(v)
  BY <1>1, <1>6, <1>7 DEF ListFits
<1>10. RecFits(c)'
  BY <1>1, <1>3, <1>8 DEF RecFits
<1>11. InLog(c)'
  BY <1>1, <1>2, <1>3, <1>4 DEF InLog, Going
<1>12. Len(cn[c].w.app) = 0
  BY <1>1, <1>2, <1>7 DEF LogFits
<1>13. LogFits(c)'
  <2>1. UNCHANGED <<wal, shm, ntx>> /\ Len(v.app) = 0 /\ v.i <= Len(v.list)
    BY <1>1, <1>6, <1>7 DEF files
  <2>2. QED
    BY <1>1, <1>2, <1>3, <1>4, <1>6, <1>9, <1>12, <2>1 DEF LogFits, Going, Picking
<1>14. PlaceFits(c)'
  BY <1>3, <1>4, <1>11, <1>13 DEF PlaceFits
<1>15. QED
  BY <1>1, <1>10, <1>14, Quiet DEF Fitted

\* One page goes to the log before the commit.
LEMMA FitSpill ==
  ASSUME NEW c \in Conn, IInv, Fits, NEW p \in Page, Spill(c, p)
  PROVE  Fitted(c)
<1> FilesFit /\ IndexFits /\ RecFits(c)
  BY DEF Fits
<1>1. cn[c].w.spills \in 0..MaxSpill /\ MaxSpill \in Nat /\ cn[c].w.spills < MaxSpill
  <2>1. use.spills \in 0..MaxSpill /\ cn[c].w.spills < use.spills /\ cn[c].w.spills \in 0..MaxSpill
        /\ MaxSpill \in Nat
    BY WalConstants DEF Spill, FilesFit, RecFits, WriteFits
  <2>2. QED
    BY <2>1
<1>2. Cardinality(Page) \in Nat
  BY WalConstants, FS_CardinalityType
<1>3. <<p>> \in Seq(Page) /\ Len(<<p>>) = 1 /\ <<p>> # <<>>
  OBVIOUS
<1>4. cn[c].w.spills + 1 <= Per
  BY <1>1, <1>2 DEF Per
<1>5. WalFrames(c, <<p>>, FALSE)
  BY DEF Spill
<1>6. QED
  BY <1>1, <1>3, <1>4, <1>5, FitWalFrames

\* The pages of a set in ascending order.
LEMMA AscendingPages ==
  ASSUME NEW A \in SUBSET Page
  PROVE  /\ IsFiniteSet(A) /\ Cardinality(A) \in Nat /\ Cardinality(A) <= Cardinality(Page)
         /\ Ascending(A) \in [1..Cardinality(A) -> A]
<1>1. IsFiniteSet(A) /\ Cardinality(A) \in Nat /\ Cardinality(A) <= Cardinality(Page) /\ A \subseteq Nat
  BY WalConstants, FS_Subset, FS_CardinalityType
<1> DEFINE Upto(e) == {x \in A : x <= e}
           T == 1..Cardinality(A)
           rank == [e \in A |-> Cardinality(Upto(e))]
<1>2. \A e \in A : IsFiniteSet(Upto(e)) /\ Cardinality(Upto(e)) \in T
  <2> TAKE e \in A
  <2>1. Upto(e) \in SUBSET A /\ e \in Upto(e)
    BY <1>1
  <2>2. IsFiniteSet(Upto(e)) /\ Cardinality(Upto(e)) \in Nat
        /\ Cardinality(Upto(e)) <= Cardinality(A) /\ Cardinality(Upto(e)) # 0
    BY <1>1, <2>1, FS_Subset, FS_CardinalityType, FS_EmptySet
  <2>3. QED
    BY <1>1, <2>2
<1>3. ASSUME NEW d \in A, NEW e \in A, d < e
      PROVE  rank[d] < rank[e]
  <2>1. Upto(d) \in SUBSET Upto(e) /\ e \in Upto(e) /\ e \notin Upto(d)
    <3>1. \A x \in A : x <= d => x <= e
      BY <1>1, <1>3
    <3>2. e <= e /\ ~ (e <= d)
      BY <1>1, <1>3
    <3>3. QED
      BY <3>1, <3>2
  <2>2. Cardinality(Upto(d)) <= Cardinality(Upto(e)) /\ Cardinality(Upto(d)) # Cardinality(Upto(e))
    BY <1>2, <2>1, FS_Subset
  <2>3. Cardinality(Upto(d)) \in Nat /\ Cardinality(Upto(e)) \in Nat
    BY <1>2
  <2>4. QED
    BY <2>2, <2>3
<1>4. rank \in [A -> T]
  BY <1>2
<1> HIDE DEF rank
<1>5. ASSUME NEW d \in A, NEW e \in A, rank[d] = rank[e]
      PROVE  d = e
  <2>1. d \in Nat /\ e \in Nat /\ rank[d] \in T
    BY <1>1, <1>4
  <2>2. ~ (d < e) /\ ~ (e < d)
    BY <1>3, <1>5, <2>1
  <2>3. QED
    BY <2>1, <2>2
<1>6. \A x \in T : \E e \in A : rank[e] = x
  <2>1. rank \in Injection(A, T)
    BY <1>4, <1>5, Zenon DEF Injection, IsInjective
  <2>2. IsFiniteSet(T) /\ Cardinality(T) = Cardinality(A)
    BY <1>1, FS_Interval
  <2>3. rank \in Surjection(A, T)
    BY <1>1, <2>1, <2>2, FS_Injection
  <2>4. QED
    BY <2>3 DEF Surjection
<1> DEFINE s == [x \in T |-> CHOOSE e \in A : rank[e] = x]
<1>7. s \in [T -> A] /\ \A x \in T : rank[s[x]] = x
  BY <1>6
<1> HIDE DEF s
<1>8. ASSUME NEW a \in T, NEW b \in T, a < b
      PROVE  s[a] < s[b]
  <2>1. s[a] \in A /\ s[b] \in A /\ s[a] \in Nat /\ s[b] \in Nat /\ rank[s[a]] = a /\ rank[s[b]] = b
    BY <1>1, <1>7
  <2>2. s[a] # s[b]
    BY <1>8, <2>1
  <2>3. ~ (s[b] < s[a])
    <3>1. SUFFICES ASSUME s[b] < s[a] PROVE FALSE
      OBVIOUS
    <3>2. b < a
      BY <1>3, <2>1, <3>1
    <3>3. QED
      BY <1>1, <1>8, <3>2
  <2>4. QED
    BY <2>1, <2>2, <2>3
<1>9. DOMAIN s = T
  BY <1>7
<1>10. \E t \in [1..Cardinality(A) -> A] : \A a, b \in DOMAIN t : a < b => t[a] < t[b]
  BY <1>7, <1>8, <1>9
<1>11. Ascending(A) \in [1..Cardinality(A) -> A]
  BY <1>10, Zenon DEF Ascending
<1>12. QED
  BY <1>1, <1>11

\* The changed pages go to the log, each once.
LEMMA FitCommit ==
  ASSUME NEW c \in Conn, IInv, Fits, Commit(c)
  PROVE  Fitted(c)
<1> FilesFit /\ IndexFits /\ RecFits(c)
  BY DEF Fits
<1> DEFINE list == IF cn[c].dirty = {} THEN <<PageLow>> ELSE Ascending(cn[c].dirty)
<1>1. WalFrames(c, list, TRUE) /\ Page # {}
  BY DEF Commit
<1>2. cn[c].w.spills \in 0..MaxSpill /\ MaxSpill \in Nat /\ Cardinality(Page) \in Nat \ {0}
  BY <1>1, WalConstants, FS_CardinalityType, FS_EmptySet DEF RecFits, WriteFits
<1>3. list \in Seq(Page) /\ list # <<>> /\ Len(list) <= Cardinality(Page) /\ Len(list) \in Nat
  <2>1. CASE cn[c].dirty = {}
    <3>1. PageLow \in Page
      <4>1. \E p \in Page : \A q \in Page : p <= q
        BY <1>1, WalConstants, Smallest
      <4>2. QED
        BY <4>1 DEF PageLow
    <3>2. list = <<PageLow>>
      BY <2>1
    <3>3. \A p \in Page : <<p>> \in Seq(Page) /\ Len(<<p>>) = 1 /\ <<p>> # <<>>
      OBVIOUS
    <3> HIDE DEF list
    <3>4. list \in Seq(Page) /\ Len(list) = 1 /\ list # <<>>
      BY <3>1, <3>2, <3>3
    <3>5. QED
      BY <1>2, <3>4
  <2>2. CASE cn[c].dirty # {}
    <3> DEFINE A == cn[c].dirty
    <3>1. A \in SUBSET Page
      BY DEF RecFits
    <3>2. IsFiniteSet(A) /\ Cardinality(A) \in Nat /\ Cardinality(A) <= Cardinality(Page)
          /\ Ascending(A) \in [1..Cardinality(A) -> A]
      BY <3>1, AscendingPages
    <3>3. Cardinality(A) # 0
      BY <2>2, <3>2, FS_EmptySet
    <3>4. list = Ascending(A)
      BY <2>2
    <3> HIDE DEF list, A
    <3>5. list \in [1..Cardinality(A) -> Page] /\ Len(list) = Cardinality(A)
      BY <3>1, <3>2, <3>4
    <3>6. QED
      BY <3>2, <3>3, <3>5
  <2>3. QED
    BY <2>1, <2>2
<1> HIDE DEF list
<1>4. cn[c].w.spills + Len(list) <= Per
  BY <1>2, <1>3 DEF Per
<1>5. QED
  BY <1>1, <1>3, <1>4, FitWalFrames

\* The first header of a log, or the next one.
LEMMA FitWriteWalHdr ==
  ASSUME NEW c \in Conn, IInv, Fits, WriteWalHdr(c)
  PROVE  Fitted(c)
<1> FilesFit /\ IndexFits /\ RecFits(c) /\ PlaceFits(c) /\ OwnsOf(c)
  BY DEF Fits, IInv, Owns
<1>1. UNCHANGED <<db, shm, ntx, use, held>> /\ cn[c].pc = "whdr"
  BY DEF WriteWalHdr, At, bounds
<1>2. PICK salt : /\ wal' = [wal EXCEPT !.salt = salt]
                  /\ cn' = [cn EXCEPT ![c].pc = "wframe", ![c].hdr.salt = salt,
                                      ![c].hdr.ck = HdrCk(salt)]
  BY DEF WriteWalHdr
<1>3. /\ cn'[c].min = cn[c].min /\ cn'[c].cache = cn[c].cache /\ cn'[c].w = cn[c].w
      /\ cn'[c].dirty = cn[c].dirty /\ cn'[c].k = cn[c].k /\ cn'[c].pc = "wframe"
      /\ cn'[c].hdr.mx = cn[c].hdr.mx /\ DOMAIN cn'[c].hdr = DOMAIN cn[c].hdr
  BY <1>2 DEF IInv, CnShape, CnRec, RecFits, HdrFits
<1>4. wal'.frames = wal.frames /\ DOMAIN wal' = DOMAIN wal
  BY <1>2 DEF FilesFit
<1>5. FilesFit' /\ IndexFits'
  BY <1>1, <1>4 DEF FilesFit, IndexFits
<1>6. RecFits(c)'
  BY <1>1, <1>3 DEF RecFits, HdrFits
<1>7. InLog(c) /\ LogFits(c) /\ InLog(c)'
  BY <1>1, <1>3 DEF OwnsOf, Locks, PlaceFits, InLog, Going
<1>8. LogFits(c)'
  BY <1>1, <1>3, <1>4, <1>7 DEF LogFits, Going, Picking
<1>9. PlaceFits(c)'
  BY <1>3, <1>7, <1>8 DEF PlaceFits
<1>10. QED
  BY <1>5, <1>6, <1>9 DEF Fitted

\* A frame of the log is replaced, or one is added at its end.
LEMMA PutFits ==
  ASSUME FilesFit, NEW f \in 1..Len(wal.frames) + 1, NEW frame, FrameFits(frame, ntx),
         f <= Room(ntx), wal' = PutFrame(f, frame), UNCHANGED <<db, ntx, use>>
  PROVE  FilesFit' /\ Len(wal'.frames) >= Len(wal.frames) /\ Len(wal'.frames) >= f
         /\ Len(wal'.frames) \in Nat
<1> DEFINE s == wal.frames
           n == Len(s)
<1>1. PICK S : s \in Seq(S)
  BY DEF FilesFit
<1>2. n \in Nat /\ DOMAIN wal = {"salt", "frames"}
  BY <1>1 DEF FilesFit
<1>3. CASE f <= n
  <2>1. wal'.frames = [s EXCEPT ![f] = frame] /\ DOMAIN wal' = {"salt", "frames"}
    BY <1>2, <1>3 DEF PutFrame
  <2>2. [s EXCEPT ![f] = frame] \in Seq(S \cup {frame}) /\ Len([s EXCEPT ![f] = frame]) = n
        /\ \A g \in 1..n : [s EXCEPT ![f] = frame][g] = IF g = f THEN frame ELSE s[g]
    BY <1>1, <1>2, <1>3
  <2>3. \A g \in 1..n : FrameFits([s EXCEPT ![f] = frame][g], ntx)
    BY <2>2 DEF FilesFit
  <2>4. FilesFit'
    BY <2>1, <2>2, <2>3 DEF FilesFit
  <2>5. QED
    BY <1>2, <1>3, <2>1, <2>2, <2>4
<1>4. CASE ~ (f <= n)
  <2>1. wal'.frames = Append(s, frame) /\ DOMAIN wal' = {"salt", "frames"}
    BY <1>2, <1>4 DEF PutFrame
  <2>2. Append(s, frame) \in Seq(S \cup {frame}) /\ Len(Append(s, frame)) = n + 1
        /\ \A g \in 1..n + 1 : Append(s, frame)[g] = IF g = n + 1 THEN frame ELSE s[g]
    BY <1>1, <1>2
  <2>3. \A g \in 1..n + 1 : FrameFits(Append(s, frame)[g], ntx)
    <3> TAKE g \in 1..n + 1
    <3>1. CASE g = n + 1
      BY <2>2, <3>1
    <3>2. CASE g # n + 1
      <4>1. g \in 1..n
        BY <1>2, <3>2
      <4>2. QED
        BY <2>2, <3>2, <4>1 DEF FilesFit
    <3>3. QED
      BY <3>1, <3>2
  <2>4. f = n + 1
    BY <1>2, <1>4
  <2>5. FilesFit'
    BY <2>1, <2>2, <2>3, <2>4 DEF FilesFit
  <2>6. QED
    BY <1>2, <2>1, <2>2, <2>4, <2>5
<1>5. QED
  BY <1>3, <1>4

\* The page of a frame is written over.
LEMMA OverFits ==
  ASSUME FilesFit, NEW f \in 1..Len(wal.frames), NEW v \in Val(ntx),
         wal' = [wal EXCEPT !.frames[f].val = v], UNCHANGED <<db, ntx, use>>
  PROVE  FilesFit' /\ Len(wal'.frames) = Len(wal.frames)
<1> DEFINE frame == [wal.frames[f] EXCEPT !.val = v]
<1>1. FrameFits(wal.frames[f], ntx)
  BY DEF FilesFit
<1>2. FrameFits(frame, ntx)
  BY <1>1 DEF FrameFits
<1>3. PICK S : wal.frames \in Seq(S)
  BY DEF FilesFit
<1> HIDE DEF frame
<1>4. wal'.frames = [wal.frames EXCEPT ![f] = frame] /\ DOMAIN wal' = {"salt", "frames"}
  BY DEF FilesFit, frame
<1>5. [wal.frames EXCEPT ![f] = frame] \in Seq(S \cup {frame})
      /\ Len([wal.frames EXCEPT ![f] = frame]) = Len(wal.frames)
      /\ \A g \in 1..Len(wal.frames) :
            [wal.frames EXCEPT ![f] = frame][g] = IF g = f THEN frame ELSE wal.frames[g]
  BY <1>3
<1>6. \A g \in 1..Len(wal.frames) : FrameFits([wal.frames EXCEPT ![f] = frame][g], ntx)
  BY <1>2, <1>5 DEF FilesFit
<1>7. FilesFit'
  BY <1>4, <1>5, <1>6 DEF FilesFit
<1>8. QED
  BY <1>4, <1>5, <1>7

\* A frame is appended, or an earlier one of the transaction is written over.
LEMMA FitWriteFrame ==
  ASSUME NEW c \in Conn, IInv, Fits, WriteFrame(c)
  PROVE  Fitted(c)
<1> FilesFit /\ IndexFits /\ RecFits(c) /\ PlaceFits(c) /\ OwnsOf(c)
  BY DEF Fits, IInv, Owns
<1>1. UNCHANGED <<db, shm, ntx, use, held>> /\ cn[c].pc = "wframe"
  BY DEF WriteFrame, At, bounds
<1> DEFINE me   == cn[c]
           p    == me.w.list[me.w.i]
           last == me.w.i = Len(me.w.list)
           f    == FindFrame(p, me.min, me.hdr.mx)
           over == me.w.first > 0 /\ ~(last /\ me.w.commit) /\ f >= me.w.first
           new  == [page |-> p, val |-> me.cache[p], commit |-> last /\ me.w.commit,
                    salt |-> IF me.w.reck = 0 THEN me.hdr.salt ELSE 0,
                    prev |-> me.hdr.ck]
           reck == IF over /\ (me.w.reck = 0 \/ f < me.w.reck) THEN f ELSE me.w.reck
           at   == me.hdr.mx + Len(me.w.app) + 1
           app  == IF over THEN me.w.app ELSE Append(me.w.app, p)
           l    == IF ~last THEN "wframe"
                   ELSE IF me.w.commit /\ reck > 0 THEN "wreck" ELSE "windex"
           v    == cn'[c].w
<1>2. /\ wal' = IF over THEN [wal EXCEPT !.frames[f].val = me.cache[p]] ELSE PutFrame(at, new)
      /\ cn' = [cn EXCEPT
              ![c].w = [me.w EXCEPT !.i = me.w.i + 1, !.reck = reck,
                                    !.app = IF over THEN me.w.app ELSE Append(me.w.app, p)],
              ![c].hdr.ck = IF over \/ me.w.reck > 0 THEN @ ELSE Cksum(new),
              ![c].pc = IF ~last THEN "wframe"
                        ELSE IF me.w.commit /\ reck > 0 THEN "wreck" ELSE "windex"]
  BY Zenon DEF WriteFrame
<1>3. InLog(c) /\ LogFits(c)
  BY <1>1 DEF OwnsOf, Locks, PlaceFits, InLog, Going
<1>4. /\ me.w.list \in Seq(Page) /\ me.w.app \in Seq(Page) /\ me.w.i \in Nat \ {0}
      /\ me.w.spills \in Nat /\ me.w.first \in Nat
      /\ me.min \in Nat /\ me.hdr.mx \in Nat
      /\ DOMAIN me.w = {"list", "i", "app", "j", "commit", "first", "reck", "tx", "spills", "failed"}
  BY LogRoom DEF RecFits, WriteFits, HdrFits
<1>held. /\ me.cache \in [Page -> Val(ntx)]
      /\ ~me.w.failed /\ ntx > 0
  BY <1>1, <1>3 DEF LogFits, ListFits, Going
<1>5. /\ me.hdr.mx + Len(me.w.app) <= Len(wal.frames)
      /\ me.hdr.mx <= Room(ntx - 1) + me.w.spills
      /\ me.w.spills + Len(me.w.list) <= Per
      /\ Len(me.w.app) <= me.w.i - 1
      /\ me.w.i <= Len(me.w.list)
  BY <1>1, <1>3, <1>held DEF LogFits, ListFits, Going
<1>lens. Len(me.w.list) \in Nat /\ Len(me.w.app) \in Nat /\ Len(wal.frames) \in Nat
  BY <1>4, LogRoom
<1>place. me.w.i \in 1..Len(me.w.list)
  BY <1>4, <1>5, <1>lens
<1>6. p \in Page /\ Len(me.w.list) \in Nat /\ Len(me.w.app) \in Nat /\ Len(wal.frames) \in Nat
  BY <1>4, <1>lens, <1>place
<1>7. me.cache[p] \in Val(ntx)
  BY <1>held, <1>6
<1>8. Room(ntx - 1) \in Nat /\ Per \in Nat /\ Room(ntx) = Room(ntx - 1) + Per
  <2>1. ntx - 1 \in Nat /\ (ntx - 1) + 1 = ntx
    BY <1>held, LogRoom
  <2>2. QED
    BY <2>1, RoomNat
<1>9. f \in 0..me.hdr.mx
  BY <1>4, Found
<1>10. FrameFits(new, ntx)
  BY <1>6, <1>7 DEF FrameFits
<1>11. /\ at \in 1..Len(wal.frames) + 1 /\ at <= Room(ntx)
       /\ at = me.hdr.mx + Len(me.w.app) + 1
  <2> DEFINE sp == me.w.spills
             ll == Len(me.w.list)
             la == Len(me.w.app)
             mx == me.hdr.mx
             i  == me.w.i
             r  == Room(ntx - 1)
             fr == Len(wal.frames)
  <2>1. /\ sp \in Nat /\ ll \in Nat /\ la \in Nat /\ mx \in Nat /\ i \in Nat /\ r \in Nat
        /\ fr \in Nat /\ Per \in Nat /\ Room(ntx) = r + Per /\ at = mx + la + 1
        /\ mx + la <= fr /\ mx <= r + sp /\ sp + ll <= Per /\ la <= i - 1 /\ i <= ll
    BY <1>4, <1>5, <1>6, <1>8
  <2> HIDE DEF sp, ll, la, mx, i, r, fr, at
  <2>2. at \in 1..fr + 1 /\ at <= Room(ntx) /\ at = mx + la + 1
    BY <2>1
  <2>3. QED
    BY <2>2 DEF fr, mx, la
<1>12. /\ app \in Seq(Page) /\ Len(app) <= me.w.i
       /\ over => Len(app) = Len(me.w.app)
       /\ ~over => Len(app) = Len(me.w.app) + 1
  <2>1. Append(me.w.app, p) \in Seq(Page) /\ Len(Append(me.w.app, p)) = Len(me.w.app) + 1
    BY <1>4, <1>6
  <2> HIDE DEF me, p, last, f, over, new, reck, l, v, at
  <2>2. QED
    BY <1>4, <1>5, <1>6, <2>1
<1>13. FilesFit' /\ Len(wal'.frames) \in Nat /\ Len(wal'.frames) >= Len(wal.frames)
       /\ me.hdr.mx + Len(app) <= Len(wal'.frames)
  <2>1. CASE over
    <3>1. f \in 1..Len(wal.frames)
      <4>1. me.w.first > 0 /\ f >= me.w.first
        BY <2>1
      <4> HIDE DEF me, p, last, f, over, new, reck, app, l, v, at
      <4>2. QED
        BY <1>4, <1>5, <1>6, <1>9, <4>1
    <3>2. wal' = [wal EXCEPT !.frames[f].val = me.cache[p]]
      BY <1>2, <2>1
    <3> HIDE DEF me, p, last, f, over, new, reck, app, l, v, at
    <3>3. FilesFit' /\ Len(wal'.frames) = Len(wal.frames)
      BY <1>1, <1>7, <3>1, <3>2, OverFits
    <3>4. QED
      BY <1>4, <1>5, <1>6, <1>12, <2>1, <3>3
  <2>2. CASE ~over
    <3>2. wal' = PutFrame(at, new)
      BY <1>2, <2>2
    <3> HIDE DEF me, p, last, f, over, new, reck, app, l, v, at
    <3>3. FilesFit' /\ Len(wal'.frames) \in Nat /\ Len(wal'.frames) >= Len(wal.frames)
          /\ Len(wal'.frames) >= at
      BY <1>1, <1>10, <1>11, <3>2, PutFits
    <3>4. at = me.hdr.mx + Len(app) /\ at \in Nat
      <4> DEFINE mx == me.hdr.mx
                 n  == Len(me.w.app)
                 m  == Len(app)
      <4>1. mx \in Nat /\ n \in Nat
        BY <1>4, <1>6
      <4>2. at = mx + n + 1
        BY <1>11
      <4>3. m = n + 1
        BY <1>12, <2>2, Zenon
      <4> HIDE DEF mx, n, m
      <4>4. at = mx + m /\ at \in Nat
        BY <4>1, <4>2, <4>3
      <4>5. QED
        BY <4>4 DEF mx, m
    <3>5. QED
      BY <3>3, <3>4
  <2>3. QED
    BY <2>1, <2>2
<1>14. /\ ~last => l = "wframe"
       /\ last => l \in {"wreck", "windex"}
  OBVIOUS
<1>15. /\ v.i = me.w.i + 1 /\ v.app = app /\ v.list = me.w.list /\ v.j = me.w.j /\ v.tx = me.w.tx
       /\ v.spills = me.w.spills /\ v.first = me.w.first /\ v.commit = me.w.commit
       /\ v.failed = me.w.failed /\ DOMAIN v = DOMAIN me.w
  <2>1. CnRec(cn[c]) /\ DOMAIN cn = Conn
    BY DEF IInv, CnShape
  <2> HIDE DEF p, f, over, new, reck, last
  <2>2. DOMAIN v = DOMAIN me.w
    BY <1>2, <2>1, Zenon DEF CnRec
  <2>3. v.i = me.w.i + 1
    BY <1>2, <1>4, <2>1, Zenon DEF CnRec
  <2>4. v.app = app
    BY <1>2, <1>4, <2>1, Zenon DEF CnRec
  <2>5. v.list = me.w.list
    BY <1>2, <1>4, <2>1, Zenon DEF CnRec
  <2>j. v.j = me.w.j
    BY <1>2, <1>4, <2>1, Zenon DEF CnRec
  <2>6. v.tx = me.w.tx /\ v.spills = me.w.spills
    BY <1>2, <1>4, <2>1, Zenon DEF CnRec
  <2>7. v.first = me.w.first /\ v.commit = me.w.commit
    BY <1>2, <1>4, <2>1, Zenon DEF CnRec
  <2>8. v.failed = me.w.failed
    BY <1>2, <1>4, <2>1, Zenon DEF CnRec
  <2>9. QED
    BY <2>2, <2>3, <2>4, <2>5, <2>j, <2>6, <2>7, <2>8
<1>16. /\ cn'[c].min = cn[c].min /\ cn'[c].cache = cn[c].cache /\ cn'[c].w = v
       /\ cn'[c].dirty = cn[c].dirty /\ cn'[c].k = cn[c].k /\ cn'[c].pc = l
       /\ cn'[c].hdr.mx = cn[c].hdr.mx /\ DOMAIN cn'[c].hdr = DOMAIN cn[c].hdr
  <2>1. cn[c].hdr.mx = cn[c].hdr.mx /\ CnRec(cn[c]) /\ DOMAIN cn = Conn
    BY DEF IInv, CnShape
  <2>2. cn'[c].min = cn[c].min /\ cn'[c].cache = cn[c].cache
    BY <1>2, <2>1, Zenon DEF CnRec
  <2>3. cn'[c].dirty = cn[c].dirty /\ cn'[c].k = cn[c].k
    BY <1>2, <2>1, Zenon DEF CnRec
  <2>5. cn'[c].pc = l
    BY <1>2, <2>1, Zenon DEF CnRec
  <2>6. cn'[c].hdr.mx = cn[c].hdr.mx
    BY <1>2, <2>1, Zenon DEF CnRec, RecFits, HdrFits
  <2>7. DOMAIN cn'[c].hdr = DOMAIN cn[c].hdr
    BY <1>2, <2>1, Zenon DEF CnRec, RecFits, HdrFits
  <2>8. QED
    BY <2>2, <2>3, <2>5, <2>6, <2>7
<1> HIDE DEF p, f, over, new, reck, app, l, v, at
<1>17. IndexFits'
  BY <1>1, <1>6, <1>13 DEF IndexFits, HdrFits
<1>18. WriteFits(v, ntx)
  <2>1. WriteFits(me.w, ntx)
    BY DEF RecFits
  <2>2. me.w.i + 1 \in Nat \ {0}
    BY <2>1 DEF WriteFits
  <2> HIDE DEF me
  <2>3. QED
    BY <1>12, <1>15, <2>1, <2>2 DEF WriteFits
<1>19. RecFits(c)'
  BY <1>1, <1>16, <1>18 DEF RecFits, HdrFits
<1>20. InLog(c)'
  BY <1>1, <1>3, <1>14, <1>16 DEF InLog, Going
<1>21. ListFits(v)
  BY <1>1, <1>3, <1>4, <1>12, <1>15 DEF LogFits, ListFits
<1>22. LogFits(c)'
  <2>2. l = "wframe" => v.i <= Len(v.list)
    BY <1>4, <1>5, <1>6, <1>14, <1>15
  <2>3. l \in {"wreck", "windex"} => v.i = Len(v.list) + 1
    BY <1>4, <1>5, <1>6, <1>14, <1>15
  <2>4. l \in {"wframe", "wreck", "windex"} /\ (l \in Going <=> l = "wframe")
    BY <1>14 DEF Going, Picking
  <2>5. cn[c].hdr.mx <= Room(ntx - 1) + v.spills /\ cn[c].hdr.mx + Len(v.app) <= Len(wal'.frames)
    BY <1>5, <1>13, <1>15
  <2>6. ntx > 0 /\ shm.h0.mx <= Room(ntx - 1)
    BY <1>3 DEF LogFits
  <2>7. QED
    BY <1>1, <1>held, <1>16, <1>21, <2>2, <2>3, <2>4, <2>5, <2>6 DEF LogFits
<1>23. PlaceFits(c)'
  BY <1>14, <1>16, <1>20, <1>22 DEF PlaceFits
<1>24. QED
  BY <1>13, <1>17, <1>19, <1>23 DEF Fitted

\* walRewriteChecksums.
LEMMA FitRewriteChecksums ==
  ASSUME NEW c \in Conn, IInv, Fits, RewriteChecksums(c)
  PROVE  Fitted(c)
<1> FilesFit /\ IndexFits /\ RecFits(c) /\ PlaceFits(c) /\ OwnsOf(c)
  BY DEF Fits, IInv, Owns
<1>1. UNCHANGED <<db, shm, ntx, use, held>> /\ cn[c].pc = "wreck"
  BY DEF RewriteChecksums, At, bounds
<1> DEFINE n == Len(wal.frames)
           last == cn[c].hdr.mx + Len(cn[c].w.app)
           good == [f \in DOMAIN wal.frames |->
                      IF f \in cn[c].w.reck..last
                      THEN [wal.frames[f] EXCEPT
                              !.salt = cn[c].hdr.salt,
                              !.prev = IF f = 1 THEN HdrCk(wal.salt)
                                       ELSE Cksum(wal.frames[f - 1])]
                      ELSE wal.frames[f]]
<1>2. /\ wal' = [wal EXCEPT !.frames = good]
      /\ cn' = [cn EXCEPT ![c].hdr.ck = Cksum(good[last]), ![c].w.reck = 0, ![c].pc = "windex"]
  BY Zenon DEF RewriteChecksums
<1>3. n \in Nat /\ DOMAIN wal.frames = 1..n /\ DOMAIN wal = {"salt", "frames"}
  BY LogRoom DEF FilesFit
<1>4. \A f \in 1..n : FrameFits(good[f], ntx)
  <2> TAKE f \in 1..n
  <2>1. FrameFits(wal.frames[f], ntx)
    BY DEF FilesFit
  <2>2. QED
    BY <1>3, <2>1 DEF FrameFits
<1>5. DOMAIN good = 1..n
  BY <1>3
<1>6. \E S : good \in Seq(S)
  <2> DEFINE S == {good[f] : f \in 1..n}
  <2>1. good \in [1..n -> S]
    BY <1>5
  <2> HIDE DEF good, S
  <2>2. good \in Seq(S)
    BY <1>3, <2>1
  <2>3. QED
    BY <2>2
<1> HIDE DEF good
<1>7. wal'.frames = good /\ DOMAIN wal' = {"salt", "frames"}
  BY <1>2, <1>3
<1>8. Len(good) = n
  BY <1>3, <1>5, <1>6
<1>9. FilesFit'
  BY <1>1, <1>4, <1>6, <1>7, <1>8 DEF FilesFit
<1>10. IndexFits'
  BY <1>1, <1>7, <1>8 DEF IndexFits
<1>11. PICK ck : cn' = [cn EXCEPT ![c].hdr.ck = ck, ![c].w.reck = 0, ![c].pc = "windex"]
  BY <1>2
<1>12. /\ cn'[c].min = cn[c].min /\ cn'[c].cache = cn[c].cache
       /\ cn'[c].dirty = cn[c].dirty /\ cn'[c].k = cn[c].k /\ cn'[c].pc = "windex"
       /\ cn'[c].hdr.mx = cn[c].hdr.mx /\ DOMAIN cn'[c].hdr = DOMAIN cn[c].hdr
  BY <1>11 DEF IInv, CnShape, CnRec, RecFits, HdrFits
<1>13. cn'[c].w = [cn[c].w EXCEPT !.reck = 0]
  BY <1>11 DEF IInv, CnShape, CnRec
<1>14. DOMAIN cn[c].w = {"list", "i", "app", "j", "commit", "first", "reck", "tx", "spills", "failed"}
  BY DEF RecFits, WriteFits
<1>15. /\ cn'[c].w.i = cn[c].w.i /\ cn'[c].w.app = cn[c].w.app /\ cn'[c].w.list = cn[c].w.list
       /\ cn'[c].w.j = cn[c].w.j /\ cn'[c].w.tx = cn[c].w.tx
       /\ cn'[c].w.spills = cn[c].w.spills /\ cn'[c].w.first = cn[c].w.first
       /\ cn'[c].w.commit = cn[c].w.commit
       /\ cn'[c].w.failed = cn[c].w.failed /\ DOMAIN cn'[c].w = DOMAIN cn[c].w
  BY <1>13, <1>14
<1>16. RecFits(c)'
  BY <1>1, <1>12, <1>15 DEF RecFits, HdrFits, WriteFits
<1>17. InLog(c) /\ LogFits(c) /\ InLog(c)'
  BY <1>1, <1>12 DEF OwnsOf, Locks, PlaceFits, InLog
<1>18. ListFits(cn'[c].w)
  BY <1>1, <1>15, <1>17 DEF LogFits, ListFits
<1>19. LogFits(c)'
  <2>1. cn'[c].w.i = Len(cn'[c].w.list) + 1 /\ "windex" \notin Going
    BY <1>1, <1>15, <1>17 DEF LogFits, Going, Picking
  <2>2. QED
    BY <1>1, <1>7, <1>8, <1>12, <1>15, <1>17, <1>18, <2>1 DEF LogFits
<1>20. PlaceFits(c)'
  BY <1>12, <1>17, <1>19 DEF PlaceFits
<1>21. QED
  BY <1>9, <1>10, <1>16, <1>20 DEF Fitted

\* The index entries past the end of the log are wiped.
LEMMA CleanFits ==
  ASSUME NEW pgno \in [1..MaxFrame -> Page \cup {0}], NEW mx
  PROVE  CleanupHash(pgno, mx) \in [1..MaxFrame -> Page \cup {0}]
BY DEF CleanupHash

\* walIndexAppend enters a frame at its place in the hash.
LEMMA FitAppendIndex ==
  ASSUME NEW c \in Conn, IInv, Fits, AppendIndex(c)
  PROVE  Fitted(c)
<1> FilesFit /\ IndexFits /\ RecFits(c) /\ PlaceFits(c) /\ OwnsOf(c)
  BY DEF Fits, IInv, Owns
<1>1. UNCHANGED <<files, ntx, use, held>> /\ cn[c].pc = "windex"
  BY DEF AppendIndex, At, bounds
<1> DEFINE f == cn[c].hdr.mx + cn[c].w.j
           p == cn[c].w.app[cn[c].w.j]
           new == IndexAppend(shm.pgno, cn[c].hdr.mx, f, p)
<1>2. /\ shm' = [shm EXCEPT !.pgno = new]
      /\ cn' = [cn EXCEPT ![c].w.j = cn[c].w.j + 1]
      /\ cn[c].w.j <= Len(cn[c].w.app)
  BY Zenon DEF AppendIndex
<1>3. cn[c].w.app \in Seq(Page) /\ cn[c].w.j \in Nat \ {0}
      /\ DOMAIN cn[c].w = {"list", "i", "app", "j", "commit", "first", "reck", "tx", "spills", "failed"}
  BY DEF RecFits, WriteFits
<1>4. p \in Page
  BY <1>2, <1>3
<1>5. new \in [1..MaxFrame -> Page \cup {0}]
  <2> DEFINE zeroed == IF f = 1 THEN [g \in DOMAIN shm.pgno |-> 0] ELSE shm.pgno
             cleaned == IF zeroed[f] # 0 THEN CleanupHash(zeroed, cn[c].hdr.mx) ELSE zeroed
  <2>1. zeroed \in [1..MaxFrame -> Page \cup {0}]
    BY DEF IndexFits
  <2> HIDE DEF zeroed
  <2>2. cleaned \in [1..MaxFrame -> Page \cup {0}]
    BY <2>1, CleanFits
  <2> HIDE DEF cleaned
  <2>3. [cleaned EXCEPT ![f] = p] \in [1..MaxFrame -> Page \cup {0}]
    BY <1>4, <2>2
  <2>4. new = [cleaned EXCEPT ![f] = p]
    BY DEF IndexAppend, cleaned, zeroed
  <2>5. QED
    BY <2>3, <2>4
<1> HIDE DEF f, p, new
<1>6. /\ shm'.h0 = shm.h0 /\ shm'.h1 = shm.h1 /\ shm'.nBackfill = shm.nBackfill
      /\ shm'.attempted = shm.attempted /\ shm'.mark = shm.mark /\ shm'.pgno = new
  BY <1>2 DEF IInv, ShmShape
<1>7. /\ cn'[c].min = cn[c].min /\ cn'[c].cache = cn[c].cache /\ cn'[c].hdr = cn[c].hdr
      /\ cn'[c].dirty = cn[c].dirty /\ cn'[c].k = cn[c].k /\ cn'[c].pc = "windex"
      /\ cn'[c].w = [cn[c].w EXCEPT !.j = cn[c].w.j + 1]
  BY <1>1, <1>2 DEF IInv, CnShape, CnRec
<1>8. /\ cn'[c].w.i = cn[c].w.i /\ cn'[c].w.app = cn[c].w.app /\ cn'[c].w.list = cn[c].w.list
      /\ cn'[c].w.j = cn[c].w.j + 1 /\ cn'[c].w.tx = cn[c].w.tx
      /\ cn'[c].w.spills = cn[c].w.spills /\ cn'[c].w.first = cn[c].w.first
      /\ cn'[c].w.commit = cn[c].w.commit
      /\ cn'[c].w.failed = cn[c].w.failed /\ DOMAIN cn'[c].w = DOMAIN cn[c].w
  BY <1>3, <1>7
<1>9. IndexFits'
  BY <1>1, <1>5, <1>6 DEF IndexFits, files
<1>10. WriteFits(cn'[c].w, ntx)
  BY <1>3, <1>8 DEF RecFits, WriteFits
<1>11. RecFits(c)'
  BY <1>1, <1>7, <1>10 DEF RecFits
<1>12. InLog(c) /\ LogFits(c) /\ InLog(c)'
  BY <1>1, <1>7 DEF OwnsOf, Locks, PlaceFits, InLog
<1>13. ListFits(cn'[c].w)
  BY <1>1, <1>8, <1>12 DEF LogFits, ListFits
<1>14. LogFits(c)'
  BY <1>1, <1>6, <1>7, <1>8, <1>12, <1>13 DEF LogFits, Going, Picking, files
<1>15. PlaceFits(c)'
  BY <1>7, <1>12, <1>14 DEF PlaceFits
<1>16. QED
  BY <1>1, <1>9, <1>11, <1>15 DEF Fitted, FilesFit, files

\* The writer's header covers what it appended, and is published if this was the commit.
LEMMA FitCountFrames ==
  ASSUME NEW c \in Conn, IInv, Fits, CountFrames(c)
  PROVE  Fitted(c)
<1> FilesFit /\ IndexFits /\ RecFits(c) /\ PlaceFits(c) /\ OwnsOf(c)
  BY DEF Fits, IInv, Owns
<1>1. UNCHANGED <<files, shm, ntx, use, held>> /\ cn[c].pc = "windex"
  BY DEF CountFrames, At, bounds
<1> DEFINE mx == cn[c].hdr.mx + Len(cn[c].w.app)
           chg == IF cn[c].w.commit THEN cn[c].hdr.chg + 1 ELSE cn[c].hdr.chg
           dirty == cn[c].dirty \ {cn[c].w.list[i] : i \in DOMAIN cn[c].w.list}
           w == IF cn[c].w.commit THEN NoWrite
                ELSE [NoWrite EXCEPT !.tx = cn[c].w.tx, !.spills = cn[c].w.spills + 1,
                                     !.reck = cn[c].w.reck]
           pc == IF cn[c].w.commit THEN "wh1" ELSE "write"
<1>2. cn' = [cn EXCEPT ![c].hdr.mx = mx, ![c].hdr.chg = chg, ![c].dirty = dirty,
                       ![c].w = w, ![c].pc = pc]
  BY Zenon DEF CountFrames
<1>3. InLog(c) /\ LogFits(c)
  BY <1>1 DEF OwnsOf, Locks, PlaceFits, InLog
<1>4. dirty \subseteq Page
  BY DEF RecFits
<1>5. cn[c].w.commit => w = NoWrite /\ pc = "wh1"
  OBVIOUS
<1>6. ~cn[c].w.commit =>
         /\ pc = "write"
         /\ w.list = <<>> /\ w.app = <<>> /\ w.i = 1 /\ w.j = 1
         /\ w.tx = cn[c].w.tx /\ w.spills = cn[c].w.spills + 1 /\ w.first = 0
         /\ w.failed = FALSE /\ DOMAIN w = DOMAIN NoWrite
  BY DEF NoWrite
<1> HIDE DEF chg, dirty, w, pc
<1>7. /\ cn'[c].hdr.mx = mx /\ DOMAIN cn'[c].hdr = DOMAIN cn[c].hdr
      /\ cn'[c].min = cn[c].min /\ cn'[c].cache = cn[c].cache /\ cn'[c].k = cn[c].k
      /\ cn'[c].dirty = dirty /\ cn'[c].w = w /\ cn'[c].pc = pc
  <2>1. CnShape /\ HdrFits(cn[c].hdr)
    BY DEF IInv, RecFits
  <2> HIDE DEF mx
  <2>2. CnRec(cn[c]) /\ DOMAIN cn = Conn
    BY <2>1 DEF CnShape
  <2>3. cn'[c].hdr.mx = mx /\ DOMAIN cn'[c].hdr = DOMAIN cn[c].hdr
    BY <1>2, <2>1, <2>2 DEF CnRec, HdrFits
  <2>4. cn'[c].min = cn[c].min /\ cn'[c].cache = cn[c].cache /\ cn'[c].k = cn[c].k
    BY <1>2, <2>2 DEF CnRec
  <2>5. cn'[c].dirty = dirty /\ cn'[c].w = w /\ cn'[c].pc = pc
    BY <1>2, <2>2 DEF CnRec
  <2>6. QED
    BY <2>3, <2>4, <2>5
<1>8. mx <= Len(wal.frames) /\ mx \in Nat /\ mx \in 0..MaxFrame
  <2>1. cn[c].hdr.mx \in Nat /\ cn[c].w.app \in Seq(Page)
    BY LogRoom DEF RecFits, HdrFits, WriteFits
  <2>2. Len(cn[c].w.app) \in Nat /\ mx <= Len(wal.frames)
    BY <1>3, <2>1 DEF LogFits
  <2>3. Len(wal.frames) \in 0..MaxFrame /\ MaxFrame \in Nat
    BY LogRoom
  <2>4. mx \in Nat
    BY <2>1, <2>2
  <2> HIDE DEF mx
  <2>5. QED
    BY <2>2, <2>3, <2>4
<1>9. /\ ~cn[c].w.failed /\ cn[c].w.i = Len(cn[c].w.list) + 1
      /\ ~cn[c].w.commit => Len(cn[c].w.list) = 1 /\ cn[c].w.spills < MaxSpill
      /\ Len(cn[c].w.app) <= cn[c].w.i - 1
  BY <1>1, <1>3 DEF LogFits, ListFits
<1>10. /\ cn[c].w.tx \in 0..ntx /\ cn[c].w.spills \in 0..MaxSpill /\ MaxSpill \in Nat /\ ntx \in Nat
       /\ Len(cn[c].w.app) \in Nat /\ cn[c].hdr.mx \in Nat
  <2>1. cn[c].w.app \in Seq(Page) /\ cn[c].w.tx \in 0..ntx /\ cn[c].w.spills \in 0..MaxSpill
        /\ cn[c].hdr.mx \in 0..MaxFrame
    BY DEF RecFits, WriteFits, HdrFits
  <2>2. ntx \in Nat /\ MaxSpill \in Nat /\ MaxFrame \in Nat
    BY LogRoom, WalConstants
  <2>3. QED
    BY <2>1, <2>2
<1>11. cn[c].hdr.mx <= Room(ntx - 1) + cn[c].w.spills
  BY <1>3, <1>9 DEF LogFits
<1>12. ntx > 0 /\ shm.h0.mx <= Room(ntx - 1) /\ cn[c].cache \in [Page -> Val(ntx)]
  BY <1>3 DEF LogFits
<1>13. Room(ntx - 1) \in Nat
  <2>1. ntx - 1 \in Nat
    BY <1>10, <1>12
  <2>2. QED
    BY <2>1, RoomNat
<1>14. HdrFits(cn'[c].hdr)
  BY <1>7, <1>8 DEF RecFits, HdrFits
<1>15. CASE cn[c].w.commit
  <2>1. w.list = <<>> /\ w.app = <<>> /\ w.i = 1 /\ w.j = 1 /\ w.tx = 0 /\ w.spills = 0
        /\ w.first = 0 /\ DOMAIN w = DOMAIN NoWrite
    BY <1>5, <1>15 DEF NoWrite
  <2>2. 0 \in 0..ntx /\ 0 \in 0..MaxSpill
    BY <1>10
  <2>3. WriteFits(w, ntx)
    BY <2>1, <2>2, BlankWrite
  <2>4. RecFits(c)'
    BY <1>1, <1>4, <1>7, <1>14, <2>3 DEF RecFits
  <2>5. PlaceFits(c)'
    BY <1>1, <1>5, <1>7, <1>8, <1>12, <1>15 DEF PlaceFits, InLog, Going, Picking, files
  <2>6. QED
    BY <1>1, <2>4, <2>5, Quiet DEF Fitted
<1>16. CASE ~cn[c].w.commit
  <2>1. cn[c].w.spills + 1 \in 0..MaxSpill
    BY <1>9, <1>10, <1>16
  <2>2. WriteFits(w, ntx) /\ Len(w.app) = 0
    BY <1>6, <1>10, <1>16, <2>1, BlankWrite
  <2>3. RecFits(c)'
    BY <1>1, <1>4, <1>7, <1>14, <2>2 DEF RecFits
  <2>4. InLog(c)'
    BY <1>1, <1>3, <1>6, <1>7, <1>16 DEF InLog
  <2>5. mx <= Room(ntx - 1) + (cn[c].w.spills + 1)
    <3>1. Len(cn[c].w.app) <= 1
      <4>1. Len(cn[c].w.app) <= cn[c].w.i - 1 /\ cn[c].w.i = 1 + 1
        BY <1>9, <1>16
      <4>2. QED
        BY <1>10, <4>1
    <3>2. Len(cn[c].w.app) \in Nat /\ cn[c].hdr.mx \in Nat /\ cn[c].w.spills \in Nat
      BY <1>10
    <3>3. ASSUME NEW h \in Nat, NEW n \in Nat, NEW x \in Nat, NEW y \in Nat, h <= x + y, n <= 1
          PROVE  h + n <= x + (y + 1)
      BY <3>3
    <3>4. QED
      BY <1>11, <1>13, <3>1, <3>2, <3>3
  <2>6. LogFits(c)'
    <3>1. mx + 0 <= Len(wal.frames)
      BY <1>8
    <3>2. "write" \notin Going
      BY DEF Going, Picking
    <3>3. UNCHANGED <<wal, shm, ntx>>
      BY <1>1 DEF files
    <3> HIDE DEF mx
    <3>4. QED
      BY <1>6, <1>7, <1>12, <1>16, <2>2, <2>5, <3>1, <3>2, <3>3 DEF LogFits
  <2>7. PlaceFits(c)'
    BY <1>6, <1>7, <1>16, <2>4, <2>6 DEF PlaceFits
  <2>8. QED
    BY <1>1, <2>3, <2>7, Quiet DEF Fitted
<1>17. QED
  BY <1>15, <1>16

\* sqlite3WalUndo: the frames of the transaction are given up, and their room.
LEMMA FitRollback ==
  ASSUME NEW c \in Conn, IInv, Fits, Rollback(c)
  PROVE  Fitted(c)
<1> FilesFit /\ IndexFits /\ RecFits(c) /\ PlaceFits(c) /\ OwnsOf(c)
  BY DEF Fits, IInv, Owns
<1>1. UNCHANGED <<files, ntx, use>> /\ cn[c].pc = "write" /\ FreeX(c, {WRITE})
  BY DEF Rollback, At, bounds
<1> DEFINE iMax == cn[c].hdr.mx
           mx   == shm.h0.mx
           pgno == IF iMax = mx THEN shm.pgno ELSE CleanupHash(shm.pgno, mx)
           undone == cn[c].dirty \cup {shm.pgno[f] : f \in mx + 1..iMax}
           old(p) == IF READ(0) \in held[c].shared \/ mx = 0 THEN db[p]
                     ELSE ReadPage(p, LastOr0({f \in cn[c].min..mx : pgno[f] = p}))
           cache == [p \in Page |-> IF p \in undone THEN old(p) ELSE cn[c].cache[p]]
<1>2. /\ shm' = [shm EXCEPT !.pgno = pgno]
      /\ cn' = [cn EXCEPT ![c].hdr = shm.h0, ![c].dirty = {}, ![c].w = NoWrite,
                          ![c].pc = "read", ![c].cache = cache]
  BY Zenon DEF Rollback
<1>3. InLog(c) /\ LogFits(c)
  BY <1>1 DEF OwnsOf, Locks, PlaceFits, InLog
<1>4. pgno \in [1..MaxFrame -> Page \cup {0}]
  BY CleanFits DEF IndexFits
<1>5. mx \in Nat /\ mx <= Len(wal.frames) /\ Len(wal.frames) \in Nat /\ cn[c].min \in Nat
  BY LogRoom DEF IndexFits, HdrFits, RecFits
<1>6. ASSUME NEW p \in Page
      PROVE  old(p) \in Val(ntx)
  <2> HIDE DEF pgno
  <2>1. db[p] \in Val(ntx)
    BY DEF FilesFit
  <2> DEFINE T == {f \in cn[c].min..mx : pgno[f] = p}
  <2>2. T \in SUBSET (0..mx)
    BY <1>5
  <2> HIDE DEF mx
  <2>3. LastOr0(T) \in T \cup {0}
    BY <1>5, <2>2, LastUpTo, Zenon
  <2>4. LastOr0(T) \in 0..Len(wal.frames)
    BY <1>5, <2>2, <2>3
  <2>5. ReadPage(p, LastOr0(T)) \in Val(ntx)
    BY <2>4, ReadFits, Zenon
  <2>6. QED
    BY <2>1, <2>5
<1>7. cache \in [Page -> Val(ntx)]
  <2> HIDE DEF old, undone
  <2>1. QED
    BY <1>3, <1>6 DEF LogFits
<1> HIDE DEF cache, pgno, undone, old
<1>8. /\ cn'[c].min = cn[c].min /\ cn'[c].cache = cache /\ cn'[c].hdr = shm.h0
      /\ cn'[c].dirty = {} /\ cn'[c].k = cn[c].k /\ cn'[c].pc = "read" /\ cn'[c].w = NoWrite
  BY <1>2 DEF IInv, CnShape, CnRec
<1>9. /\ shm'.h0 = shm.h0 /\ shm'.h1 = shm.h1 /\ shm'.nBackfill = shm.nBackfill
      /\ shm'.attempted = shm.attempted /\ shm'.mark = shm.mark /\ shm'.pgno = pgno
  BY <1>2 DEF IInv, ShmShape
<1>10. IndexFits'
  BY <1>1, <1>4, <1>9 DEF IndexFits, files
<1>11. WriteFits(NoWrite, ntx)
  <2>1. NoWrite.list = <<>> /\ NoWrite.app = <<>> /\ NoWrite.i = 1 /\ NoWrite.j = 1 /\ NoWrite.tx = 0
        /\ NoWrite.spills = 0 /\ NoWrite.first = 0
    BY DEF NoWrite
  <2>2. 0 \in 0..ntx /\ 0 \in 0..MaxSpill
    BY LogRoom, WalConstants
  <2>3. QED
    BY <2>1, <2>2, BlankWrite
<1>12. RecFits(c)'
  BY <1>1, <1>7, <1>8, <1>11 DEF RecFits, IndexFits
<1>13. PlaceFits(c)'
  BY <1>1, <1>7, <1>8 DEF PlaceFits, InLog, Going, Picking
<1>14. QED
  BY <1>1, <1>10, <1>12, <1>13 DEF Fitted, FilesFit, files

\* A write to the log that fails.
LEMMA FitFailWrite ==
  ASSUME NEW c \in Conn, IInv, Fits, FailWrite(c)
  PROVE  Fitted(c)
<1> FilesFit /\ IndexFits /\ RecFits(c) /\ PlaceFits(c) /\ OwnsOf(c)
  BY DEF Fits, IInv, Owns
<1>1. UNCHANGED <<files, shm, ntx, use, held>> /\ cn[c].pc \in {"whdr", "wframe", "wreck"}
  BY DEF FailWrite, files
<1> DEFINE w == [NoWrite EXCEPT !.failed = TRUE]
           dirty == cn[c].dirty \cup {cn[c].w.list[i] : i \in DOMAIN cn[c].w.list}
<1>2. cn' = [cn EXCEPT ![c].pc = "write", ![c].w = w, ![c].dirty = dirty]
  BY Zenon DEF FailWrite
<1>3. InLog(c) /\ LogFits(c)
  BY <1>1 DEF OwnsOf, Locks, PlaceFits, InLog, Going
<1>4. dirty \subseteq Page
  <2>1. cn[c].w.list \in Seq(Page)
    BY DEF RecFits, WriteFits
  <2>2. \A i \in DOMAIN cn[c].w.list : cn[c].w.list[i] \in Page
    BY <2>1
  <2>3. QED
    BY <2>2 DEF RecFits
<1>5. /\ w.list = <<>> /\ w.app = <<>> /\ w.i = 1 /\ w.j = 1 /\ w.tx = 0 /\ w.spills = 0
      /\ w.first = 0 /\ w.failed = TRUE /\ DOMAIN w = DOMAIN NoWrite
  BY DEF NoWrite
<1> HIDE DEF w, dirty
<1>6. /\ cn'[c].min = cn[c].min /\ cn'[c].cache = cn[c].cache /\ cn'[c].hdr = cn[c].hdr
      /\ cn'[c].dirty = dirty /\ cn'[c].k = cn[c].k /\ cn'[c].pc = "write" /\ cn'[c].w = w
  BY <1>2 DEF IInv, CnShape, CnRec
<1>7. WriteFits(w, ntx) /\ Len(w.app) = 0
  <2>1. 0 \in 0..ntx /\ 0 \in 0..MaxSpill
    BY LogRoom, WalConstants
  <2>2. QED
    BY <1>5, <2>1, BlankWrite
<1>8. RecFits(c)'
  BY <1>1, <1>4, <1>6, <1>7 DEF RecFits
<1>9. InLog(c)'
  BY <1>1, <1>3, <1>6 DEF InLog
<1>10. LogFits(c)'
  <2>1. "write" \notin Going
    BY DEF Going, Picking
  <2>2. UNCHANGED <<wal, shm, ntx>>
    BY <1>1 DEF files
  <2>3. cn[c].hdr.mx + 0 <= Len(wal.frames)
    <3>1. cn[c].hdr.mx + Len(cn[c].w.app) <= Len(wal.frames)
      BY <1>3 DEF LogFits
    <3>2. cn[c].hdr.mx \in Nat /\ cn[c].w.app \in Seq(Page)
      BY LogRoom DEF RecFits, HdrFits, WriteFits
    <3>3. Len(cn[c].w.app) \in Nat /\ Len(wal.frames) \in Nat
      BY <3>2, LogRoom
    <3>4. QED
      BY <3>1, <3>2, <3>3
  <2>4. QED
    BY <1>3, <1>5, <1>6, <1>7, <2>1, <2>2, <2>3 DEF LogFits
<1>11. PlaceFits(c)'
  BY <1>6, <1>9, <1>10 DEF PlaceFits
<1>12. QED
  BY <1>1, <1>8, <1>11, Quiet DEF Fitted

-----------------------------------------------------------------------------
(* Checkpoints, and coming and going. *)

\* The connection is outside of the log before and after a step.
LEMMA FitElsewhere ==
  ASSUME NEW c \in Conn, IInv, Fits, cn[c].pc \in Elsewhere \cup {"ktrunc"},
         /\ cn'[c].hdr = cn[c].hdr /\ cn'[c].min = cn[c].min /\ cn'[c].cache = cn[c].cache
         /\ cn'[c].dirty = cn[c].dirty /\ cn'[c].w = cn[c].w,
         cn'[c].k.safe \in 0..MaxFrame, cn'[c].k.i \in 1..NReader - 1,
         cn'[c].pc \in Elsewhere, UNCHANGED <<ntx>>
  PROVE  RecFits(c)' /\ PlaceFits(c)'
<1> RecFits(c) /\ PlaceFits(c)
  BY DEF Fits
<1>1. RecFits(c)'
  BY DEF RecFits
<1>2. ~InLog(c)
  BY NotInLog
<1>3. QED
  BY <1>1, <1>2, Outside

\* A connection that has nothing.
LEMMA BlankHdr == HdrFits(ZeroHdr) /\ ZeroHdr.mx = 0
<1>1. MaxFrame \in Nat
  BY Rooms
<1>2. QED
  BY <1>1 DEF HdrFits, ZeroHdr

\* The record of a connection that does not write.
LEMMA BlankFits ==
  ASSUME NEW n \in Nat
  PROVE  WriteFits(NoWrite, n)
<1>1. NoWrite.list = <<>> /\ NoWrite.app = <<>> /\ NoWrite.i = 1 /\ NoWrite.j = 1 /\ NoWrite.tx = 0
      /\ NoWrite.spills = 0 /\ NoWrite.first = 0
  BY DEF NoWrite
<1>2. 0 \in 0..n /\ 0 \in 0..MaxSpill
  BY WalConstants
<1>3. QED
  BY <1>1, <1>2, BlankWrite

\* A connection that opens, or is gone, has nothing to fit.
LEMMA FitFresh ==
  ASSUME NEW c \in Conn, NEW pc \in Elsewhere, cn'[c] = Fresh(pc), ntx' \in Nat
  PROVE  RecFits(c)' /\ PlaceFits(c)'
<1>1. /\ cn'[c].hdr = ZeroHdr /\ cn'[c].min = 0 /\ cn'[c].cache = None
      /\ cn'[c].dirty = {} /\ cn'[c].w = NoWrite /\ cn'[c].k.safe = 0 /\ cn'[c].k.i = 1
      /\ cn'[c].pc = pc
  BY DEF Fresh, NoCkpt
<1>2. HdrFits(ZeroHdr) /\ WriteFits(NoWrite, ntx') /\ 0 \in 0..MaxFrame /\ 1 \in 1..NReader - 1
  <2>1. MaxFrame \in Nat
    BY Rooms
  <2>2. QED
    BY <2>1, BlankHdr, BlankFits, WalConstants
<1>3. RecFits(c)'
  BY <1>1, <1>2 DEF RecFits
<1>4. PlaceFits(c)'
  BY <1>1 DEF PlaceFits, InLog, Elsewhere, Going, Picking
<1>5. QED
  BY <1>3, <1>4

\* The steps that leave the files and the index alone.
LEMMA FitCkptMove ==
  ASSUME NEW c \in Conn, IInv, Fits,
         \/ \E m \in use.modes : Checkpoint(c, m)
         \/ LockWriter(c) \/ StartCheckpoint(c) \/ StartIterator(c) \/ FailCopy(c)
  PROVE  Fitted(c)
<1> FilesFit /\ IndexFits /\ RecFits(c)
  BY DEF Fits
<1>0. 0 \in 0..MaxFrame /\ cn[c].hdr.mx \in 0..MaxFrame /\ cn[c].k.safe \in 0..MaxFrame
      /\ cn[c].k.i \in 1..NReader - 1 /\ AfterCopy(c) \in {"kmode", "kfin"}
  BY LogRoom DEF RecFits, HdrFits, AfterCopy
<1>1. UNCHANGED <<files, shm, ntx, use>> /\ cn[c].pc \in Elsewhere
  BY DEF Checkpoint, LockWriter, StartCheckpoint, StartIterator, FailCopy, At, bounds, Elsewhere
<1>2. /\ cn'[c].hdr = cn[c].hdr /\ cn'[c].min = cn[c].min /\ cn'[c].cache = cn[c].cache
      /\ cn'[c].dirty = cn[c].dirty /\ cn'[c].w = cn[c].w
      /\ cn'[c].k.safe \in {0, cn[c].hdr.mx, cn[c].k.safe} /\ cn'[c].k.i = cn[c].k.i
      /\ cn'[c].pc \in {"header", "kwlock", "kmark", "kread0", "kfin", AfterCopy(c)}
  <2> CnShape
    BY DEF IInv
  <2>1. CASE \E m \in use.modes : Checkpoint(c, m)
    <3>1. PICK m : Checkpoint(c, m)
      BY <2>1
    <3>2. PICK l : cn' = [cn EXCEPT ![c].k.mode = m, ![c].pc = l] /\ (l = "header" \/ l = "kwlock")
      BY <3>1 DEF Checkpoint
    <3>3. QED
      BY <3>2 DEF CnShape, CnRec
  <2>2. CASE LockWriter(c)
    BY <2>2 DEF LockWriter, CnShape, CnRec, Goto
  <2>3. CASE StartCheckpoint(c)
    BY <2>3 DEF StartCheckpoint, CnShape, CnRec
  <2>4. CASE StartIterator(c)
    BY <2>4 DEF StartIterator, CnShape, CnRec
  <2>5. CASE FailCopy(c)
    BY <2>5 DEF FailCopy, CnShape, CnRec
  <2>6. QED
    BY <2>1, <2>2, <2>3, <2>4, <2>5
<1>3. cn'[c].pc \in Elsewhere /\ cn'[c].k.safe \in 0..MaxFrame
  BY <1>0, <1>2 DEF Elsewhere
<1>4. RecFits(c)' /\ PlaceFits(c)'
  BY <1>0, <1>1, <1>2, <1>3, FitElsewhere
<1>5. QED
  BY <1>1, <1>4, Quiet DEF Fitted

\* walCheckpoint moves a mark to the frames that are safe.
LEMMA FitMoveMark ==
  ASSUME NEW c \in Conn, IInv, Fits, MoveMark(c)
  PROVE  Fitted(c)
<1> FilesFit /\ IndexFits /\ RecFits(c)
  BY DEF Fits
<1>1. UNCHANGED <<files, ntx, use>> /\ cn[c].pc = "kmark"
  BY DEF MoveMark, At, bounds
<1> DEFINE i    == cn[c].k.i
           safe == cn[c].k.safe
           next == [cn[c] EXCEPT !.k.i = IF i = NReader - 1 THEN 1 ELSE i + 1,
                                 !.pc = IF i = NReader - 1 THEN "kiter" ELSE "kmark"]
<1>2. \/ cn' = [cn EXCEPT ![c] = next] /\ UNCHANGED shm
      \/ /\ shm' = [shm EXCEPT !.mark[i] = IF i = 1 THEN safe ELSE NotUsed]
         /\ cn' = [cn EXCEPT ![c] = next]
      \/ /\ cn' = [cn EXCEPT ![c] = [next EXCEPT !.k.safe = shm.mark[i]]]
         /\ UNCHANGED shm /\ ~ (safe <= shm.mark[i])
  BY Zenon DEF MoveMark
<1>3. i \in 1..NReader - 1 /\ safe \in 0..MaxFrame /\ MaxFrame \in Nat /\ NReader \in Nat
      /\ shm.mark[i] \in 0..NotUsed
  BY LogRoom, WalConstants DEF RecFits, IndexFits
<1>4. CnRec(next) /\ next.hdr = cn[c].hdr /\ next.min = cn[c].min /\ next.cache = cn[c].cache
      /\ next.dirty = cn[c].dirty /\ next.w = cn[c].w /\ next.k.safe = safe
      /\ next.k.i = (IF i = NReader - 1 THEN 1 ELSE i + 1) /\ next.pc \in {"kiter", "kmark"}
  BY DEF IInv, CnShape, CnRec
<1> HIDE DEF next
<1>5. /\ cn'[c].hdr = cn[c].hdr /\ cn'[c].min = cn[c].min /\ cn'[c].cache = cn[c].cache
      /\ cn'[c].dirty = cn[c].dirty /\ cn'[c].w = cn[c].w
      /\ \/ cn'[c].k.safe = safe
         \/ cn'[c].k.safe = shm.mark[i] /\ ~ (safe <= shm.mark[i])
      /\ cn'[c].k.i = next.k.i /\ cn'[c].pc \in {"kiter", "kmark"}
  <2>1. CASE cn' = [cn EXCEPT ![c] = next]
    <3>1. cn'[c] = next
      BY <2>1 DEF IInv, CnShape
    <3>2. QED
      BY <1>4, <3>1, Zenon
  <2>2. CASE cn' = [cn EXCEPT ![c] = [next EXCEPT !.k.safe = shm.mark[i]]] /\ ~ (safe <= shm.mark[i])
    <3>1. cn'[c] = [next EXCEPT !.k.safe = shm.mark[i]]
      BY <2>2 DEF IInv, CnShape
    <3>2. QED
      BY <1>4, <2>2, <3>1 DEF CnRec
  <2>3. QED
    BY <1>2, <2>1, <2>2
<1>6. cn'[c].k.safe \in 0..MaxFrame
  <2>1. CASE cn'[c].k.safe = safe
    BY <1>3, <2>1
  <2>2. CASE cn'[c].k.safe = shm.mark[i] /\ ~ (safe <= shm.mark[i])
    <3>1. NotUsed \in Nat
      BY <1>3 DEF NotUsed
    <3>2. QED
      BY <1>3, <2>2, <3>1
  <2>3. QED
    BY <1>5, <2>1, <2>2
<1>7. cn'[c].k.i \in 1..NReader - 1
  BY <1>3, <1>4, <1>5, WalConstants
<1>8. RecFits(c)' /\ PlaceFits(c)'
  BY <1>1, <1>5, <1>6, <1>7, FitElsewhere DEF Elsewhere
<1>9. IndexFits'
  <2>1. CASE UNCHANGED shm
    BY <1>1, <2>1 DEF IndexFits, files
  <2>2. CASE shm' = [shm EXCEPT !.mark[i] = IF i = 1 THEN safe ELSE NotUsed]
    <3>1. (IF i = 1 THEN safe ELSE NotUsed) \in 0..NotUsed
      BY <1>3 DEF NotUsed
    <3>2. /\ shm'.h0 = shm.h0 /\ shm'.h1 = shm.h1 /\ shm'.nBackfill = shm.nBackfill
          /\ shm'.attempted = shm.attempted /\ shm'.pgno = shm.pgno
          /\ shm'.mark = [shm.mark EXCEPT ![i] = IF i = 1 THEN safe ELSE NotUsed]
      BY <2>2 DEF IInv, ShmShape
    <3>3. QED
      BY <1>1, <3>1, <3>2 DEF IndexFits, files
  <2>3. QED
    BY <1>2, <2>1, <2>2
<1>10. QED
  BY <1>1, <1>8, <1>9 DEF Fitted, FilesFit, files

\* A checkpoint starts to copy, or ends it: nBackfill moves up to the frames that are
\* safe.
LEMMA FitCopy ==
  ASSUME NEW c \in Conn, IInv, Fits, LockDb(c) \/ FinishCopy(c)
  PROVE  Fitted(c)
<1> FilesFit /\ IndexFits /\ RecFits(c)
  BY DEF Fits
<1>1. UNCHANGED <<files, ntx, use>> /\ cn[c].pc \in {"kread0", "kcopy"}
  BY DEF LockDb, FinishCopy, At, bounds
<1>2. AfterCopy(c) \in {"kmode", "kfin"} /\ 0 \in 0..MaxFrame /\ cn[c].k.safe \in 0..MaxFrame
      /\ cn[c].k.i \in 1..NReader - 1
  BY LogRoom DEF AfterCopy, RecFits
<1>3. /\ cn'[c].hdr = cn[c].hdr /\ cn'[c].min = cn[c].min /\ cn'[c].cache = cn[c].cache
      /\ cn'[c].dirty = cn[c].dirty /\ cn'[c].w = cn[c].w
      /\ cn'[c].k.safe \in {0, cn[c].k.safe} /\ cn'[c].k.i = cn[c].k.i
      /\ cn'[c].pc \in {"kcopy", AfterCopy(c)}
  <2>0. CnRec(cn[c]) /\ DOMAIN cn = Conn
    BY DEF IInv, CnShape
  <2>1. CASE LockDb(c)
    <3>1. CASE CanExclude({READ(0)})
      <4>1. PICK todo : cn' = [cn EXCEPT ![c].k.todo = todo, ![c].pc = "kcopy"]
        BY <2>1, <3>1, Zenon DEF LockDb
      <4>2. QED
        BY <2>0, <4>1 DEF CnRec
    <3>2. CASE ~CanExclude({READ(0)})
      <4>1. cn' = [cn EXCEPT ![c].pc = AfterCopy(c), ![c].k.safe = 0, ![c].k.todo = <<>>]
        BY <2>1, <3>2, Zenon DEF LockDb
      <4>2. QED
        BY <2>0, <4>1 DEF CnRec
    <3>3. QED
      BY <3>1, <3>2
  <2>2. CASE FinishCopy(c)
    BY <2>2 DEF FinishCopy, IInv, CnShape, CnRec
  <2>3. QED
    BY <2>1, <2>2
<1>4. /\ shm'.h0 = shm.h0 /\ shm'.h1 = shm.h1 /\ shm'.nBackfill \in {shm.nBackfill, cn[c].k.safe}
      /\ shm'.attempted \in {shm.attempted, cn[c].k.safe}
      /\ shm'.pgno = shm.pgno /\ shm'.mark = shm.mark
  <2>1. CASE LockDb(c)
    BY <2>1 DEF LockDb, IInv, ShmShape
  <2>2. CASE FinishCopy(c)
    BY <2>2 DEF FinishCopy, IInv, ShmShape
  <2>3. QED
    BY <2>1, <2>2
<1>5. IndexFits'
  BY <1>1, <1>2, <1>4 DEF IndexFits, files
<1>6. cn[c].pc \in Elsewhere /\ cn'[c].pc \in Elsewhere /\ cn'[c].k.safe \in 0..MaxFrame
  BY <1>1, <1>2, <1>3 DEF Elsewhere
<1>7. RecFits(c)' /\ PlaceFits(c)'
  BY <1>1, <1>2, <1>3, <1>6, FitElsewhere
<1>8. QED
  BY <1>1, <1>5, <1>7 DEF Fitted, FilesFit, files

\* One page is copied to the database file.
LEMMA FitCopyPage ==
  ASSUME NEW c \in Conn, IInv, Fits, CopyPage(c)
  PROVE  Fitted(c)
<1> FilesFit /\ IndexFits /\ RecFits(c)
  BY DEF Fits
<1>1. UNCHANGED <<wal, shm, ntx, use>> /\ cn[c].pc = "kcopy"
  BY DEF CopyPage, At, bounds
<1>2. PICK p \in Page : /\ cn[c].k.todo[p] \in DOMAIN wal.frames
                        /\ db' = [db EXCEPT ![p] = wal.frames[cn[c].k.todo[p]].val]
                        /\ cn' = [cn EXCEPT ![c].k.todo[p] = 0]
  BY DEF CopyPage
<1>3. wal.frames[cn[c].k.todo[p]].val \in Val(ntx)
  <2>1. cn[c].k.todo[p] \in 1..Len(wal.frames)
    BY <1>2, LogRoom
  <2>2. QED
    BY <2>1 DEF FilesFit, FrameFits
<1>4. db' \in [Page -> Val(ntx)]
  BY <1>2, <1>3 DEF FilesFit
<1>5. FilesFit' /\ IndexFits'
  BY <1>1, <1>4 DEF FilesFit, IndexFits
<1>6. /\ cn'[c].hdr = cn[c].hdr /\ cn'[c].min = cn[c].min /\ cn'[c].cache = cn[c].cache
      /\ cn'[c].dirty = cn[c].dirty /\ cn'[c].w = cn[c].w
      /\ cn'[c].k.safe = cn[c].k.safe /\ cn'[c].k.i = cn[c].k.i /\ cn'[c].pc = "kcopy"
  BY <1>1, <1>2 DEF IInv, CnShape, CnRec
<1>7. RecFits(c)' /\ PlaceFits(c)'
  BY <1>1, <1>6, FitElsewhere DEF Elsewhere, RecFits
<1>8. QED
  BY <1>5, <1>7 DEF Fitted

\* TRUNCATE cuts the log to nothing once its header says that it is empty.
LEMMA FitTruncateLog ==
  ASSUME NEW c \in Conn, IInv, Fits, TruncateLog(c)
  PROVE  Fitted(c)
<1> FilesFit /\ IndexFits /\ RecFits(c) /\ PlaceFits(c)
  BY DEF Fits
<1>1. /\ UNCHANGED <<db, shm, ntx, use>> /\ cn[c].pc = "ktrunc" /\ Goto(c, "kfin")
      /\ wal' = [salt |-> 0, frames |-> <<>>]
  BY DEF TruncateLog, At, bounds
<1>2. Keep(c) /\ cn'[c].pc = "kfin"
  BY <1>1, Onward DEF IInv
<1>3. RecFits(c)' /\ PlaceFits(c)'
  BY <1>1, <1>2, FitElsewhere DEF Elsewhere, RecFits, Keep
<1>4. wal'.frames = <<>> /\ DOMAIN wal' = {"salt", "frames"} /\ Len(wal'.frames) = 0
      /\ <<>> \in Seq(Page)
  BY <1>1
<1>5. Room(ntx) \in Nat /\ ntx \in Nat
  BY LogRoom, RoomNat
<1>6. FilesFit'
  BY <1>1, <1>4, <1>5 DEF FilesFit
<1>7. IndexFits'
  BY <1>1, <1>4 DEF IndexFits, PlaceFits
<1>8. QED
  BY <1>3, <1>6, <1>7 DEF Fitted

\* A connection ends its checkpoint, closes or dies.
LEMMA FitLeave ==
  ASSUME NEW c \in Conn, IInv, Fits, Close(c) \/ EndCheckpoint(c) \/ Die(c)
  PROVE  Fitted(c)
<1> FilesFit /\ IndexFits /\ RecFits(c) /\ PlaceFits(c)
  BY DEF Fits
<1>1. UNCHANGED <<files, shm, ntx, use>> /\ ntx \in Nat
  BY LogRoom DEF Close, EndCheckpoint, Die, bounds
<1>2. CASE cn' = [cn EXCEPT ![c] = Fresh("closed")]
  <2>1. cn'[c] = Fresh("closed")
    BY <1>2 DEF IInv, CnShape
  <2>2. RecFits(c)' /\ PlaceFits(c)'
    BY <1>1, <2>1, FitFresh DEF Elsewhere
  <2>3. QED
    BY <1>1, <2>2, Quiet DEF Fitted
<1>3. CASE Close(c) /\ cn' = [cn EXCEPT ![c] = [cn[c] EXCEPT !.pc = "header", !.k.mode = "CLOSE"]]
  <2>1. cn[c].pc = "idle"
    BY <1>3 DEF Close, At
  <2>2. /\ cn'[c].hdr = cn[c].hdr /\ cn'[c].min = cn[c].min /\ cn'[c].cache = cn[c].cache
        /\ cn'[c].dirty = cn[c].dirty /\ cn'[c].w = cn[c].w
        /\ cn'[c].k.safe = cn[c].k.safe /\ cn'[c].k.i = cn[c].k.i /\ cn'[c].pc = "header"
    BY <1>3 DEF IInv, CnShape, CnRec
  <2>3. RecFits(c)' /\ PlaceFits(c)'
    BY <1>1, <2>1, <2>2, FitElsewhere DEF Elsewhere, RecFits
  <2>4. QED
    BY <1>1, <2>3, Quiet DEF Fitted
<1>4. CASE EndCheckpoint(c) /\ cn' = [cn EXCEPT ![c] = [cn[c] EXCEPT !.pc = "delete"]]
  <2>1. cn[c].pc = "kfin"
    BY <1>4 DEF EndCheckpoint, At
  <2>2. /\ cn'[c].hdr = cn[c].hdr /\ cn'[c].min = cn[c].min /\ cn'[c].cache = cn[c].cache
        /\ cn'[c].dirty = cn[c].dirty /\ cn'[c].w = cn[c].w
        /\ cn'[c].k = cn[c].k /\ cn'[c].pc = "delete"
    BY <1>4 DEF IInv, CnShape, CnRec
  <2>3. RecFits(c)' /\ PlaceFits(c)'
    BY <1>1, <2>1, <2>2, FitElsewhere DEF Elsewhere, RecFits
  <2>4. QED
    BY <1>1, <2>3, Quiet DEF Fitted
<1> DEFINE h == IF cn[c].chg THEN ZeroHdr ELSE cn[c].hdr
           r == [cn[c] EXCEPT !.pc = "idle", !.chg = FALSE, !.k = NoCkpt, !.hdr = h]
<1>5. CASE EndCheckpoint(c) /\ cn' = [cn EXCEPT ![c] = r]
  <2>1. cn[c].pc = "kfin"
    BY <1>5 DEF EndCheckpoint, At
  <2>2. h = ZeroHdr \/ h = cn[c].hdr
    OBVIOUS
  <2> HIDE DEF h
  <2>3. /\ cn'[c].hdr = h /\ cn'[c].min = cn[c].min /\ cn'[c].cache = cn[c].cache
        /\ cn'[c].dirty = cn[c].dirty /\ cn'[c].w = cn[c].w
        /\ cn'[c].k = NoCkpt /\ cn'[c].pc = "idle"
    BY <1>5 DEF IInv, CnShape, CnRec
  <2>4. HdrFits(h) /\ NoCkpt.safe \in 0..MaxFrame /\ NoCkpt.i \in 1..NReader - 1
    <3>1. MaxFrame \in Nat
      BY LogRoom
    <3>2. HdrFits(h)
      BY <2>2, BlankHdr DEF RecFits
    <3>3. QED
      BY <3>1, <3>2, WalConstants DEF NoCkpt
  <2>5. RecFits(c)'
    BY <1>1, <2>3, <2>4 DEF RecFits
  <2>6. ~InLog(c)
    BY <2>1, NotInLog DEF Elsewhere
  <2>7. PlaceFits(c)'
    BY <2>3, <2>6, Outside DEF Elsewhere
  <2>8. QED
    BY <1>1, <2>5, <2>7, Quiet DEF Fitted
<1>6. \/ cn' = [cn EXCEPT ![c] = Fresh("closed")]
      \/ Close(c) /\ cn' = [cn EXCEPT ![c] = [cn[c] EXCEPT !.pc = "header", !.k.mode = "CLOSE"]]
      \/ EndCheckpoint(c) /\ cn' = [cn EXCEPT ![c] = [cn[c] EXCEPT !.pc = "delete"]]
      \/ EndCheckpoint(c) /\ cn' = [cn EXCEPT ![c] = r]
  <2>1. CASE Close(c)
    BY <2>1, Zenon DEF Close
  <2>2. CASE EndCheckpoint(c)
    BY <2>2, Zenon DEF EndCheckpoint
  <2>3. CASE Die(c)
    BY <2>3, Zenon DEF Die
  <2>4. QED
    BY <2>1, <2>2, <2>3
<1>7. QED
  BY <1>2, <1>3, <1>4, <1>5, <1>6

\* A wal-index that was truncated.
LEMMA FitZeroShm ==
  ASSUME shm' = ZeroShm, Len(wal'.frames) \in Nat
  PROVE  IndexFits'
<1>1. MaxFrame \in Nat /\ NotUsed \in Nat /\ 0 \in 0..MaxFrame /\ 0 \in 0..NotUsed
  BY Rooms DEF NotUsed
<1>2. /\ shm'.h0 = ZeroHdr /\ shm'.h1 = ZeroHdr /\ shm'.nBackfill = 0 /\ shm'.attempted = 0
      /\ shm'.mark = [i \in 1..NReader - 1 |-> 0] /\ shm'.pgno = [f \in 1..MaxFrame |-> 0]
  BY DEF ZeroShm
<1>3. shm'.mark \in [1..NReader - 1 -> 0..NotUsed]
  BY <1>1, <1>2
<1>4. shm'.pgno \in [1..MaxFrame -> Page \cup {0}]
  BY <1>2
<1>5. QED
  BY <1>1, <1>2, <1>3, <1>4, BlankHdr DEF IndexFits

\* A connection opens; the first one starts from an empty index.
LEMMA FitOpen ==
  ASSUME NEW c \in Conn, IInv, Fits, Open(c)
  PROVE  Fitted(c)
<1> FilesFit /\ IndexFits
  BY DEF Fits
<1>1. UNCHANGED <<files, ntx, use>> /\ ntx \in Nat /\ (shm' = shm \/ shm' = ZeroShm)
      /\ cn'[c] = Fresh("idle") /\ Len(wal.frames) \in Nat
  BY LogRoom DEF Open, bounds, IInv, CnShape
<1>2. RecFits(c)' /\ PlaceFits(c)'
  BY <1>1, FitFresh DEF Elsewhere
<1>3. IndexFits'
  <2>1. CASE shm' = shm
    BY <1>1, <2>1 DEF IndexFits, files
  <2>2. CASE shm' = ZeroShm
    BY <1>1, <2>2, FitZeroShm DEF files
  <2>3. QED
    BY <1>1, <2>1, <2>2
<1>4. QED
  BY <1>1, <1>2, <1>3 DEF Fitted, FilesFit, files

\* The last connection deletes the log.
LEMMA FitDeleteLog ==
  ASSUME NEW c \in Conn, IInv, Fits, DeleteLog(c)
  PROVE  Fitted(c)
<1> FilesFit /\ IndexFits
  BY DEF Fits
<1>1. UNCHANGED <<db, ntx, use>> /\ ntx \in Nat /\ shm' = ZeroShm
      /\ cn'[c] = Fresh("closed") /\ wal' = [salt |-> 0, frames |-> <<>>]
  BY LogRoom DEF DeleteLog, bounds, IInv, CnShape
<1>2. RecFits(c)' /\ PlaceFits(c)'
  BY <1>1, FitFresh DEF Elsewhere
<1>3. wal'.frames = <<>> /\ DOMAIN wal' = {"salt", "frames"} /\ Len(wal'.frames) = 0
      /\ <<>> \in Seq(Page)
  BY <1>1
<1>4. Room(ntx) \in Nat
  BY <1>1, RoomNat
<1>5. FilesFit'
  BY <1>1, <1>3, <1>4 DEF FilesFit
<1>6. IndexFits'
  BY <1>1, <1>3, FitZeroShm
<1>7. QED
  BY <1>2, <1>5, <1>6 DEF Fitted

\* Every step of c leaves what is shared, and what is c's, such that it fits.
LEMMA FitOwn ==
  ASSUME NEW c \in Conn, IInv, Fits, Step(c) \/ Call(c) \/ Fault(c)
  PROVE  Fitted(c)
<1>1. CASE Step(c)
  BY <1>1, FitReadHdr, FitRecoverScan, FitWriteHdr1, FitWriteHdr0, FitInfo, FitPick, FitCheck,
     FitCheckWrite, FitRestart, FitUnlockZero, FitWriteWalHdr, FitWriteFrame,
     FitRewriteChecksums, FitAppendIndex, FitCountFrames, FitWriteLock, FitCkptMove,
     FitMoveMark, FitCopy, FitCopyPage, FitTruncateLog, FitLeave, FitDeleteLog, Zenon DEF Step
<1>2. CASE Call(c)
  <2>1. CASE \E S \in SUBSET Page \ {{}} : Update(c, S)
    BY <2>1, FitUpdate
  <2>2. CASE ~ \E S \in SUBSET Page \ {{}} : Update(c, S)
    BY <1>2, <2>2, FitOpen, FitLeave, FitBeginRead, FitEndRead, FitWriteLock, FitCommit,
       FitRollback, FitSpill, FitCkptMove, Zenon DEF Call
  <2>3. QED
    BY <2>1, <2>2
<1>3. CASE Fault(c)
  BY <1>3, FitFailWrite, FitCkptMove, FitLeave, Zenon DEF Fault
<1>4. QED
  BY <1>1, <1>2, <1>3

-----------------------------------------------------------------------------
(* The other connections. *)

\* A step of c is a step of nobody else.
LEMMA Others ==
  ASSUME NEW c \in Conn, NEW d \in Conn, c # d, IInv, Step(c) \/ Call(c) \/ Fault(c)
  PROVE  cn'[d] = cn[d] /\ held'[d] = held[d]
<1> CnShape /\ HeldShape
  BY DEF IInv
<1>1. CASE Fault(c)
  BY <1>1, Zenon DEF Fault, FailWrite, FailCopy, Die, CnShape, HeldShape, FreeX
<1>2. CASE Call(c)
  <2>1. CASE Open(c) \/ Close(c) \/ BeginRead(c) \/ EndRead(c) \/ BeginWrite(c) \/ Commit(c)
             \/ Rollback(c)
    BY <2>1, Zenon DEF Open, Close, BeginRead, EndRead, BeginWrite, Commit, Rollback, WalFrames,
       CnShape, HeldShape, FreeX, FreeS, LockX, Goto
  <2>2. CASE \E S \in SUBSET Page \ {{}} : Update(c, S)
    BY <2>2, Zenon DEF Update, CnShape, HeldShape
  <2>3. CASE \E p \in Page : Spill(c, p)
    BY <2>3, Zenon DEF Spill, WalFrames, CnShape, HeldShape
  <2>4. CASE \E m \in use.modes : Checkpoint(c, m)
    BY <2>4, Zenon DEF Checkpoint, CnShape, HeldShape, LockX
  <2>5. QED
    BY <1>2, <2>1, <2>2, <2>3, <2>4, Zenon DEF Call
<1>3. CASE Step(c)
  <2>1. CASE \/ TryHdr(c) \/ LockHdr(c) \/ TryHdrAgain(c) \/ RecoverLock(c) \/ RecoverScan(c)
             \/ WriteHdr1(c) \/ RecoverHdr0(c) \/ RecoverInfo(c)
    BY <2>1, Zenon DEF TryHdr, LockHdr, TryHdrAgain, RecoverLock, RecoverScan, WriteHdr1,
       RecoverHdr0, RecoverInfo, CnShape, HeldShape, FreeX, LockX, Goto
  <2>2. CASE \/ PickZero(c) \/ CheckZero(c) \/ PickMark(c) \/ RaiseMark(c) \/ ShareMark(c)
             \/ SetMin(c) \/ CheckMark(c)
    BY <2>2, Zenon DEF PickZero, CheckZero, PickMark, RaiseMark, ShareMark, SetMin, CheckMark,
       CnShape, HeldShape, FreeS, LockS, Goto
  <2>3. CASE \/ CheckWrite(c) \/ Restart(c) \/ RestartHdr0(c) \/ RestartInfo(c)
             \/ UnlockZero(c) \/ WriteWalHdr(c) \/ WriteFrame(c) \/ RewriteChecksums(c)
             \/ AppendIndex(c) \/ CountFrames(c) \/ CommitHdr0(c) \/ EndWrite(c)
    BY <2>3, Zenon DEF CheckWrite, Restart, RestartHdr0, RestartInfo, UnlockZero, WriteWalHdr,
       WriteFrame, RewriteChecksums, AppendIndex, CountFrames, CommitHdr0, EndWrite,
       CnShape, HeldShape, FreeX, FreeS, LockX, Goto
  <2>4. CASE \/ LockWriter(c) \/ StartCheckpoint(c) \/ MoveMark(c) \/ StartIterator(c)
             \/ LockDb(c) \/ CopyPage(c) \/ FinishCopy(c) \/ EndMode(c) \/ TruncateLog(c)
             \/ EndCheckpoint(c) \/ DeleteLog(c)
    BY <2>4, Zenon DEF LockWriter, StartCheckpoint, MoveMark, StartIterator, LockDb, CopyPage,
       FinishCopy, EndMode, TruncateLog, EndCheckpoint, DeleteLog, CnShape, HeldShape, FreeX,
       LockX, Goto
  <2>5. QED
    BY <1>3, <2>1, <2>2, <2>3, <2>4, Zenon DEF Step
<1>4. QED
  BY <1>1, <1>2, <1>3

\* While d may write, nobody else touches the log, the end of it that the
\* index tells of, or the count of transactions.
LEMMA Reserved ==
  ASSUME NEW c \in Conn, NEW d \in Conn, c # d, IInv, Has(d, WRITE),
         Step(c) \/ Call(c) \/ Fault(c)
  PROVE  wal' = wal /\ shm'.h0 = shm.h0 /\ ntx' = ntx
<1> OwnsOf(c) /\ OwnsOf(d) /\ ShmShape
  BY DEF IInv, Owns
<1>1. ~Has(c, WRITE)
  BY DEF Has, IInv, LocksApart
<1>2. cn[d].pc # "closed"
  BY DEF Has, OwnsOf, Locks
<1>3. cn[c].pc # "delete"
  BY <1>2 DEF OwnsOf, Locks, IInv, Alone, Exclusive
<1>4. cn[c].pc \notin {"wchk", "whdr", "wframe", "wreck", "rh0", "sh0", "wh0", "ktrunc"}
  BY <1>1, NoMode DEF OwnsOf, Locks, Has
<1>5. CASE Fault(c)
  BY <1>5 DEF Fault, FailWrite, FailCopy, Die, files
<1>6. CASE Call(c)
  <2>1. CASE Open(c)
    BY <1>2, <2>1 DEF Open, Attached, files, bounds
  <2>2. CASE Rollback(c)
    BY <1>1, <2>2 DEF Rollback, At, OwnsOf, Locks, Has
  <2>3. CASE ~Open(c) /\ ~Rollback(c)
    BY <1>6, <2>3, Zenon DEF Call, Close, BeginRead, EndRead, BeginWrite, Commit, Update, Spill,
       WalFrames, Checkpoint, files, bounds
  <2>4. QED
    BY <2>1, <2>2, <2>3
<1>7. CASE Step(c)
  <2>1. CASE \/ CheckWrite(c) \/ WriteWalHdr(c) \/ WriteFrame(c) \/ RewriteChecksums(c)
             \/ RecoverHdr0(c) \/ RestartHdr0(c) \/ CommitHdr0(c) \/ TruncateLog(c) \/ DeleteLog(c)
    BY <1>3, <1>4, <2>1, Zenon DEF CheckWrite, WriteWalHdr, WriteFrame, RewriteChecksums,
       RecoverHdr0, RestartHdr0, CommitHdr0, TruncateLog, DeleteLog, At
  <2>2. CASE RecoverScan(c) \/ WriteHdr1(c) \/ RecoverInfo(c) \/ RaiseMark(c) \/ RestartInfo(c)
             \/ AppendIndex(c) \/ MoveMark(c) \/ LockDb(c) \/ FinishCopy(c)
    <3>1. UNCHANGED <<files, ntx>>
      BY <2>2, Zenon DEF RecoverScan, WriteHdr1, RecoverInfo, RaiseMark, RestartInfo, AppendIndex,
         MoveMark, LockDb, FinishCopy, bounds
    <3>2. shm'.h0 = shm.h0
      <4>1. CASE RecoverScan(c)
        BY <4>1 DEF RecoverScan, ShmShape
      <4>2. CASE WriteHdr1(c)
        BY <4>2 DEF WriteHdr1, ShmShape
      <4>3. CASE RecoverInfo(c)
        BY <4>3 DEF RecoverInfo, ShmShape
      <4>4. CASE RaiseMark(c)
        BY <4>4, Zenon DEF RaiseMark, ShmShape
      <4>5. CASE RestartInfo(c)
        BY <4>5 DEF RestartInfo, ShmShape
      <4>6. CASE AppendIndex(c)
        BY <4>6, Zenon DEF AppendIndex, ShmShape
      <4>7. CASE MoveMark(c)
        BY <4>7, Zenon DEF MoveMark, ShmShape
      <4>8. CASE LockDb(c)
        BY <4>8 DEF LockDb, ShmShape
      <4>9. CASE FinishCopy(c)
        BY <4>9 DEF FinishCopy, ShmShape
      <4>10. QED
        BY <2>2, <4>1, <4>2, <4>3, <4>4, <4>5, <4>6, <4>7, <4>8, <4>9, Zenon
    <3>3. QED
      BY <3>1, <3>2 DEF files
  <2>3. CASE \/ TryHdr(c) \/ LockHdr(c) \/ TryHdrAgain(c) \/ RecoverLock(c) \/ PickZero(c)
             \/ CheckZero(c) \/ PickMark(c) \/ ShareMark(c) \/ SetMin(c) \/ CheckMark(c)
             \/ Restart(c) \/ UnlockZero(c) \/ CountFrames(c) \/ EndWrite(c) \/ LockWriter(c)
             \/ StartCheckpoint(c) \/ StartIterator(c) \/ CopyPage(c) \/ EndMode(c)
             \/ EndCheckpoint(c)
    BY <2>3, Zenon DEF TryHdr, LockHdr, TryHdrAgain, RecoverLock, PickZero, CheckZero, PickMark,
       ShareMark, SetMin, CheckMark, Restart, UnlockZero, CountFrames, EndWrite, LockWriter,
       StartCheckpoint, StartIterator, CopyPage, EndMode, EndCheckpoint, files, bounds
  <2>4. QED
    BY <1>7, <2>1, <2>2, <2>3, Zenon DEF Step
<1>8. QED
  BY <1>5, <1>6, <1>7

\* Transactions are only added.
LEMMA TxGrows ==
  ASSUME NEW c \in Conn, FilesFit, Step(c) \/ Call(c) \/ Fault(c)
  PROVE  ntx \in Nat /\ ntx' \in Nat /\ ntx <= ntx'
<1>1. ntx \in Nat
  BY LogRoom
<1>2. ntx' = ntx \/ ntx' = ntx + 1
  <2>1. CASE Fault(c)
    BY <2>1, Zenon DEF Fault, FailWrite, FailCopy, Die
  <2>2. CASE Call(c)
    BY <2>2, Zenon DEF Call, Open, Close, BeginRead, EndRead, BeginWrite, Commit, Rollback, Update,
       Spill, WalFrames, Checkpoint, bounds
  <2>3. CASE Step(c)
    BY <2>3, Zenon DEF Step, TryHdr, LockHdr, TryHdrAgain, RecoverLock, RecoverScan, WriteHdr1,
       RecoverHdr0, RecoverInfo, PickZero, CheckZero, PickMark, RaiseMark, ShareMark, SetMin,
       CheckMark, CheckWrite, Restart, RestartHdr0, RestartInfo, UnlockZero, WriteWalHdr,
       WriteFrame, RewriteChecksums, AppendIndex, CountFrames, CommitHdr0, EndWrite, LockWriter,
       StartCheckpoint, MoveMark, StartIterator, LockDb, CopyPage, FinishCopy, EndMode,
       TruncateLog, EndCheckpoint, DeleteLog, bounds
  <2>4. QED
    BY <2>1, <2>2, <2>3
<1>3. QED
  BY <1>1, <1>2

\* What is another connection's still fits.
LEMMA FitOthers ==
  ASSUME NEW c \in Conn, NEW d \in Conn, c # d, IInv, Fits, Step(c) \/ Call(c) \/ Fault(c)
  PROVE  RecFits(d)' /\ PlaceFits(d)'
<1> FilesFit /\ RecFits(d) /\ PlaceFits(d) /\ OwnsOf(d)
  BY DEF Fits, IInv, Owns
<1>1. cn'[d] = cn[d] /\ held'[d] = held[d] /\ UNCHANGED use
  <2>1. UNCHANGED use
    BY Zenon DEF Step, Call, Fault, FailWrite, FailCopy, Die, Open, Close, BeginRead, EndRead,
       BeginWrite, Commit, Rollback, Update, Spill, WalFrames, Checkpoint,
       TryHdr, LockHdr, TryHdrAgain, RecoverLock, RecoverScan, WriteHdr1,
       RecoverHdr0, RecoverInfo, PickZero, CheckZero, PickMark, RaiseMark, ShareMark, SetMin,
       CheckMark, CheckWrite, Restart, RestartHdr0, RestartInfo, UnlockZero, WriteWalHdr,
       WriteFrame, RewriteChecksums, AppendIndex, CountFrames, CommitHdr0, EndWrite, LockWriter,
       StartCheckpoint, MoveMark, StartIterator, LockDb, CopyPage, FinishCopy, EndMode,
       TruncateLog, EndCheckpoint, DeleteLog, bounds
  <2>2. QED
    BY <2>1, Others
<1>2. ntx \in Nat /\ ntx' \in Nat /\ ntx <= ntx' /\ Val(ntx) \subseteq Val(ntx')
  <2>1. ntx \in Nat /\ ntx' \in Nat /\ ntx <= ntx'
    BY TxGrows
  <2>2. QED
    BY <2>1, ValGrows
<1>3. cn[d].cache \in [Page -> Val(ntx)] => cn[d].cache \in [Page -> Val(ntx')]
  BY <1>2
<1>4. WriteFits(cn[d].w, ntx')
  BY <1>2 DEF RecFits, WriteFits
<1>5. RecFits(d)'
  BY <1>1, <1>3, <1>4 DEF RecFits
<1>6. Has(d, WRITE) => wal' = wal /\ shm'.h0 = shm.h0 /\ ntx' = ntx
  BY Reserved
<1>7. CASE Has(d, WRITE)
  <2>1. UNCHANGED ntx /\ wal' = wal /\ shm'.h0 = shm.h0
    BY <1>6, <1>7
  <2>2. PlaceFits(d)'
    BY <1>1, <2>1 DEF PlaceFits, InLog, LogFits
  <2>3. QED
    BY <1>5, <2>2
<1>8. CASE ~Has(d, WRITE)
  <2>1. cn[d].pc \notin {"wchk", "wend", "wh1", "wh0", "rh1", "rh0", "sinfo", "ktrunc"}
    BY <1>8, NoMode DEF OwnsOf, Locks, Has
  <2>2. ~InLog(d)
    BY <1>8 DEF InLog, Has
  <2>3. PlaceFits(d)'
    BY <1>1, <1>3, <2>1, <2>2 DEF PlaceFits, InLog
  <2>4. QED
    BY <1>5, <2>3
<1>9. QED
  BY <1>7, <1>8

\* All of it is kept by every step.
LEMMA FitsNext ==
  ASSUME IInv, Fits, [Next]_vars
  PROVE  Fits'
<1>1. CASE UNCHANGED vars
  BY <1>1 DEF vars, Fits, FilesFit, IndexFits, RecFits, PlaceFits, InLog, LogFits
<1>2. ASSUME NEW c \in Conn, Step(c) \/ Call(c) \/ Fault(c)
      PROVE  Fits'
  <2>1. Fitted(c)
    BY <1>2, FitOwn
  <2>2. \A d \in Conn : c # d => RecFits(d)' /\ PlaceFits(d)'
    BY <1>2, FitOthers
  <2>3. QED
    BY <2>1, <2>2 DEF Fits, Fitted
<1>3. QED
  BY <1>1, <1>2 DEF Next

\* It holds at the start.
LEMMA FitsInit == Init => IInv /\ HeldFits /\ Fits
<1> SUFFICES ASSUME Init PROVE IInv /\ HeldFits /\ Fits
  OBVIOUS
<1>1. IInv
  BY InitInv
<1>2. HeldFits
  BY DEF Init, HeldFits
<1>3. ntx = 0 /\ use \in Use /\ MaxFrame \in Nat /\ Room(0) \in Nat /\ 0 \in 0..use.tx
      /\ MaxTx \in Nat
  <2>1. ntx = 0 /\ use \in Use
    BY DEF Init
  <2>2. MaxFrame \in Nat /\ MaxTx \in Nat /\ Room(0) \in Nat
    BY WalConstants, Rooms
  <2>3. use.tx \in 0..MaxTx
    BY <2>1, WalConstants
  <2>4. QED
    BY <2>1, <2>2, <2>3
<1>4. FilesFit
  <2>1. 0 \in Val(0) /\ <<>> \in Seq(Page) /\ Len(<<>>) = 0
    BY DEF Val
  <2>2. db \in [Page -> Val(ntx)]
    BY <1>3, <2>1 DEF Init
  <2>3. wal.frames = <<>> /\ DOMAIN wal = {"salt", "frames"}
    BY DEF Init
  <2>4. QED
    BY <1>3, <2>1, <2>2, <2>3 DEF FilesFit
<1>5. IndexFits
  <2>1. NotUsed \in Nat /\ 0 \in 0..MaxFrame /\ 0 \in 0..NotUsed
    BY <1>3 DEF NotUsed
  <2>2. /\ shm.h0 = ZeroHdr /\ shm.h1 = ZeroHdr /\ shm.nBackfill = 0 /\ shm.attempted = 0
        /\ shm.mark = [i \in 1..NReader - 1 |-> 0] /\ shm.pgno = [f \in 1..MaxFrame |-> 0]
        /\ Len(wal.frames) = 0
    BY DEF Init, ZeroShm
  <2>3. shm.mark \in [1..NReader - 1 -> 0..NotUsed]
    BY <2>1, <2>2
  <2>4. shm.pgno \in [1..MaxFrame -> Page \cup {0}]
    BY <2>2
  <2>5. QED
    BY <2>1, <2>2, <2>3, <2>4, BlankHdr DEF IndexFits
<1>6. ASSUME NEW c \in Conn
      PROVE  RecFits(c) /\ PlaceFits(c)
  <2>1. /\ cn[c].hdr = ZeroHdr /\ cn[c].min = 0 /\ cn[c].cache = None
        /\ cn[c].dirty = {} /\ cn[c].w = NoWrite /\ cn[c].k.safe = 0 /\ cn[c].k.i = 1
        /\ cn[c].pc = "idle"
    BY DEF Init, Fresh, NoCkpt
  <2>2. HdrFits(ZeroHdr) /\ WriteFits(NoWrite, ntx) /\ 0 \in 0..MaxFrame /\ 1 \in 1..NReader - 1
    BY <1>3, BlankHdr, BlankFits, WalConstants
  <2>3. RecFits(c)
    BY <2>1, <2>2 DEF RecFits
  <2>4. PlaceFits(c)
    BY <2>1 DEF PlaceFits, InLog, Going, Picking
  <2>5. QED
    BY <2>3, <2>4
<1>7. QED
  BY <1>1, <1>2, <1>4, <1>5, <1>6 DEF Fits

\* Room for every number of connections and transactions, whoever dies: the log
\* (walFrames, sqlite3WalUndo, walRestartHdr) never has more than the frames of the
\* transactions begun, every header that is or may be published ends within the log it
\* belongs to, and a writer finds the log as long as it was when it took the WRITE
\* lock, or longer by what it appended itself.
THEOREM FitsHolds == Spec => [](HeldFits /\ Fits)
<1>1. IInv /\ use \in Use /\ HeldFits /\ Fits /\ [Next]_vars => HeldFits' /\ Fits'
  <2> SUFFICES ASSUME IInv, use \in Use, HeldFits, Fits, [Next]_vars
               PROVE  HeldFits' /\ Fits'
    OBVIOUS
  <2>1. CASE UNCHANGED vars
    BY <2>1, FitsNext DEF vars, HeldFits
  <2>2. CASE Next
    BY <2>2, FitsNext, HeldStep DEF Next
  <2>3. QED
    BY <2>1, <2>2
<1>2. Init => HeldFits /\ Fits
  BY FitsInit
<1>3. QED
  BY <1>1, <1>2, LocksAreOwned, UseInv, PTL DEF Spec

\* TypeOK for every number of connections, pages, transactions and faults: the log does
\* not outgrow the index (walIndexAppend writes inside the hash), marks and nBackfill are
\* frame numbers, locks are bytes of the lock range, and a connection shares at most one.
THEOREM TypeOKHolds == Spec => []TypeOK
<1>1. HeldFits /\ Fits => TypeOK
  <2> SUFFICES ASSUME HeldFits, Fits PROVE TypeOK
    OBVIOUS
  <2> FilesFit /\ IndexFits
    BY DEF Fits
  <2>1. db \in [Page -> Value]
    <3>1. ntx \in 0..MaxTx /\ MaxTx \in Nat
      BY LogRoom, WalConstants
    <3>2. Val(ntx) \subseteq Value
      BY <3>1 DEF Val, Value
    <3>3. QED
      BY <3>2 DEF FilesFit
  <2>2. Len(wal.frames) <= MaxFrame
    BY LogRoom
  <2>3. ASSUME NEW c \in Conn
        PROVE  held[c].excl \subseteq 0..READ(NReader - 1) /\ Cardinality(held[c].shared) <= 1
    <3>1. PICK l : held[c].shared \subseteq {l}
      BY DEF HeldFits
    <3>2. held[c].shared = {} \/ held[c].shared = {l}
      BY <3>1
    <3>3. Cardinality({}) = 0 /\ Cardinality({l}) = 1
      BY FS_EmptySet, FS_Singleton
    <3>4. Cardinality(held[c].shared) = 0 \/ Cardinality(held[c].shared) = 1
      BY <3>2, <3>3, Zenon
    <3>5. Cardinality(held[c].shared) <= 1
      BY <3>4
    <3>6. held[c].excl \subseteq 0..READ(NReader - 1)
      BY DEF HeldFits, Bytes
    <3>7. QED
      BY <3>5, <3>6
  <2>4. QED
    BY <2>1, <2>2, <2>3 DEF TypeOK, IndexFits
<1>2. QED
  BY <1>1, FitsHolds, PTL

-----------------------------------------------------------------------------
(* What an open read transaction reads from.  A reader shares READ(0), or   *)
(* the lock of a mark (Pinned); then its snapshot ends within the log that *)
(* the index tells of, and a writer that is at work, behind its end        *)
(* (Placed): what it appends, writes over, checksums anew and enters in    *)
(* the index is none of the reader's.                                      *)

\* The locations of a writer from the start of its transaction to its last header.

Writes == {"write", "restart", "unl0", "sinfo", "whdr", "wframe", "wreck", "windex", "wh1", "wh0"}
             \cup Picking
\* c is a writer whose header is at or past the end of the log.
Ahead(c) == Has(c, WRITE) /\ cn[c].k.mode = None /\ cn[c].pc \in Writes

\* c shares the lock of a mark.
LocksMark(c) == \E i \in 1..NReader - 1 : READ(i) \in held[c].shared

\* Who reads the database file, or copies to it, has locked READ(0); who reads or
\* writes the log shares a mark.
Pinned(c) ==
    /\ cn[c].pc = "chk0" => READ(0) \in held[c].shared
    /\ cn[c].pc = "kcopy" => READ(0) \in held[c].excl
    /\ cn[c].pc = "excl" => cn[c].mxI \in 0..NReader - 1
    /\ cn[c].pc = "share" => cn[c].mxI \in 1..NReader - 1
    /\ cn[c].pc \in {"min", "chk", "whdr", "wframe", "wreck", "windex", "wh1", "wh0", "wend"}
           => LocksMark(c)
    /\ cn[c].pc \in {"read", "wchk", "write"} => READ(0) \in held[c].shared \/ LocksMark(c)

\* Snapshots end within the log; the writer's header, the frames it may write over
\* (first) and those to be checksummed anew (reck) are past the end of it.
Placed(c) ==
    /\ cn[c].pc \in Reading \cup {"wend"} => READ(0) \in held[c].shared \/ cn[c].hdr.mx <= shm.h0.mx
    /\ Ahead(c) => shm.h0.mx <= cn[c].hdr.mx
    /\ cn[c].w.reck = 0 \/ (cn[c].w.reck \in Nat /\ shm.h0.mx < cn[c].w.reck)
    /\ cn[c].pc = "wreck" => cn[c].w.reck # 0
    /\ cn[c].w.first = 0 \/ shm.h0.mx < cn[c].w.first

Snap(c) == Pinned(c) /\ Placed(c)

\* The locations where nothing of this matters.
Bare == {"closed", "idle", "header", "hdrlock", "hdrtry", "recover", "rscan", "rh1", "rh0", "rinfo",
         "pick0", "kwlock", "kstart", "kmark", "kiter", "kread0", "kmode", "kfin", "ktrunc", "delete"}

\* There nothing has to be shown but that no write is under way.
LEMMA SnapBare ==
  ASSUME NEW c \in Conn, cn'[c].pc \in Bare, cn'[c].w.reck = 0, cn'[c].w.first = 0
  PROVE  Snap(c)'
BY DEF Snap, Pinned, Placed, Ahead, Bare, Reading, Writes, Picking

\* Outside of the log nothing is written.
LEMMA NoLogNoWrite ==
  ASSUME NEW c \in Conn, Fits, ~InLog(c)
  PROVE  cn[c].w = NoWrite /\ NoWrite.reck = 0 /\ NoWrite.first = 0
BY DEF Fits, PlaceFits, NoWrite

\* Steps from outside of the log to such a location.
LEMMA SnapAway ==
  ASSUME NEW c \in Conn, IInv, Fits, ~InLog(c), cn'[c].w = cn[c].w, cn'[c].pc \in Bare
  PROVE  Snap(c)'
BY NoLogNoWrite, SnapBare

\* Reading the header, and recovery.
LEMMA SnapHeader ==
  ASSUME NEW c \in Conn, IInv, Fits,
         \/ TryHdr(c) \/ LockHdr(c) \/ TryHdrAgain(c) \/ RecoverLock(c) \/ RecoverScan(c)
         \/ RecoverHdr0(c) \/ RecoverInfo(c)
  PROVE  Snap(c)'
<1> CnShape /\ CnRec(cn[c])
  BY DEF IInv, CnShape
<1>1. cn[c].pc \in {"header", "hdrlock", "hdrtry", "recover", "rscan", "rh0", "rinfo"}
  BY DEF TryHdr, LockHdr, TryHdrAgain, RecoverLock, RecoverScan, RecoverHdr0, RecoverInfo, At
<1>2. ~InLog(c)
  BY <1>1, NotInLog DEF Elsewhere
<1>3. CASE \E me : /\ me = cn[c] \/ me = [cn[c] EXCEPT !.chg = TRUE]
                   /\ cn' = [cn EXCEPT ![c] = BusyHdr(c, me)]
  <2>1. PICK me : /\ me = cn[c] \/ me = [cn[c] EXCEPT !.chg = TRUE]
                  /\ cn' = [cn EXCEPT ![c] = BusyHdr(c, me)]
    BY <1>3
  <2>2. CnRec(me) /\ me.w = cn[c].w
    BY <2>1 DEF CnRec
  <2>3. cn'[c] = BusyHdr(c, me)
    BY <2>1 DEF CnShape
  <2>4. cn'[c].w = cn[c].w /\ cn'[c].pc \in Bare
    BY <2>2, <2>3, BusyRec DEF Bare
  <2>5. QED
    BY <1>2, <2>4, SnapAway
<1>4. CASE cn' = [cn EXCEPT ![c] = AcceptHdr(c, cn[c])]
  <2>1. cn'[c].w = cn[c].w /\ cn'[c].pc \in Bare
    BY <1>4 DEF AcceptHdr, CnShape, CnRec, Bare
  <2>2. QED
    BY <1>2, <2>1, SnapAway
<1>5. CASE \E l \in {"hdrlock", "hdrtry", "recover", "rscan", "rinfo", "kstart", "pick0"} :
              cn' = [cn EXCEPT ![c].pc = l]
  <2>1. cn'[c].w = cn[c].w /\ cn'[c].pc \in Bare
    BY <1>5 DEF CnShape, CnRec, Bare
  <2>2. QED
    BY <1>2, <2>1, SnapAway
<1>6. CASE RecoverScan(c)
  <2>1. cn'[c].w = cn[c].w /\ cn'[c].pc \in Bare
    BY <1>6 DEF RecoverScan, CnShape, CnRec, Bare
  <2>2. QED
    BY <1>2, <2>1, SnapAway
<1>7. QED
  <2>1. CASE TryHdr(c)
    BY <1>4, <1>5, <2>1 DEF TryHdr, CnShape
  <2>2. CASE LockHdr(c)
    BY <1>3, <1>5, <2>2 DEF LockHdr, Goto
  <2>3. CASE TryHdrAgain(c)
    BY <1>4, <1>5, <2>3 DEF TryHdrAgain, Goto
  <2>4. CASE RecoverLock(c)
    BY <1>3, <1>5, <2>4 DEF RecoverLock, Goto
  <2>5. CASE RecoverHdr0(c) \/ RecoverInfo(c)
    BY <1>5, <2>5 DEF RecoverHdr0, RecoverInfo, Goto
  <2>6. QED
    BY <1>6, <2>1, <2>2, <2>3, <2>4, <2>5

\* Checkpoints but for the copying, coming and going.
LEMMA SnapAlone ==
  ASSUME NEW c \in Conn, IInv, Fits,
         \/ LockWriter(c) \/ StartCheckpoint(c) \/ MoveMark(c) \/ StartIterator(c)
         \/ FinishCopy(c) \/ TruncateLog(c) \/ EndCheckpoint(c) \/ DeleteLog(c)
         \/ Open(c) \/ Close(c) \/ BeginRead(c) \/ EndRead(c) \/ (\E m : Checkpoint(c, m))
         \/ FailCopy(c) \/ Die(c)
  PROVE  Snap(c)'
<1> CnShape /\ CnRec(cn[c])
  BY DEF IInv, CnShape
<1>1. CASE cn'[c] = Fresh("closed") \/ cn'[c] = Fresh("idle")
  BY <1>1, SnapBare DEF Fresh, NoWrite, Bare
<1>2. CASE /\ cn[c].pc \in Elsewhere \cup {"read", "ktrunc"}
           /\ cn'[c].w = cn[c].w /\ cn'[c].pc \in Bare
  BY <1>2, NotInLog, SnapAway
<1>3. CASE Open(c) \/ Close(c) \/ Die(c) \/ DeleteLog(c)
  <2>1. CASE cn' = [cn EXCEPT ![c] = Fresh("closed")] \/ cn' = [cn EXCEPT ![c] = Fresh("idle")]
    BY <1>1, <2>1 DEF CnShape
  <2>2. CASE Close(c) /\ ~ \E d \in Conn \ {c} : Attached(d)
    <3>1. cn[c].pc = "idle" /\ cn' = [cn EXCEPT ![c].pc = "header", ![c].k.mode = "CLOSE"]
      BY <2>2 DEF Close, At
    <3>2. QED
      BY <1>2, <3>1 DEF CnShape, CnRec, Elsewhere, Bare
  <2>3. QED
    BY <1>3, <2>1, <2>2, Zenon DEF Open, Close, Die, DeleteLog
<1>4. CASE LockWriter(c) \/ TruncateLog(c) \/ BeginRead(c) \/ EndRead(c) \/ FinishCopy(c) \/ FailCopy(c)
  <2> CnRec(cn[c]) /\ DOMAIN cn = Conn
    BY DEF CnShape
  <2>1. AfterCopy(c) \in {"kmode", "kfin"}
    BY DEF AfterCopy
  <2>2. \/ cn[c].pc = "idle" \/ cn[c].pc = "read" \/ cn[c].pc = "kwlock"
        \/ cn[c].pc = "kcopy" \/ cn[c].pc = "ktrunc"
    BY <1>4, Zenon DEF LockWriter, TruncateLog, BeginRead, EndRead, FinishCopy, FailCopy, At
  <2>3. cn'[c].w = cn[c].w /\ cn'[c].pc \in {"header", "idle", "kfin", "kmode"}
    <3>1. CASE LockWriter(c)
      BY <3>1 DEF LockWriter, Goto, CnRec
    <3>2. CASE TruncateLog(c) \/ BeginRead(c)
      BY <3>2 DEF TruncateLog, BeginRead, Goto, CnRec
    <3>3. CASE EndRead(c)
      BY <3>3 DEF EndRead, CnRec
    <3>4. CASE FinishCopy(c)
      BY <2>1, <3>4 DEF FinishCopy, CnRec
    <3>5. CASE FailCopy(c)
      BY <3>5 DEF FailCopy, CnRec
    <3>6. QED
      BY <1>4, <3>1, <3>2, <3>3, <3>4, <3>5
  <2>4. QED
    BY <1>2, <2>2, <2>3 DEF Elsewhere, Bare
<1>5. CASE StartCheckpoint(c) \/ StartIterator(c)
  <2>1. cn[c].pc \in {"kstart", "kiter"}
    BY <1>5 DEF StartCheckpoint, StartIterator, At
  <2>2. cn'[c].w = cn[c].w /\ (cn'[c].pc = "kmark" \/ cn'[c].pc = "kread0" \/ cn'[c].pc = AfterCopy(c))
    <3>1. CASE StartCheckpoint(c)
      <4>1. CnRec(cn[c]) /\ DOMAIN cn = Conn
        BY DEF CnShape
      <4>2. cn'[c].w = cn[c].w
        BY <3>1, <4>1 DEF StartCheckpoint, CnRec
      <4>3. cn'[c].pc = "kmark" \/ cn'[c].pc = AfterCopy(c)
        BY <3>1, <4>1 DEF StartCheckpoint, CnRec
      <4>4. QED
        BY <4>2, <4>3
    <3>2. CASE StartIterator(c)
      <4>1. PICK last : cn' = [cn EXCEPT ![c] =
                          IF shm.nBackfill < cn[c].k.safe
                          THEN [cn[c] EXCEPT !.pc = "kread0", !.k.todo = last]
                          ELSE [cn[c] EXCEPT !.pc = AfterCopy(c), !.k.safe = 0]]
        BY <3>2, Zenon DEF StartIterator, CnShape
      <4>2. CnRec(cn[c]) /\ DOMAIN cn = Conn
        BY DEF CnShape
      <4>3. cn'[c].w = cn[c].w
        BY <4>1, <4>2 DEF CnRec
      <4>4. cn'[c].pc = "kread0" \/ cn'[c].pc = AfterCopy(c)
        BY <4>1, <4>2 DEF CnRec
      <4>5. QED
        BY <4>3, <4>4
    <3>3. QED
      BY <1>5, <3>1, <3>2
  <2>3. QED
    BY <1>2, <2>1, <2>2 DEF AfterCopy, Elsewhere, Bare
<1>6. CASE MoveMark(c)
  <2>1. cn[c].pc = "kmark"
    BY <1>6 DEF MoveMark, At
  <2>2. cn'[c].w = cn[c].w /\ cn'[c].pc \in {"kiter", "kmark"}
    <3> DEFINE next == [cn[c] EXCEPT !.k.i = IF cn[c].k.i = NReader - 1 THEN 1 ELSE cn[c].k.i + 1,
                                     !.pc = IF cn[c].k.i = NReader - 1 THEN "kiter" ELSE "kmark"]
               bound == shm.mark[cn[c].k.i]
    <3>1. CnRec(cn[c]) /\ DOMAIN cn = Conn
      BY DEF CnShape
    <3>2. \/ cn' = [cn EXCEPT ![c] = next]
          \/ cn' = [cn EXCEPT ![c] = [next EXCEPT !.k.safe = bound]]
      BY <1>6, Zenon DEF MoveMark
    <3>3. next.w = cn[c].w /\ next.pc \in {"kiter", "kmark"} /\ DOMAIN next = DOMAIN cn[c]
      BY <3>1 DEF CnRec
    <3> HIDE DEF next, bound
    <3>4. QED
      BY <3>1, <3>2, <3>3 DEF CnRec
  <2>3. QED
    BY <1>2, <2>1, <2>2 DEF Elsewhere, Bare
<1>7. CASE EndCheckpoint(c)
  BY <1>1, <1>2, <1>7 DEF EndCheckpoint, CnShape, CnRec, At, Elsewhere, Bare
<1>8. CASE \E m : Checkpoint(c, m)
  <2>1. PICK m, l : /\ cn[c].pc = "idle"
                    /\ cn' = [cn EXCEPT ![c].k.mode = m, ![c].pc = l]
                    /\ l = "header" \/ l = "kwlock"
    BY <1>8 DEF Checkpoint, At
  <2>2. cn'[c].w = cn[c].w /\ cn'[c].pc = l
    BY <2>1 DEF CnShape, CnRec
  <2>3. QED
    BY <1>2, <2>1, <2>2 DEF Elsewhere, Bare
<1>9. QED
  BY <1>3, <1>4, <1>5, <1>6, <1>7, <1>8

\* The best of the marks that may be taken is one of them.
LEMMA BestIn ==
  ASSUME NEW c \in Conn, IndexFits, Eligible(c) # {}
  PROVE  BestMark(c) \in Eligible(c) /\ BestMark(c) \in 1..NReader - 1
<1>0. NotUsed \in Nat /\ NReader \in Nat /\ NReader - 1 \in Nat
  BY Rooms, WalConstants DEF NotUsed
<1>1. \A i \in 1..NReader - 1 : shm.mark[i] \in 0..NotUsed
  BY DEF IndexFits
<1> DEFINE E == Eligible(c)
           up == {m \in 0..NotUsed : \A i \in E : shm.mark[i] <= m}
           B  == {i \in E : \A j \in E : shm.mark[j] <= shm.mark[i]}
<1>2. E \in SUBSET (1..NReader - 1) /\ E # {}
  BY DEF Eligible
<1> HIDE DEF E
<1>3. PICK m \in up : \A y \in up : m <= y
  <2>1. \A i \in E : shm.mark[i] \in 0..NotUsed
    BY <1>1, <1>2
  <2>2. NotUsed \in up
    BY <1>0, <2>1
  <2>3. up \in SUBSET Nat /\ up # {}
    BY <1>0, <2>2
  <2>4. QED
    BY <2>3, Smallest
<1>4. \E i \in E : shm.mark[i] = m
  <2>1. SUFFICES ASSUME \A i \in E : shm.mark[i] # m PROVE FALSE
    OBVIOUS
  <2>2. m \in 0..NotUsed /\ \A i \in E : shm.mark[i] <= m /\ shm.mark[i] \in Nat
    BY <1>0, <1>1, <1>2, <1>3
  <2>3. m >= 1 /\ \A i \in E : shm.mark[i] <= m - 1
    BY <1>0, <1>2, <2>1, <2>2
  <2>4. m - 1 \in up
    BY <1>0, <2>2, <2>3
  <2>5. QED
    BY <1>0, <1>3, <2>2, <2>3, <2>4
<1>5. B \in SUBSET (1..NReader - 1) /\ B \subseteq E /\ B # {}
  BY <1>2, <1>3, <1>4
<1> HIDE DEF B
<1>6. \E x \in B : \A y \in B : x >= y
  <2> DEFINE U == {n \in 0..NReader : \A x \in B : x <= n}
  <2>1. \A x \in B : x \in 1..NReader - 1
    BY <1>5
  <2>2. NReader \in U /\ U \in SUBSET Nat
    BY <1>0, <2>1
  <2>3. PICK n \in U : \A y \in U : n <= y
    BY <2>2, Smallest
  <2>4. n \in B
    <3>1. SUFFICES ASSUME n \notin B PROVE FALSE
      OBVIOUS
    <3>2. n \in 0..NReader /\ \A x \in B : x <= n
      BY <2>3
    <3>3. n >= 1 /\ \A x \in B : x <= n - 1
      <4>1. \A x \in B : x # n
        BY <3>1
      <4>2. \A x \in B : x <= n - 1
        BY <1>0, <2>1, <3>2, <4>1
      <4>3. PICK x \in B : TRUE
        BY <1>5
      <4>4. n >= 1
        BY <1>0, <2>1, <3>2, <4>3
      <4>5. QED
        BY <4>2, <4>4
    <3>4. n - 1 \in U
      BY <1>0, <3>2, <3>3
    <3>5. QED
      BY <1>0, <2>3, <3>2, <3>4
  <2>5. QED
    BY <1>0, <2>1, <2>3, <2>4
<1>7. B \in SUBSET Nat /\ BestMark(c) = Largest[B]
  BY <1>5 DEF BestMark, B, E
<1>8. Largest[B] = CHOOSE x \in B : \A y \in B : x >= y
  BY <1>7 DEF Largest
<1>9. QED
  BY <1>5, <1>6, <1>7, <1>8 DEF E

\* The steps that look for a mark.
LEMMA SnapPick ==
  ASSUME NEW c \in Conn, IInv, Fits, Snap(c),
         PickZero(c) \/ PickMark(c) \/ RaiseMark(c) \/ ShareMark(c) \/ SetMin(c)
  PROVE  Snap(c)'
<1> OwnsOf(c) /\ IndexFits /\ PlaceFits(c) /\ CnShape /\ HeldShape /\ CnRec(cn[c]) /\ ShmShape
  BY DEF IInv, Owns, Fits, CnShape
<1>0. held'[c].excl = held[c].excl
  BY DEF PickZero, PickMark, RaiseMark, ShareMark, SetMin, LockS, HeldShape
<1>1. CASE PickZero(c)
  <2>1. /\ cn[c].pc = "pick0" /\ UNCHANGED shm
        /\ \/ Goto(c, "chk0") /\ LockS(c, READ(0))
           \/ Goto(c, "pick")
    BY <1>1 DEF PickZero, At
  <2>2. /\ Keep(c) /\ (cn'[c].pc = "chk0" \/ cn'[c].pc = "pick")
        /\ cn'[c].pc = "chk0" => READ(0) \in held'[c].shared
    BY <2>1, Onward DEF LockS, HeldShape
  <2>3. ~Has(c, WRITE)
    BY <2>1 DEF OwnsOf, Locks, Has
  <2>4. QED
    BY <1>0, <2>1, <2>2, <2>3 DEF Keep, Snap, Pinned, Placed, Ahead, Has, Reading
<1>2. CASE ShareMark(c)
  <2>1. /\ cn[c].pc = "share" /\ UNCHANGED shm
        /\ \/ Goto(c, "min") /\ LockS(c, READ(cn[c].mxI))
           \/ cn' = [cn EXCEPT ![c] = Retry(c, cn[c])]
    BY <1>2 DEF ShareMark, At
  <2>2. CASE Goto(c, "min") /\ LockS(c, READ(cn[c].mxI))
    <3>1. Keep(c) /\ cn'[c].pc = "min" /\ cn'[c].k = cn[c].k
      BY <2>2, Onward
    <3>2. LocksMark(c)'
      BY <2>1, <2>2 DEF LocksMark, LockS, HeldShape, Snap, Pinned
    <3>3. QED
      BY <1>0, <2>1, <3>1, <3>2
      DEF Keep, Snap, Pinned, Placed, Ahead, Has, Reading, Writes, Picking
  <2>3. CASE cn' = [cn EXCEPT ![c] = Retry(c, cn[c])]
    <3>1. cn'[c].hdr = cn[c].hdr /\ cn'[c].w = cn[c].w /\ cn'[c].k = cn[c].k
          /\ cn'[c].pc \in {"pick", "header"}
      BY <2>3 DEF Retry, CnShape, CnRec
    <3>2. QED
      BY <1>0, <2>1, <3>1 DEF Snap, Pinned, Placed, Ahead, Has, Reading, Writes, Picking
  <2>4. QED
    BY <2>1, <2>2, <2>3
<1>3. CASE SetMin(c)
  <2>1. /\ cn[c].pc = "min" /\ UNCHANGED <<shm, held>>
        /\ cn'[c].hdr = cn[c].hdr /\ cn'[c].w = cn[c].w /\ cn'[c].k = cn[c].k
        /\ cn'[c].pc = "chk"
    BY <1>3 DEF SetMin, At, CnShape, CnRec
  <2>2. QED
    BY <1>0, <2>1 DEF Snap, Pinned, Placed, Ahead, Has, Reading, Writes, Picking, LocksMark
<1>4. CASE PickMark(c)
  <2>1. PICK i, m, l : /\ cn' = [cn EXCEPT ![c].mxI = i, ![c].mxMark = m, ![c].pc = l]
                       /\ i = IF Eligible(c) = {} THEN 0 ELSE BestMark(c)
                       /\ l = "excl" \/ l = "share"
                       /\ i = 0 => l = "excl"
    BY <1>4 DEF PickMark
  <2>2. i \in 0..NReader - 1 /\ (l = "share" => i \in 1..NReader - 1)
    <3>1. i = 0 \/ i \in 1..NReader - 1
      BY <2>1, BestIn
    <3>2. 1..NReader - 1 \subseteq 0..NReader - 1 /\ 0 \in 0..NReader - 1
      BY WalConstants
    <3>3. QED
      BY <2>1, <3>1, <3>2
  <2>3. /\ cn'[c].hdr = cn[c].hdr /\ cn'[c].w = cn[c].w /\ cn'[c].k = cn[c].k
        /\ cn'[c].pc = l /\ cn'[c].mxI = i
    BY <2>1 DEF CnShape, CnRec
  <2>4. cn[c].pc = "pick" /\ UNCHANGED <<shm, held>>
    BY <1>4, Zenon DEF PickMark, At
  <2>5. QED
    BY <2>1, <2>2, <2>3, <2>4 DEF Snap, Pinned, Placed, Ahead, Has, Reading, Writes, Picking
<1>5. CASE RaiseMark(c)
  <2> DEFINE free == {i \in 1..NReader - 1 : CanExclude({READ(i)})}
             j    == CHOOSE i \in free : \A g \in free : i <= g
  <2>1. cn[c].pc = "excl" /\ UNCHANGED held
    BY <1>5, Zenon DEF RaiseMark, At
  <2>2. CASE free = {}
    <3>1. UNCHANGED shm /\ \/ cn' = [cn EXCEPT ![c] = Retry(c, cn[c])]
                           \/ Goto(c, "share") /\ cn[c].mxI # 0
      BY <1>5, <2>2, Zenon DEF RaiseMark, Goto
    <3>2. CASE Goto(c, "share") /\ cn[c].mxI # 0
      <4>1. Keep(c) /\ cn'[c].pc = "share" /\ cn'[c].k = cn[c].k /\ cn'[c].mxI = cn[c].mxI
        BY <3>2, Onward DEF Goto, CnShape, CnRec
      <4>2. cn'[c].mxI \in 1..NReader - 1
        BY <2>1, <3>2, <4>1, WalConstants DEF Snap, Pinned
      <4>3. QED
        BY <2>1, <3>1, <4>1, <4>2
        DEF Keep, Snap, Pinned, Placed, Ahead, Has, Reading, Writes, Picking
    <3>3. CASE cn' = [cn EXCEPT ![c] = Retry(c, cn[c])]
      <4>1. cn'[c].hdr = cn[c].hdr /\ cn'[c].w = cn[c].w /\ cn'[c].k = cn[c].k
            /\ cn'[c].pc \in {"pick", "header"}
        BY <3>3 DEF Retry, CnShape, CnRec
      <4>2. QED
        BY <2>1, <3>1, <4>1 DEF Snap, Pinned, Placed, Ahead, Has, Reading, Writes, Picking
    <3>4. QED
      BY <3>1, <3>2, <3>3
  <2>3. CASE free # {}
    <3>1. /\ shm' = [shm EXCEPT !.mark[j] = cn[c].hdr.mx]
          /\ cn' = [cn EXCEPT ![c].mxI = j, ![c].mxMark = cn[c].hdr.mx, ![c].pc = "share"]
      BY <1>5, <2>3, Zenon DEF RaiseMark
    <3>2. j \in 1..NReader - 1
      <4>1. free \in SUBSET Nat /\ free \subseteq 1..NReader - 1
        BY WalConstants
      <4> HIDE DEF free
      <4>2. \E x \in free : \A y \in free : x <= y
        BY <2>3, <4>1, Smallest
      <4>3. QED
        BY <4>1, <4>2
    <3> HIDE DEF j
    <3>3. /\ cn'[c].hdr = cn[c].hdr /\ cn'[c].w = cn[c].w /\ cn'[c].k = cn[c].k
          /\ cn'[c].pc = "share" /\ cn'[c].mxI = j
      BY <3>1 DEF CnShape, CnRec
    <3>4. shm'.h0 = shm.h0
      BY <3>1 DEF ShmShape
    <3>5. QED
      BY <2>1, <3>2, <3>3, <3>4 DEF Snap, Pinned, Placed, Ahead, Has, Reading, Writes, Picking
  <2>4. QED
    BY <2>2, <2>3
<1>6. QED
  BY <1>1, <1>2, <1>3, <1>4, <1>5

\* The last look at mark and header.
LEMMA SnapCheck ==
  ASSUME NEW c \in Conn, IInv, Fits, Snap(c), CheckZero(c) \/ CheckMark(c)
  PROVE  Snap(c)'
<1> /\ OwnsOf(c) /\ IndexFits /\ CnShape /\ HeldShape /\ CnRec(cn[c]) /\ shm.h0.mx \in Nat
  BY LogRoom DEF IInv, Owns, Fits, CnShape, IndexFits, HdrFits
<1> DEFINE me == [cn[c] EXCEPT !.mxI = 0, !.mxMark = 0]
<1>1. /\ CnRec(me) /\ me.hdr = cn[c].hdr /\ me.w = cn[c].w /\ me.k = cn[c].k
  BY DEF CnRec
<1>2. /\ cn[c].pc \in {"chk0", "chk"} /\ UNCHANGED shm
      /\ \/ /\ shm.h0 = cn[c].hdr /\ UNCHANGED held
            /\ \/ cn' = [cn EXCEPT ![c] = OpenTx(c, cn[c], ViewImage(c))]
               \/ cn' = [cn EXCEPT ![c] = OpenTx(c, me, ViewImage(c))]
         \/ cn' = [cn EXCEPT ![c] = Retry(c, cn[c])] /\ FreeS(c)
  BY DEF CheckZero, CheckMark, At
<1> HIDE DEF me
<1>3. CASE cn' = [cn EXCEPT ![c] = Retry(c, cn[c])] /\ FreeS(c)
  <2>1. cn'[c].hdr = cn[c].hdr /\ cn'[c].w = cn[c].w /\ cn'[c].k = cn[c].k
        /\ cn'[c].pc = (IF UseWal(c) THEN "pick" ELSE "header") /\ held'[c].excl = held[c].excl
    BY <1>3 DEF Retry, CnShape, CnRec, FreeS, HeldShape
  <2>2. UseWal(c) => cn[c].pc = "chk"
    BY <1>2, LockNumbers DEF UseWal, Has, OwnsOf, Locks
  <2>3. QED
    BY <1>2, <2>1, <2>2 DEF Snap, Pinned, Placed, Ahead, Has, Reading, Writes, Picking, UseWal
<1>4. ASSUME NEW r, r = cn[c] \/ r = me, cn' = [cn EXCEPT ![c] = OpenTx(c, r, ViewImage(c))],
             shm.h0 = cn[c].hdr, UNCHANGED held
      PROVE  Snap(c)'
  <2>1. CnRec(r) /\ r.hdr = cn[c].hdr /\ r.w = cn[c].w /\ r.k = cn[c].k
    BY <1>1, <1>4
  <2>2. cn'[c] = OpenTx(c, r, ViewImage(c))
    BY <1>4 DEF CnShape
  <2>3. cn'[c].hdr = cn[c].hdr /\ cn'[c].w = cn[c].w
        /\ IF UseWal(c) THEN cn'[c].pc \in {"whdr", "wframe"} ELSE cn'[c].pc = "read"
    <3>1. CASE UseWal(c)
      BY <2>1, <2>2, <3>1 DEF OpenTx, CnRec
    <3>2. CASE ~UseWal(c)
      BY <2>1, <2>2, <3>2, OpenRec
    <3>3. QED
      BY <3>1, <3>2
  <2>4. UseWal(c) => cn[c].pc = "chk"
    BY <1>2, LockNumbers DEF UseWal, Has, OwnsOf, Locks
  <2>5. cn'[c].hdr.mx = shm'.h0.mx /\ shm'.h0.mx = shm.h0.mx
    BY <1>2, <1>4, <2>3
  <2>6. Pinned(c)'
    BY <1>2, <1>4, <2>3, <2>4 DEF Snap, Pinned, LocksMark
  <2>7. Placed(c)'
    BY <1>2, <2>3, <2>5 DEF Snap, Placed
  <2>8. QED
    BY <2>6, <2>7 DEF Snap
<1>5. QED
  BY <1>2, <1>3, <1>4

\* Frames are copied: a checkpoint writes nothing to the log.
LEMMA SnapCopy ==
  ASSUME NEW c \in Conn, IInv, Fits, Snap(c), LockDb(c) \/ CopyPage(c)
  PROVE  Snap(c)'
<1> OwnsOf(c) /\ CnShape /\ HeldShape /\ CnRec(cn[c])
  BY DEF IInv, Owns, CnShape
<1>1. cn[c].pc \in {"kread0", "kcopy"}
  BY DEF LockDb, CopyPage, At
<1>2. ~InLog(c)
  BY <1>1, NotInLog DEF Elsewhere
<1>3. CASE LockDb(c) /\ CanExclude({READ(0)})
  <2>1. PICK todo : /\ cn' = [cn EXCEPT ![c].k.todo = todo, ![c].pc = "kcopy"]
                    /\ LockX(c, {READ(0)})
    BY <1>3, Zenon DEF LockDb
  <2>2. cn'[c].w = cn[c].w /\ cn'[c].pc = "kcopy" /\ READ(0) \in held'[c].excl
    BY <2>1 DEF CnRec, CnShape, LockX, HeldShape
  <2>3. QED
    BY <1>2, <2>2, NoLogNoWrite DEF Snap, Pinned, Placed, Ahead, Reading, Writes, Picking
<1>4. CASE LockDb(c) /\ ~CanExclude({READ(0)})
  <2>1. cn' = [cn EXCEPT ![c].pc = AfterCopy(c), ![c].k.safe = 0, ![c].k.todo = <<>>]
    BY <1>4, Zenon DEF LockDb
  <2>2. cn'[c].w = cn[c].w /\ cn'[c].pc \in Bare
    BY <2>1 DEF CnRec, CnShape, AfterCopy, Bare
  <2>3. QED
    BY <1>2, <2>2, SnapAway
<1>5. CASE CopyPage(c)
  <2>1. PICK p : cn' = [cn EXCEPT ![c].k.todo[p] = 0]
    BY <1>5 DEF CopyPage
  <2>2. cn'[c].w = cn[c].w /\ cn'[c].pc = cn[c].pc /\ held' = held /\ cn[c].pc = "kcopy"
    BY <1>5, <2>1 DEF CnRec, CnShape, CopyPage, At
  <2>3. QED
    BY <1>2, <2>2, NoLogNoWrite DEF Snap, Pinned, Placed, Ahead, Reading, Writes, Picking
<1>6. QED
  BY <1>3, <1>4, <1>5

\* A write transaction begins.
LEMMA SnapWriteLock ==
  ASSUME NEW c \in Conn, IInv, Fits, Snap(c), BeginWrite(c) \/ CheckWrite(c) \/ EndWrite(c)
  PROVE  Snap(c)'
<1> OwnsOf(c) /\ PlaceFits(c) /\ CnShape /\ HeldShape /\ CnRec(cn[c]) /\ shm.h0.mx \in Nat
  BY LogRoom DEF IInv, Owns, Fits, CnShape, IndexFits, HdrFits
<1>1. cn[c].pc \in {"read", "wchk", "wend"} /\ UNCHANGED shm
  BY DEF BeginWrite, CheckWrite, EndWrite, At
<1>2. cn[c].w = NoWrite /\ NoWrite.reck = 0 /\ NoWrite.first = 0
  BY <1>1, NotInLog, NoLogNoWrite
<1>3. held'[c].shared = held[c].shared
  BY DEF BeginWrite, CheckWrite, EndWrite, LockX, FreeX, HeldShape
<1>4. CASE \E l \in {"read", "wchk"} : Goto(c, l)
  <2>1. Keep(c) /\ cn'[c].pc \in {"read", "wchk"}
    BY <1>4, Onward
  <2>2. Pinned(c)'
    BY <1>1, <1>3, <2>1 DEF Snap, Pinned, LocksMark
  <2>3. Placed(c)'
    BY <1>1, <1>2, <1>3, <2>1 DEF Snap, Placed, Keep, Ahead, Reading, Writes, Picking
  <2>4. QED
    BY <2>2, <2>3 DEF Snap
<1>5. CASE CheckWrite(c) /\ cn[c].hdr = shm.h0
  <2>1. cn' = [cn EXCEPT ![c].pc = "write", ![c].w.tx = ntx + 1]
    BY <1>5 DEF CheckWrite
  <2>2. cn'[c].hdr = cn[c].hdr /\ cn'[c].pc = "write" /\ cn'[c].w = [NoWrite EXCEPT !.tx = ntx + 1]
    BY <1>2, <2>1 DEF CnShape, CnRec
  <2>3. cn'[c].w.reck = 0 /\ cn'[c].w.first = 0
    BY <2>2 DEF NoWrite
  <2>4. cn[c].pc = "wchk"
    BY <1>5 DEF CheckWrite, At
  <2>5. Pinned(c)'
    BY <1>3, <2>2, <2>4 DEF Snap, Pinned, LocksMark
  <2>6. Placed(c)'
    BY <1>1, <1>5, <2>2, <2>3 DEF Placed, Reading
  <2>7. QED
    BY <2>5, <2>6 DEF Snap
<1>6. QED
  BY <1>4, <1>5, Zenon DEF BeginWrite, CheckWrite, EndWrite

\* Pages are changed, or a list of them is to go to the log.
LEMMA SnapPages ==
  ASSUME NEW c \in Conn, IInv, Fits, Snap(c),
         \/ \E S \in SUBSET Page : Update(c, S)
         \/ \E p \in Page : Spill(c, p)
         \/ Commit(c)
  PROVE  Snap(c)'
<1> /\ OwnsOf(c) /\ CnShape /\ CnRec(cn[c]) /\ shm.h0.mx \in Nat /\ RecFits(c)
  BY LogRoom DEF IInv, Owns, Fits, CnShape, IndexFits, HdrFits
<1>1. CASE \E S \in SUBSET Page : Update(c, S)
  <2>1. PICK S : Update(c, S)
    BY <1>1
  <2>2. cn[c].pc = "write" /\ UNCHANGED <<shm, held>>
    BY <2>1 DEF Update, At
  <2>3. cn'[c].hdr = cn[c].hdr /\ cn'[c].pc = cn[c].pc /\ cn'[c].w = cn[c].w /\ cn'[c].k = cn[c].k
    BY <2>1 DEF Update, CnShape, CnRec
  <2>4. QED
    BY <2>2, <2>3 DEF Snap, Pinned, Placed, Ahead, Has, Reading, LocksMark
<1>2. CASE \E list, commit : WalFrames(c, list, commit)
  <2>1. PICK list, commit : WalFrames(c, list, commit)
    BY <1>2
  <2>2. cn[c].pc = "write" /\ UNCHANGED <<shm, held>>
    BY <2>1 DEF WalFrames, At
  <2> DEFINE first == IF cn[c].hdr # shm.h0 THEN shm.h0.mx + 1 ELSE 0
             l == IF READ(0) \in held[c].shared THEN "restart"
                  ELSE IF cn[c].hdr.mx = 0 THEN "whdr" ELSE "wframe"
  <2>3. cn' = [cn EXCEPT
           ![c].w = [cn[c].w EXCEPT !.list = list, !.i = 1, !.app = <<>>, !.j = 1,
                              !.commit = commit, !.first = first],
           ![c].pc = l]
    BY <2>1 DEF WalFrames
  <2>4. first = 0 \/ first > shm.h0.mx
    OBVIOUS
  <2>5. l = "restart" \/ (l \in {"whdr", "wframe"} /\ ~(READ(0) \in held[c].shared))
    OBVIOUS
  <2> HIDE DEF first, l
  <2>6. cn'[c].hdr = cn[c].hdr /\ cn'[c].pc = l /\ cn'[c].k = cn[c].k
        /\ cn'[c].w.reck = cn[c].w.reck /\ cn'[c].w.first = first
    BY <2>3 DEF CnShape, CnRec, RecFits, WriteFits
  <2>7. Pinned(c)'
    BY <2>2, <2>5, <2>6 DEF Snap, Pinned, LocksMark
  <2>8. Placed(c)'
    BY <2>2, <2>4, <2>5, <2>6 DEF Snap, Placed, Ahead, Has, Reading, Writes, Picking
  <2>9. QED
    BY <2>7, <2>8 DEF Snap
<1>3. QED
  BY <1>1, <1>2 DEF Spill, Commit

\* The log is started over, or not.
LEMMA SnapRestart ==
  ASSUME NEW c \in Conn, IInv, Fits, Snap(c),
         Restart(c) \/ EndMode(c) \/ RestartHdr0(c) \/ RestartInfo(c) \/ UnlockZero(c)
  PROVE  Snap(c)'
<1> /\ OwnsOf(c) /\ PlaceFits(c) /\ RecFits(c) /\ CnShape /\ HeldShape /\ ShmShape /\ CnRec(cn[c])
    /\ shm.h0.mx \in Nat
  BY LogRoom DEF IInv, Owns, Fits, CnShape, IndexFits, HdrFits
<1>1. CASE (Restart(c) \/ EndMode(c)) /\ cn' = [cn EXCEPT ![c] = RestartHdr(cn[c])]
  <2>1. cn'[c].pc = "sh1" /\ cn'[c].w = cn[c].w /\ UNCHANGED shm
    BY <1>1 DEF RestartHdr, CnShape, CnRec, Restart, EndMode
  <2>2. QED
    BY <2>1 DEF Snap, Pinned, Placed, Ahead, Reading, Writes, Picking
<1>2. CASE Restart(c) /\ Goto(c, "unl0")
  <2>1. cn[c].pc = "restart" /\ UNCHANGED shm
    BY <1>2 DEF Restart, At
  <2>2. Keep(c) /\ cn'[c].pc = "unl0"
    BY <1>2, Onward
  <2>3. Ahead(c)
    BY <2>1 DEF Ahead, OwnsOf, Locks, Has, Writes
  <2>4. QED
    BY <2>1, <2>2, <2>3 DEF Keep, Snap, Pinned, Placed, Reading
<1>3. CASE EndMode(c) /\ Goto(c, "kfin")
  <2>1. cn[c].pc = "kmode"
    BY <1>3 DEF EndMode, At
  <2>2. cn'[c].w = cn[c].w /\ cn'[c].pc \in Bare
    BY <1>3, Onward DEF Keep, Bare
  <2>3. QED
    BY <2>1, <2>2, NotInLog, SnapAway DEF Elsewhere
<1>4. CASE RestartHdr0(c)
  <2>1. cn[c].pc = "sh0" /\ shm'.h0 = cn[c].hdr /\ Goto(c, "sinfo")
    BY <1>4 DEF RestartHdr0, At, ShmShape
  <2>2. Keep(c) /\ cn'[c].pc = "sinfo"
    BY <2>1, Onward
  <2>3. shm'.h0.mx = 0 /\ cn'[c].hdr.mx = 0
    BY <2>1, <2>2 DEF PlaceFits, Keep
  <2>4. cn[c].w.first \in Nat
    BY DEF RecFits, WriteFits
  <2>5. QED
    BY <2>2, <2>3, <2>4 DEF Keep, Snap, Pinned, Placed, Reading
<1>5. CASE RestartInfo(c)
  <2>1. cn[c].pc = "sinfo" /\ shm'.h0 = shm.h0
    BY <1>5 DEF RestartInfo, At, ShmShape
  <2>2. PICK l : Goto(c, l) /\ (l = "ktrunc" \/ (l = "unl0" /\ ~InCkpt(c)))
    BY <1>5 DEF RestartInfo
  <2>3. Keep(c) /\ cn'[c].pc = l
    BY <2>2, Onward
  <2>4. l = "unl0" => Ahead(c)
    BY <2>1, <2>2, LockNumbers DEF Ahead, OwnsOf, Locks, Has, Writes, InCkpt
  <2>5. QED
    BY <2>1, <2>2, <2>3, <2>4 DEF Keep, Snap, Pinned, Placed, Ahead, Reading, Writes, Picking
<1>6. CASE UnlockZero(c)
  <2>1. cn[c].pc = "unl0" /\ UNCHANGED shm /\ Goto(c, "pick")
    BY <1>6 DEF UnlockZero, At
  <2>2. Keep(c) /\ cn'[c].pc = "pick"
    BY <2>1, Onward
  <2>3. Ahead(c)
    BY <2>1 DEF Ahead, OwnsOf, Locks, Has, Writes
  <2>4. QED
    BY <2>1, <2>2, <2>3 DEF Keep, Snap, Pinned, Placed, Reading
<1>7. QED
  BY <1>1, <1>2, <1>3, <1>4, <1>5, <1>6 DEF Restart, EndMode

\* The header is written, of a commit last of all.
LEMMA SnapHdr ==
  ASSUME NEW c \in Conn, IInv, Fits, Snap(c), WriteHdr1(c) \/ CommitHdr0(c)
  PROVE  Snap(c)'
<1> /\ OwnsOf(c) /\ PlaceFits(c) /\ RecFits(c) /\ CnShape /\ HeldShape /\ ShmShape /\ CnRec(cn[c])
  BY DEF IInv, Owns, Fits, CnShape
<1>1. CASE WriteHdr1(c)
  <2>1. /\ shm'.h0 = shm.h0 /\ UNCHANGED held
        /\ \/ cn[c].pc = "rh1" /\ Goto(c, "rh0")
           \/ cn[c].pc = "sh1" /\ Goto(c, "sh0")
           \/ cn[c].pc = "wh1" /\ Goto(c, "wh0")
    BY <1>1 DEF WriteHdr1, At, ShmShape
  <2>2. Keep(c) /\ cn'[c].k = cn[c].k
    BY <2>1, Onward
  <2>3. \/ cn[c].pc = "rh1" /\ cn'[c].pc = "rh0"
        \/ cn[c].pc = "sh1" /\ cn'[c].pc = "sh0"
        \/ cn[c].pc = "wh1" /\ cn'[c].pc = "wh0"
    BY <2>1, Onward
  <2>4. Pinned(c)'
    BY <2>1, <2>3 DEF Snap, Pinned, LocksMark
  <2>5. Placed(c)'
    BY <2>1, <2>2, <2>3 DEF Snap, Placed, Keep, Ahead, Has, Reading, Writes, Picking
  <2>6. QED
    BY <2>4, <2>5 DEF Snap
<1>2. CASE CommitHdr0(c)
  <2>1. cn[c].pc = "wh0" /\ shm'.h0 = cn[c].hdr /\ Goto(c, "wend") /\ UNCHANGED held
    BY <1>2 DEF CommitHdr0, At, ShmShape
  <2>2. Keep(c) /\ cn'[c].pc = "wend"
    BY <2>1, Onward
  <2>3. cn[c].w = NoWrite /\ NoWrite.reck = 0 /\ NoWrite.first = 0
    BY <2>1, NotInLog, NoLogNoWrite
  <2>4. cn[c].hdr.mx \in Nat
    BY LogRoom DEF RecFits, HdrFits, Fits
  <2>5. Pinned(c)'
    BY <2>1, <2>2 DEF Snap, Pinned, LocksMark
  <2>6. Placed(c)'
    BY <2>1, <2>2, <2>3, <2>4 DEF Placed, Keep, Ahead, Writes, Picking
  <2>7. QED
    BY <2>5, <2>6 DEF Snap
<1>3. QED
  BY <1>1, <1>2

\* Frames are written, checksums rewritten and the frames entered in the index: only
\* behind the header that readers trust.
LEMMA SnapAppend ==
  ASSUME NEW c \in Conn, IInv, Fits, Snap(c),
         WriteWalHdr(c) \/ WriteFrame(c) \/ RewriteChecksums(c) \/ AppendIndex(c) \/ FailWrite(c)
  PROVE  Snap(c)'
<1> /\ OwnsOf(c) /\ PlaceFits(c) /\ RecFits(c) /\ CnShape /\ ShmShape /\ CnRec(cn[c])
    /\ shm.h0.mx \in Nat /\ DOMAIN cn = Conn
  BY LogRoom DEF IInv, Owns, Fits, CnShape, IndexFits, HdrFits
<1>1. cn[c].pc \in {"whdr", "wframe", "wreck", "windex"} /\ UNCHANGED held /\ shm'.h0 = shm.h0
  BY Zenon DEF WriteWalHdr, WriteFrame, RewriteChecksums, AppendIndex, FailWrite, At, ShmShape
<1>2. Ahead(c) /\ LocksMark(c) /\ ~(READ(0) \in held[c].excl)
  BY <1>1, LockNumbers DEF Ahead, OwnsOf, Locks, Has, Writes, Snap, Pinned
<1>3. SUFFICES /\ cn'[c].hdr.mx = cn[c].hdr.mx
               /\ cn'[c].pc \in {"wframe", "wreck", "windex", "write"}
               /\ \/ cn'[c].w.reck \in {0, cn[c].w.reck}
                  \/ cn'[c].w.reck \in Nat /\ cn'[c].w.reck > shm.h0.mx
               /\ cn'[c].w.first \in {0, cn[c].w.first}
               /\ cn'[c].pc = "wreck" => cn'[c].w.reck # 0
  <2>1. ASSUME /\ cn'[c].hdr.mx = cn[c].hdr.mx
               /\ cn'[c].pc \in {"wframe", "wreck", "windex", "write"}
               /\ \/ cn'[c].w.reck \in {0, cn[c].w.reck}
                  \/ cn'[c].w.reck \in Nat /\ cn'[c].w.reck > shm.h0.mx
               /\ cn'[c].w.first \in {0, cn[c].w.first}
               /\ cn'[c].pc = "wreck" => cn'[c].w.reck # 0
        PROVE  Snap(c)'
    <3>1. Pinned(c)'
      BY <1>1, <1>2, <2>1 DEF Pinned, LocksMark
    <3>2. Placed(c)'
      BY <1>1, <1>2, <2>1 DEF Snap, Placed, Reading
    <3>3. QED
      BY <3>1, <3>2 DEF Snap
  <2>2. QED
    BY <2>1
<1>4. DOMAIN cn[c].hdr = {"init", "mx", "salt", "chg", "ck"} /\ cn[c].min \in Nat
      /\ cn[c].hdr.mx \in Nat /\ cn[c].w.first \in Nat
      /\ DOMAIN cn[c].w = {"list", "i", "app", "j", "commit", "first", "reck", "tx", "spills", "failed"}
  BY LogRoom DEF RecFits, HdrFits, WriteFits, Fits
<1>5. CASE WriteWalHdr(c)
  <2>1. PICK salt : cn' = [cn EXCEPT ![c].pc = "wframe", ![c].hdr.salt = salt,
                                     ![c].hdr.ck = HdrCk(salt)]
    BY <1>5 DEF WriteWalHdr
  <2>2. QED
    BY <1>4, <2>1 DEF CnRec
<1>6. CASE WriteFrame(c)
  <2> DEFINE me   == cn[c]
             p    == me.w.list[me.w.i]
             last == me.w.i = Len(me.w.list)
             f    == FindFrame(p, me.min, me.hdr.mx)
             over == me.w.first > 0 /\ ~(last /\ me.w.commit) /\ f >= me.w.first
             new  == [page |-> p, val |-> me.cache[p], commit |-> last /\ me.w.commit,
                      salt |-> IF me.w.reck = 0 THEN me.hdr.salt ELSE 0,
                      prev |-> me.hdr.ck]
             reck == IF over /\ (me.w.reck = 0 \/ f < me.w.reck) THEN f ELSE me.w.reck
             l    == IF ~last THEN "wframe"
                     ELSE IF me.w.commit /\ reck > 0 THEN "wreck" ELSE "windex"
             app  == IF over THEN me.w.app ELSE Append(me.w.app, p)
             ck   == IF over \/ me.w.reck > 0 THEN me.hdr.ck ELSE Cksum(new)
  <2>1. cn' = [cn EXCEPT
              ![c].w = [cn[c].w EXCEPT !.i = cn[c].w.i + 1, !.reck = reck, !.app = app],
              ![c].hdr.ck = ck, ![c].pc = l]
    BY <1>6, Zenon DEF WriteFrame
  <2>2. l \in {"wframe", "wreck", "windex"} /\ (l = "wreck" => reck > 0)
    OBVIOUS
  <2>3. f \in Nat
    <3>1. f \in 0..me.hdr.mx
      BY <1>4, Found
    <3>2. QED
      BY <1>4, <3>1
  <2>4. reck \in {0, cn[c].w.reck} \/ (reck \in Nat /\ reck > shm.h0.mx)
    <3>1. CASE reck = f /\ f >= cn[c].w.first /\ cn[c].w.first > 0
      <4>1. cn[c].w.first > shm.h0.mx
        BY <3>1 DEF Snap, Placed
      <4> HIDE DEF f, reck
      <4>2. QED
        BY <1>4, <2>3, <3>1, <4>1
    <3>2. CASE reck = cn[c].w.reck
      BY <3>2
    <3>3. QED
      BY <3>1, <3>2
  <2> HIDE DEF reck, l, app, ck
  <2>5. cn'[c].hdr.mx = cn[c].hdr.mx
    BY <1>4, <2>1, Zenon DEF CnRec
  <2>6. cn'[c].pc = l
    BY <2>1, Zenon DEF CnRec
  <2>7. cn'[c].w.reck = reck
    BY <1>4, <2>1, Zenon DEF CnRec
  <2>8. cn'[c].w.first = cn[c].w.first
    BY <1>4, <2>1, Zenon DEF CnRec
  <2>9. QED
    BY <2>2, <2>4, <2>5, <2>6, <2>7, <2>8
<1>7. CASE RewriteChecksums(c)
  <2>1. PICK ck : cn' = [cn EXCEPT ![c].hdr.ck = ck, ![c].w.reck = 0, ![c].pc = "windex"]
    BY <1>7, Zenon DEF RewriteChecksums
  <2>2. QED
    BY <1>4, <2>1 DEF CnRec
<1>8. CASE AppendIndex(c)
  <2>1. cn' = [cn EXCEPT ![c].w.j = cn[c].w.j + 1] /\ cn[c].pc = "windex"
    BY <1>8, Zenon DEF AppendIndex, At
  <2>2. QED
    BY <1>4, <2>1 DEF CnRec
<1>9. CASE FailWrite(c)
  <2>1. PICK S : cn' = [cn EXCEPT ![c].pc = "write", ![c].w = [NoWrite EXCEPT !.failed = TRUE],
                                  ![c].dirty = S]
    BY <1>9, Zenon DEF FailWrite
  <2>2. [NoWrite EXCEPT !.failed = TRUE].reck = 0 /\ [NoWrite EXCEPT !.failed = TRUE].first = 0
    BY DEF NoWrite
  <2>3. cn'[c].hdr = cn[c].hdr /\ cn'[c].pc = "write" /\ cn'[c].w = [NoWrite EXCEPT !.failed = TRUE]
    BY <2>1 DEF CnRec
  <2>4. QED
    BY <2>2, <2>3
<1>10. QED
  BY <1>5, <1>6, <1>7, <1>8, <1>9

\* The writer takes the frames in, or gives them up.
LEMMA SnapSettle ==
  ASSUME NEW c \in Conn, IInv, Fits, Snap(c), CountFrames(c) \/ Rollback(c)
  PROVE  Snap(c)'
<1> /\ OwnsOf(c) /\ RecFits(c) /\ CnShape /\ HeldShape /\ ShmShape /\ CnRec(cn[c])
    /\ shm.h0.mx \in Nat /\ DOMAIN cn = Conn
  BY LogRoom DEF IInv, Owns, Fits, CnShape, IndexFits, HdrFits
<1>1. CASE CountFrames(c)
  <2>1. cn[c].pc = "windex" /\ UNCHANGED <<shm, held>>
    BY <1>1, Zenon DEF CountFrames, At
  <2>2. Ahead(c) /\ LocksMark(c)
    BY <2>1 DEF Ahead, OwnsOf, Locks, Has, Writes, Snap, Pinned
  <2> DEFINE mx == cn[c].hdr.mx + Len(cn[c].w.app)
             chg == IF cn[c].w.commit THEN cn[c].hdr.chg + 1 ELSE cn[c].hdr.chg
             dirty == cn[c].dirty \ {cn[c].w.list[i] : i \in DOMAIN cn[c].w.list}
             w == IF cn[c].w.commit THEN NoWrite
                  ELSE [NoWrite EXCEPT !.tx = cn[c].w.tx, !.spills = cn[c].w.spills + 1,
                                       !.reck = cn[c].w.reck]
             pc == IF cn[c].w.commit THEN "wh1" ELSE "write"
  <2>3. cn' = [cn EXCEPT ![c].hdr.mx = mx, ![c].hdr.chg = chg, ![c].dirty = dirty,
                         ![c].w = w, ![c].pc = pc]
    BY <1>1, Zenon DEF CountFrames
  <2>4. w.first = 0 /\ w.reck \in {0, cn[c].w.reck}
    BY DEF NoWrite
  <2>5. pc \in {"wh1", "write"}
    OBVIOUS
  <2> HIDE DEF chg, dirty, w, pc, mx
  <2>6. DOMAIN cn[c].hdr = {"init", "mx", "salt", "chg", "ck"}
    BY DEF RecFits, HdrFits
  <2>7. cn'[c].hdr.mx = mx
    BY <2>3, <2>6, Zenon DEF CnRec
  <2>8. cn'[c].w = w /\ cn'[c].pc = pc
    BY <2>3 DEF CnRec
  <2>9. mx >= shm.h0.mx
    <3>1. cn[c].hdr.mx \in Nat /\ cn[c].w.app \in Seq(Page) /\ shm.h0.mx <= cn[c].hdr.mx
      BY <2>2, LogRoom DEF RecFits, HdrFits, WriteFits, Fits, Snap, Placed
    <3>2. Len(cn[c].w.app) \in Nat
      BY <3>1
    <3>3. QED
      BY <3>1, <3>2 DEF mx
  <2>10. Pinned(c)'
    BY <2>1, <2>2, <2>5, <2>8 DEF Pinned, LocksMark
  <2>11. Placed(c)'
    BY <2>1, <2>4, <2>5, <2>7, <2>8, <2>9 DEF Snap, Placed, Reading
  <2>12. QED
    BY <2>10, <2>11 DEF Snap
<1>2. CASE Rollback(c)
  <2>1. cn[c].pc = "write" /\ FreeX(c, {WRITE})
    BY <1>2, Zenon DEF Rollback, At
  <2>2. PICK cache, pgno : /\ shm' = [shm EXCEPT !.pgno = pgno]
                           /\ cn' = [cn EXCEPT ![c].hdr = shm.h0, ![c].dirty = {},
                                         ![c].w = NoWrite, ![c].pc = "read", ![c].cache = cache]
    BY <1>2, Zenon DEF Rollback
  <2>3. /\ cn'[c].hdr = shm.h0 /\ cn'[c].w = NoWrite /\ cn'[c].pc = "read"
        /\ shm'.h0 = shm.h0 /\ held'[c].shared = held[c].shared
    BY <2>1, <2>2 DEF CnRec, ShmShape, FreeX, HeldShape
  <2>4. Pinned(c)'
    BY <2>1, <2>3 DEF Snap, Pinned, LocksMark
  <2>5. Placed(c)'
    BY <2>3 DEF Placed, Ahead, Writes, Picking, NoWrite
  <2>6. QED
    BY <2>4, <2>5 DEF Snap
<1>3. QED
  BY <1>1, <1>2

\* Every step of a connection keeps what is said of itself.
LEMMA SnapOwn ==
  ASSUME NEW c \in Conn, IInv, Fits, Snap(c), Step(c) \/ Call(c) \/ Fault(c)
  PROVE  Snap(c)'
<1>1. CASE Step(c)
  BY <1>1, SnapHeader, SnapAlone, SnapPick, SnapCheck, SnapCopy, SnapWriteLock, SnapRestart,
     SnapHdr, SnapAppend, SnapSettle, Zenon DEF Step
<1>2. CASE Call(c)
  <2>1. CASE \E S \in SUBSET Page \ {{}} : Update(c, S)
    BY <2>1, SnapPages
  <2>2. CASE ~ \E S \in SUBSET Page \ {{}} : Update(c, S)
    BY <1>2, <2>2, SnapAlone, SnapWriteLock, SnapPages, SnapSettle, Zenon DEF Call
  <2>3. QED
    BY <2>1, <2>2
<1>3. CASE Fault(c)
  BY <1>3, SnapAlone, SnapAppend, Zenon DEF Fault
<1>4. QED
  BY <1>1, <1>2, <1>3

\* Which steps write what is shared.
LEMMA Touches ==
  ASSUME NEW c \in Conn, ShmShape, Step(c) \/ Call(c) \/ Fault(c)
  PROVE  /\ \/ shm'.h0 = shm.h0
            \/ RecoverHdr0(c) \/ RestartHdr0(c) \/ CommitHdr0(c) \/ Open(c) \/ DeleteLog(c)
         /\ \/ shm'.pgno = shm.pgno
            \/ RecoverScan(c) \/ AppendIndex(c) \/ Rollback(c) \/ Open(c) \/ DeleteLog(c)
         /\ \/ wal' = wal
            \/ WriteWalHdr(c) \/ WriteFrame(c) \/ RewriteChecksums(c) \/ TruncateLog(c)
            \/ DeleteLog(c)
         /\ db' = db \/ CopyPage(c)
         /\ \/ shm'.nBackfill = shm.nBackfill
            \/ RecoverInfo(c) \/ RestartInfo(c) \/ FinishCopy(c) \/ Open(c) \/ DeleteLog(c)
<1>1. CASE \/ RecoverHdr0(c) \/ RestartHdr0(c) \/ CommitHdr0(c) \/ WriteHdr1(c) \/ RecoverInfo(c)
           \/ RestartInfo(c) \/ LockDb(c) \/ FinishCopy(c)
  <2>1. UNCHANGED files
    BY <1>1, Zenon DEF RecoverHdr0, RestartHdr0, CommitHdr0, WriteHdr1, RecoverInfo, RestartInfo,
       LockDb, FinishCopy
  <2>2. shm'.pgno = shm.pgno
    BY <1>1 DEF RecoverHdr0, RestartHdr0, CommitHdr0, WriteHdr1, RecoverInfo, RestartInfo, LockDb,
       FinishCopy, ShmShape
  <2>3. \/ shm'.h0 = shm.h0
        \/ RecoverHdr0(c) \/ RestartHdr0(c) \/ CommitHdr0(c) \/ Open(c) \/ DeleteLog(c)
    BY <1>1 DEF WriteHdr1, RecoverInfo, RestartInfo, LockDb, FinishCopy, ShmShape
  <2>4. \/ shm'.nBackfill = shm.nBackfill
        \/ RecoverInfo(c) \/ RestartInfo(c) \/ FinishCopy(c) \/ Open(c) \/ DeleteLog(c)
    BY <1>1 DEF RecoverHdr0, RestartHdr0, CommitHdr0, WriteHdr1, LockDb, ShmShape
  <2>5. QED
    BY <2>1, <2>2, <2>3, <2>4 DEF files
<1>2. CASE RaiseMark(c) \/ MoveMark(c)
  <2>1. UNCHANGED files
    BY <1>2, Zenon DEF RaiseMark, MoveMark
  <2>2. shm' = shm \/ \E i, m : shm' = [shm EXCEPT !.mark[i] = m]
    BY <1>2, Zenon DEF RaiseMark, MoveMark
  <2>3. shm'.pgno = shm.pgno /\ shm'.h0 = shm.h0 /\ shm'.nBackfill = shm.nBackfill
    BY <2>2 DEF ShmShape
  <2>4. QED
    BY <2>1, <2>3 DEF files
<1>3. CASE RecoverScan(c) \/ AppendIndex(c) \/ Rollback(c)
  <2>1. UNCHANGED files
    BY <1>3, Zenon DEF RecoverScan, AppendIndex, Rollback
  <2>2. shm' = shm \/ \E g : shm' = [shm EXCEPT !.pgno = g]
    BY <1>3, Zenon DEF RecoverScan, AppendIndex, Rollback
  <2>3. shm'.h0 = shm.h0 /\ shm'.nBackfill = shm.nBackfill
    BY <2>2 DEF ShmShape
  <2>4. QED
    BY <1>3, <2>1, <2>3 DEF files
<1>4. CASE \/ WriteWalHdr(c) \/ WriteFrame(c) \/ RewriteChecksums(c) \/ TruncateLog(c) \/ CopyPage(c)
           \/ Open(c) \/ DeleteLog(c)
  BY <1>4, Zenon DEF WriteWalHdr, WriteFrame, RewriteChecksums, TruncateLog, CopyPage, Open,
     DeleteLog, files
<1>5. CASE \/ TryHdr(c) \/ LockHdr(c) \/ TryHdrAgain(c) \/ RecoverLock(c) \/ PickZero(c)
           \/ CheckZero(c) \/ PickMark(c) \/ ShareMark(c) \/ SetMin(c) \/ CheckMark(c)
           \/ CheckWrite(c) \/ Restart(c) \/ UnlockZero(c) \/ CountFrames(c) \/ EndWrite(c)
           \/ LockWriter(c) \/ StartCheckpoint(c) \/ StartIterator(c) \/ EndMode(c)
           \/ EndCheckpoint(c) \/ Fault(c) \/ Close(c) \/ BeginRead(c) \/ EndRead(c)
           \/ BeginWrite(c) \/ Commit(c)
           \/ (\E S \in SUBSET Page \ {{}} : Update(c, S)) \/ (\E p \in Page : Spill(c, p))
           \/ (\E m \in use.modes : Checkpoint(c, m))
  <2>1. UNCHANGED <<files, shm>>
    BY <1>5, Zenon DEF TryHdr, LockHdr, TryHdrAgain, RecoverLock, PickZero, CheckZero, PickMark,
       ShareMark, SetMin, CheckMark, CheckWrite, Restart, UnlockZero, CountFrames, EndWrite,
       LockWriter, StartCheckpoint, StartIterator, EndMode, EndCheckpoint, Fault, FailWrite,
       FailCopy, Die, Close, BeginRead, EndRead, BeginWrite, Commit, Update, Spill, WalFrames,
       Checkpoint
  <2>2. QED
    BY <2>1 DEF files
<1>6. QED
  BY <1>1, <1>2, <1>3, <1>4, <1>5, Zenon DEF Step, Call

\* Whoever shares a mark keeps the log from being recovered, started over and deleted.
LEMMA MarkBars ==
  ASSUME NEW c \in Conn, NEW d \in Conn, c # d, IInv, LocksMark(d)
  PROVE  /\ cn[c].pc \notin {"rscan", "rh1", "rh0", "rinfo", "sh1", "sh0", "sinfo", "delete"}
         /\ Open(c) => shm' = shm
<1> OwnsOf(c) /\ OwnsOf(d) /\ LocksApart /\ Alone
  BY DEF IInv, Owns
<1>1. ~(READERS \subseteq held[c].excl)
  BY LockNumbers DEF LocksMark, LocksApart
<1>2. cn[d].pc # "closed"
  BY DEF OwnsOf, Locks, LocksMark
<1>3. cn[c].pc # "delete"
  BY <1>2 DEF OwnsOf, Locks, Alone, Exclusive
<1>4. Open(c) => shm' = shm
  BY <1>2 DEF Open, Attached
<1>5. QED
  BY <1>1, <1>3, <1>4 DEF OwnsOf, Locks

\* Then the log only grows.
LEMMA EndGrows ==
  ASSUME NEW c \in Conn, NEW d \in Conn, c # d, IInv, Fits, Snap(c), LocksMark(d),
         Step(c) \/ Call(c) \/ Fault(c)
  PROVE  shm.h0.mx <= shm'.h0.mx
<1> ShmShape /\ OwnsOf(c) /\ shm.h0.mx \in Nat
  BY LogRoom DEF IInv, Owns, Fits, IndexFits, HdrFits
<1>1. shm'.h0 = shm.h0 \/ CommitHdr0(c)
  BY Touches, MarkBars, Zenon DEF RecoverHdr0, RestartHdr0, DeleteLog, At
<1>2. CASE CommitHdr0(c)
  <2>1. cn[c].pc = "wh0" /\ shm'.h0 = cn[c].hdr
    BY <1>2 DEF CommitHdr0, At, ShmShape
  <2>2. Ahead(c)
    BY <2>1 DEF Ahead, OwnsOf, Locks, Has, Writes
  <2>3. QED
    BY <2>1, <2>2 DEF Snap, Placed
<1>3. QED
  BY <1>1, <1>2

\* What is said of the others holds on.
LEMMA SnapOthers ==
  ASSUME NEW c \in Conn, NEW d \in Conn, c # d, IInv, Fits, Snap(c), Snap(d),
         Step(c) \/ Call(c) \/ Fault(c)
  PROVE  Snap(d)'
<1> OwnsOf(d) /\ IndexFits
  BY DEF IInv, Owns, Fits
<1>1. cn'[d] = cn[d] /\ held'[d] = held[d]
  BY Others
<1>2. Pinned(d)'
  BY <1>1 DEF Snap, Pinned, LocksMark
<1>3. CASE Has(d, WRITE)
  <2>1. shm'.h0 = shm.h0
    BY <1>3, Reserved
  <2>2. QED
    BY <1>1, <1>2, <2>1 DEF Snap, Placed, Ahead, Has
<1>4. CASE ~Has(d, WRITE)
  <2>1. cn[d].w = NoWrite /\ NoWrite.reck = 0 /\ NoWrite.first = 0
    BY <1>4, NotInLog, NoLogNoWrite
  <2>2. cn[d].pc \notin {"wreck", "wend", "wchk"} /\ ~Ahead(d)
    BY <1>4 DEF OwnsOf, Locks, Has, Ahead
  <2>3. ASSUME cn[d].pc = "read", ~(READ(0) \in held[d].shared)
        PROVE  cn[d].hdr.mx <= shm'.h0.mx
    <3>1. LocksMark(d) /\ cn[d].hdr.mx <= shm.h0.mx
      BY <2>3 DEF Snap, Pinned, Placed, Reading
    <3>2. shm.h0.mx <= shm'.h0.mx
      BY <3>1, EndGrows
    <3>3. cn[d].hdr.mx \in Nat /\ shm.h0.mx \in Nat /\ shm'.h0.mx \in Nat
      <4>1. RecFits(d) /\ Fitted(c) /\ FilesFit
        BY FitOwn DEF Fits
      <4>2. HdrFits(cn[d].hdr) /\ HdrFits(shm.h0) /\ HdrFits(shm.h0)'
        BY <4>1 DEF RecFits, Fitted, IndexFits
      <4>3. cn[d].hdr.mx \in 0..MaxFrame /\ shm.h0.mx \in 0..MaxFrame /\ shm'.h0.mx \in 0..MaxFrame
        BY <4>2, Zenon DEF HdrFits
      <4>4. QED
        BY <4>3, LogRoom
    <3>4. QED
      BY <3>1, <3>2, <3>3
  <2>4. Placed(d)'
    BY <1>1, <2>1, <2>2, <2>3 DEF Placed, Ahead, Has, Reading
  <2>5. QED
    BY <1>2, <2>4 DEF Snap
<1>5. QED
  BY <1>3, <1>4

\* The frames a reader's snapshot ends with stay.
LEMMA FramesStay ==
  ASSUME NEW c \in Conn, NEW d \in Conn, c # d, IInv, Fits, Snap(c), LocksMark(d),
         Step(c) \/ Call(c) \/ Fault(c)
  PROVE  \A f \in 1..shm.h0.mx : wal'.frames[f] = wal.frames[f]
<1> /\ ShmShape /\ OwnsOf(c) /\ FilesFit /\ IndexFits /\ RecFits(c) /\ PlaceFits(c)
    /\ shm.h0.mx \in Nat /\ DOMAIN wal = {"salt", "frames"}
    /\ Len(wal.frames) \in Nat /\ shm.h0.mx <= Len(wal.frames)
    /\ DOMAIN wal.frames = 1..Len(wal.frames)
  BY LogRoom DEF IInv, Owns, Fits, FilesFit, IndexFits, HdrFits
<1>1. \/ wal' = wal
      \/ WriteWalHdr(c) \/ WriteFrame(c) \/ RewriteChecksums(c) \/ TruncateLog(c)
  BY Touches, MarkBars, Zenon DEF DeleteLog, At
<1>2. CASE WriteWalHdr(c)
  <2>1. PICK salt : wal' = [wal EXCEPT !.salt = salt]
    BY <1>2, Zenon DEF WriteWalHdr
  <2>2. QED
    BY <2>1
<1>3. CASE TruncateLog(c)
  BY <1>3 DEF TruncateLog, At, PlaceFits
<1>4. CASE WriteFrame(c)
  <2> DEFINE me   == cn[c]
             p    == me.w.list[me.w.i]
             last == me.w.i = Len(me.w.list)
             g    == FindFrame(p, me.min, me.hdr.mx)
             over == me.w.first > 0 /\ ~(last /\ me.w.commit) /\ g >= me.w.first
             new  == [page |-> p, val |-> me.cache[p], commit |-> last /\ me.w.commit,
                      salt |-> IF me.w.reck = 0 THEN me.hdr.salt ELSE 0,
                      prev |-> me.hdr.ck]
             at   == me.hdr.mx + Len(me.w.app) + 1
  <2>1. wal' = IF over THEN [wal EXCEPT !.frames[g].val = me.cache[p]] ELSE PutFrame(at, new)
    BY <1>4, Zenon DEF WriteFrame
  <2>2. cn[c].pc = "wframe"
    BY <1>4, Zenon DEF WriteFrame, At
  <2>3. shm.h0.mx <= me.hdr.mx
    BY <2>2 DEF Snap, Placed, Ahead, OwnsOf, Locks, Has, Writes
  <2>4. me.hdr.mx \in Nat /\ me.w.app \in Seq(Page) /\ me.min \in Nat /\ me.w.first \in Nat
    BY LogRoom DEF RecFits, HdrFits, WriteFits
  <2>5. at \in Nat /\ at > shm.h0.mx
    <3>1. Len(me.w.app) \in Nat
      BY <2>4
    <3>2. ASSUME NEW x \in Nat, NEW y \in Nat, NEW h \in Nat, h <= x
          PROVE  x + y + 1 \in Nat /\ x + y + 1 > h
      BY <3>2
    <3>3. QED
      BY <2>3, <2>4, <3>1, <3>2
  <2>6. CASE over
    <3>1. wal'.frames = [wal.frames EXCEPT ![g].val = me.cache[p]]
      BY <2>1, <2>6
    <3>2. g >= me.w.first /\ me.w.first > shm.h0.mx
      BY <2>6 DEF Snap, Placed
    <3>3. g \in Nat
      <4>1. g \in 0..me.hdr.mx
        BY <2>4, Found
      <4>2. QED
        BY <2>4, <4>1
    <3> HIDE DEF me, p, g, last, over
    <3>4. \A f \in 1..shm.h0.mx : f # g
      BY <2>4, <3>2, <3>3
    <3>5. QED
      BY <3>1, <3>4
  <2>7. CASE ~over
    <3>1. wal' = PutFrame(at, new)
      BY <2>1, <2>7
    <3> HIDE DEF new, at, over, me
    <3>2. CASE at <= Len(wal.frames)
      <4>1. wal'.frames = [wal.frames EXCEPT ![at] = new]
        BY <3>1, <3>2 DEF PutFrame
      <4>2. QED
        BY <2>5, <4>1
    <3>3. CASE ~(at <= Len(wal.frames))
      <4>1. wal'.frames = Append(wal.frames, new)
        BY <3>1, <3>3 DEF PutFrame
      <4>2. PICK S : wal.frames \in Seq(S)
        BY DEF FilesFit
      <4>3. \A f \in 1..Len(wal.frames) : Append(wal.frames, new)[f] = wal.frames[f]
        BY <4>2
      <4>4. QED
        BY <4>1, <4>3
    <3>4. QED
      BY <3>2, <3>3
  <2>8. QED
    BY <2>6, <2>7
<1>5. CASE RewriteChecksums(c)
  <2>1. cn[c].pc = "wreck"
    BY <1>5, Zenon DEF RewriteChecksums, At
  <2>2. cn[c].w.reck \in Nat /\ cn[c].w.reck > shm.h0.mx
    BY <2>1 DEF Snap, Placed
  <2> DEFINE last == cn[c].hdr.mx + Len(cn[c].w.app)
             new(f) == [wal.frames[f] EXCEPT
                              !.salt = cn[c].hdr.salt,
                              !.prev = IF f = 1 THEN HdrCk(wal.salt)
                                       ELSE Cksum(wal.frames[f - 1])]
  <2>3. wal' = [wal EXCEPT !.frames = [f \in DOMAIN wal.frames |->
                      IF f \in cn[c].w.reck..last THEN new(f) ELSE wal.frames[f]]]
    BY <1>5, Zenon DEF RewriteChecksums
  <2> HIDE DEF last, new
  <2>4. wal'.frames = [f \in DOMAIN wal.frames |->
                      IF f \in cn[c].w.reck..last THEN new(f) ELSE wal.frames[f]]
    BY <2>3
  <2>5. \A f \in 1..shm.h0.mx : f \in DOMAIN wal.frames /\ ~(f \in cn[c].w.reck..last)
    BY <2>2
  <2>6. QED
    BY <2>4, <2>5
<1>6. QED
  BY <1>1, <1>2, <1>3, <1>4, <1>5

\* While nobody recovers or deletes the log, the entries of the frames up to its end stay.
LEMMA EntriesKept ==
  ASSUME NEW c \in Conn, IInv, Fits, Snap(c), Step(c) \/ Call(c) \/ Fault(c),
         cn[c].pc \notin {"rscan", "delete"}, Open(c) => shm' = shm
  PROVE  \A f \in 1..shm.h0.mx : shm'.pgno[f] = shm.pgno[f]
<1> /\ ShmShape /\ OwnsOf(c) /\ IndexFits /\ RecFits(c)
    /\ shm.h0.mx \in Nat /\ MaxFrame \in Nat /\ shm.h0.mx <= MaxFrame
    /\ DOMAIN shm.pgno = 1..MaxFrame
  BY LogRoom DEF IInv, Owns, Fits, IndexFits, HdrFits
<1>1. shm'.pgno = shm.pgno \/ AppendIndex(c) \/ Rollback(c)
  BY Touches, Zenon DEF RecoverScan, DeleteLog, At
<1>2. CASE AppendIndex(c)
  <2>1. cn[c].pc = "windex"
    BY <1>2, Zenon DEF AppendIndex, At
  <2> DEFINE mx == cn[c].hdr.mx
             f  == mx + cn[c].w.j
             zeroed == IF f = 1 THEN [g \in DOMAIN shm.pgno |-> 0] ELSE shm.pgno
             cleaned == IF zeroed[f] # 0 THEN CleanupHash(zeroed, mx) ELSE zeroed
  <2>2. shm' = [shm EXCEPT !.pgno = IndexAppend(shm.pgno, mx, f, cn[c].w.app[cn[c].w.j])]
    BY <1>2, Zenon DEF AppendIndex
  <2>3. shm'.pgno = [cleaned EXCEPT ![f] = cn[c].w.app[cn[c].w.j]]
    <3>1. IndexAppend(shm.pgno, mx, f, cn[c].w.app[cn[c].w.j])
            = [cleaned EXCEPT ![f] = cn[c].w.app[cn[c].w.j]]
      BY Zenon DEF IndexAppend
    <3> HIDE DEF cleaned, f, mx
    <3>2. QED
      BY <2>2, <3>1 DEF ShmShape
  <2>4. mx \in Nat /\ cn[c].w.j \in Nat \ {0}
    BY LogRoom DEF RecFits, HdrFits, WriteFits, Fits
  <2>5. shm.h0.mx <= mx
    BY <2>1 DEF Snap, Placed, Ahead, OwnsOf, Locks, Has, Writes
  <2> HIDE DEF mx
  <2>6. f \in Nat /\ f > mx /\ (f = 1 => mx = 0)
    BY <2>4
  <2>7. \A g \in 1..shm.h0.mx : cleaned[g] = shm.pgno[g]
    BY <2>4, <2>5, <2>6 DEF CleanupHash
  <2>8. DOMAIN cleaned = 1..MaxFrame
    BY DEF CleanupHash
  <2> HIDE DEF cleaned, f
  <2>9. QED
    BY <2>3, <2>4, <2>5, <2>6, <2>7, <2>8
<1>3. CASE Rollback(c)
  <2>1. \/ shm' = [shm EXCEPT !.pgno = shm.pgno]
        \/ shm' = [shm EXCEPT !.pgno = CleanupHash(shm.pgno, shm.h0.mx)]
    BY <1>3, Zenon DEF Rollback
  <2>2. shm'.pgno = shm.pgno \/ shm'.pgno = CleanupHash(shm.pgno, shm.h0.mx)
    BY <2>1 DEF ShmShape
  <2>3. QED
    BY <2>2 DEF CleanupHash
<1>4. QED
  BY <1>1, <1>2, <1>3

\* And so do the entries of a reader's frames in the index.
LEMMA EntriesStay ==
  ASSUME NEW c \in Conn, NEW d \in Conn, c # d, IInv, Fits, Snap(c), LocksMark(d),
         Step(c) \/ Call(c) \/ Fault(c)
  PROVE  \A f \in 1..shm.h0.mx : shm'.pgno[f] = shm.pgno[f]
BY MarkBars, EntriesKept

\* What a reader may do next.
LEMMA ReaderActs ==
  ASSUME NEW c \in Conn, cn[c].pc \in Reading, Step(c) \/ Call(c) \/ Fault(c)
  PROVE  EndRead(c) \/ BeginWrite(c) \/ CheckWrite(c) \/ Die(c)
<1>1. cn[c].pc = "read" \/ cn[c].pc = "wchk"
  BY DEF Reading
<1>2. CASE Fault(c)
  BY <1>1, <1>2 DEF Fault, FailWrite, FailCopy, At
<1>3. CASE Call(c)
  BY <1>1, <1>3 DEF Call, Open, Close, BeginRead, Commit, Rollback, Update, Spill, WalFrames,
     Checkpoint, At
<1>4. CASE Step(c)
  <2>1. CASE \/ TryHdr(c) \/ LockHdr(c) \/ TryHdrAgain(c) \/ RecoverLock(c) \/ RecoverScan(c)
             \/ WriteHdr1(c) \/ RecoverHdr0(c) \/ RecoverInfo(c) \/ PickZero(c) \/ CheckZero(c)
             \/ PickMark(c) \/ RaiseMark(c) \/ ShareMark(c) \/ SetMin(c) \/ CheckMark(c)
    BY <1>1, <2>1 DEF TryHdr, LockHdr, TryHdrAgain, RecoverLock, RecoverScan, WriteHdr1,
       RecoverHdr0, RecoverInfo, PickZero, CheckZero, PickMark, RaiseMark, ShareMark, SetMin,
       CheckMark, At
  <2>2. CASE \/ Restart(c) \/ RestartHdr0(c) \/ RestartInfo(c) \/ UnlockZero(c)
             \/ WriteWalHdr(c) \/ WriteFrame(c) \/ RewriteChecksums(c) \/ AppendIndex(c)
             \/ CountFrames(c) \/ CommitHdr0(c) \/ EndWrite(c)
    BY <1>1, <2>2 DEF Restart, RestartHdr0, RestartInfo, UnlockZero, WriteWalHdr, WriteFrame,
       RewriteChecksums, AppendIndex, CountFrames, CommitHdr0, EndWrite, At
  <2>3. CASE \/ LockWriter(c) \/ StartCheckpoint(c) \/ MoveMark(c) \/ StartIterator(c)
             \/ LockDb(c) \/ CopyPage(c) \/ FinishCopy(c) \/ EndMode(c) \/ TruncateLog(c)
             \/ EndCheckpoint(c) \/ DeleteLog(c)
    BY <1>1, <2>3 DEF LockWriter, StartCheckpoint, MoveMark, StartIterator, LockDb, CopyPage,
       FinishCopy, EndMode, TruncateLog, EndCheckpoint, DeleteLog, At
  <2>4. QED
    BY <1>4, <2>1, <2>2, <2>3, Zenon DEF Step
<1>5. QED
  BY <1>2, <1>3, <1>4

\* What a reader itself does leaves all that alone.
LEMMA ReaderQuiet ==
  ASSUME NEW c \in Conn, cn[c].pc \in Reading, Step(c) \/ Call(c) \/ Fault(c)
  PROVE  UNCHANGED <<files, shm>>
<1>1. EndRead(c) \/ BeginWrite(c) \/ CheckWrite(c) \/ Die(c)
  BY ReaderActs
<1>2. QED
  BY <1>1, Zenon DEF EndRead, BeginWrite, CheckWrite, Die

\* It is said of every connection.
SnapInv == \A c \in Conn : Snap(c)

\* What one step of another connection leaves a reader.
LEMMA ReadStays ==
  ASSUME NEW c \in Conn, NEW d \in Conn, IInv, Fits, SnapInv, cn[d].pc \in Reading,
         Step(c) \/ Call(c) \/ Fault(c)
  PROVE  IF READ(0) \in held[d].shared
         THEN db' = db
         ELSE \A f \in 1..cn[d].hdr.mx :
                 wal'.frames[f] = wal.frames[f] /\ shm'.pgno[f] = shm.pgno[f]
<1>1. CASE c = d
  BY <1>1, ReaderQuiet DEF files
<1>2. CASE c # d /\ READ(0) \in held[d].shared
  <2>1. ~CopyPage(c)
    <3>1. cn[c].pc = "kcopy" => READ(0) \in held[c].excl
      BY DEF SnapInv, Snap, Pinned
    <3>2. QED
      BY <1>2, <3>1 DEF CopyPage, At, IInv, LocksApart
  <2>2. QED
    BY <1>2, <2>1, Touches DEF IInv
<1>3. CASE c # d /\ ~(READ(0) \in held[d].shared)
  <2>1. LocksMark(d) /\ cn[d].hdr.mx <= shm.h0.mx
    BY <1>3 DEF SnapInv, Snap, Pinned, Placed, Reading
  <2>2. \A f \in 1..shm.h0.mx : wal'.frames[f] = wal.frames[f] /\ shm'.pgno[f] = shm.pgno[f]
    BY <1>3, <2>1, FramesStay, EntriesStay DEF SnapInv
  <2>3. cn[d].hdr.mx \in Nat /\ shm.h0.mx \in Nat
    BY LogRoom DEF Fits, RecFits, IndexFits, HdrFits
  <2>4. QED
    BY <1>3, <2>1, <2>2, <2>3
<1>4. QED
  BY <1>1, <1>2, <1>3

\* It is kept by every step.
LEMMA SnapNext ==
  ASSUME IInv, Fits, SnapInv, [Next]_vars
  PROVE  SnapInv'
<1>1. CASE UNCHANGED vars
  BY <1>1 DEF vars, SnapInv, Snap, Pinned, Placed, Ahead, Has, LocksMark
<1>2. ASSUME NEW c \in Conn, Step(c) \/ Call(c) \/ Fault(c)
      PROVE  SnapInv'
  <2>1. Snap(c)'
    BY <1>2, SnapOwn DEF SnapInv
  <2>2. \A d \in Conn : c # d => Snap(d)'
    BY <1>2, SnapOthers DEF SnapInv
  <2>3. QED
    BY <2>1, <2>2 DEF SnapInv
<1>3. QED
  BY <1>1, <1>2 DEF Next

\* And holds at the start, where nobody reads.
LEMMA SnapStart == Init => SnapInv
BY DEF Init, Fresh, NoWrite, SnapInv, Snap, Pinned, Placed, Ahead, Has, Reading, Writes, Picking

\* ReadsStay for every number of connections, pages, marks and transactions, whoever
\* dies and whatever writes fail: the frames of a reader's snapshot and their entries in
\* the index, or the database file if it reads nothing else, stay as they are for as long
\* as its transaction is open, whoever appends, rolls back, restarts, truncates, recovers
\* or checkpoints.
THEOREM ReadsStayHolds == Spec => ReadsStay
<1> DEFINE Stays ==
      \A c \in Conn :
          (cn[c].pc \in Reading /\ cn'[c].pc \in Reading)
              => IF READ(0) \in held[c].shared
                 THEN db' = db
                 ELSE \A f \in 1..cn[c].hdr.mx :
                          wal'.frames[f] = wal.frames[f] /\ shm'.pgno[f] = shm.pgno[f]
<1>1. IInv /\ HeldFits /\ Fits /\ SnapInv /\ [Next]_vars => SnapInv' /\ [Stays]_vars
  <2> SUFFICES ASSUME IInv, Fits, SnapInv, [Next]_vars PROVE SnapInv' /\ [Stays]_vars
    OBVIOUS
  <2>1. SnapInv'
    BY SnapNext
  <2>2. [Stays]_vars
    <3>1. SUFFICES ASSUME NEW c \in Conn, Step(c) \/ Call(c) \/ Fault(c) PROVE Stays
      BY DEF Next
    <3>2. QED
      BY <3>1, ReadStays
  <2>3. QED
    BY <2>1, <2>2
<1>2. QED
  BY <1>1, SnapStart, LocksAreOwned, FitsHolds, PTL DEF Spec, ReadsStay

-----------------------------------------------------------------------------
(* What an open read transaction would read stays the same.  That its      *)
(* frames stay is not enough: a checkpoint writes the database file under  *)
(* it.                                                                     *)

\* The marks c shares.
SharedMarks(c) == {i \in 1..NReader - 1 : READ(i) \in held[c].shared}

\* The locations of those who have a mark for good.
Sharing == Reading \cup {"write", "whdr", "wframe", "wreck", "windex", "wh1", "wh0", "wend"}

\* The end of what the mark of c must not be past.
Bound(c) == IF cn[c].pc \in Reading THEN cn[c].hdr.mx ELSE shm.h0.mx

\* A reader looks for pages from a frame on that is not past the first one not copied.
Low(c) == 1 <= cn[c].min /\ cn[c].min <= shm.nBackfill + 1

\* Who chooses a mark has found one that is not past its snapshot.
Chosen(c) ==
    /\ cn[c].pc \in {"excl", "share", "min", "chk"} => cn[c].mxMark \in Nat /\ cn[c].mxMark <= cn[c].hdr.mx
    /\ cn[c].pc \in {"min", "chk"} => \A i \in SharedMarks(c) : i = cn[c].mxI
    /\ cn[c].pc = "chk" => Low(c)

\* Who has a mark for good finds it not past its end, and looks from the right frame on.
Bounded(c) ==
    /\ cn[c].pc \in Sharing => \A i \in SharedMarks(c) : shm.mark[i] <= Bound(c) /\ Low(c)
    /\ cn[c].pc = "wend" => cn[c].hdr = shm.h0

\* What a checkpoint has to do.
Todo(c) ==
    /\ cn[c].pc # "kmark" => cn[c].k.i = 1
    /\ cn[c].pc \in {"kread0", "kcopy"} =>
          /\ shm.nBackfill < cn[c].k.safe
          /\ cn[c].k.todo \in [Page -> 0..MaxFrame]
          /\ \A p \in Page : \/ cn[c].k.todo[p] = 0
                             \/ cn[c].pc = "kread0" /\ cn[c].k.safe < cn[c].k.todo[p]
                             \/ cn[c].k.todo[p] <= cn[c].k.safe /\ shm.pgno[cn[c].k.todo[p]] = p
    /\ cn[c].pc = "kcopy" =>
          \A p \in Page : cn[c].k.todo[p] = 0 \/ shm.nBackfill < cn[c].k.todo[p]

\* The locations of a checkpoint that has its safe frame.
Copying == {"kmark", "kiter", "kread0", "kcopy"}

\* The checkpoint of c goes no further than the snapshot of d, or will not.
Respects(c, d) ==
    cn[c].pc \in Copying /\ cn[d].pc \in Reading =>
        \A i \in SharedMarks(d) : \/ cn[c].pc = "kmark" /\ cn[c].k.i <= i
                             \/ cn[c].k.safe <= cn[d].hdr.mx

\* All that, of every connection.
ViewInv == /\ \A c \in Conn : Chosen(c) /\ Bounded(c) /\ Todo(c)
           /\ \A c, d \in Conn : c # d => Respects(c, d)

\* The last of a set of numbers is not before any of them.
LEMMA LastIsLast ==
  ASSUME NEW n \in Nat, NEW T \in SUBSET (0..n), NEW x \in T
  PROVE  x <= LastOr0(T)
<1> DEFINE U == {m \in 0..n : \A y \in T \cup {0} : y <= m}
<1>1. U \in SUBSET Nat /\ U # {}
  <2>1. n \in U
    OBVIOUS
  <2>2. QED
    BY <2>1
<1>2. PICK m \in U : \A y \in U : m <= y
  BY <1>1, Smallest
<1>3. m \in T \cup {0}
  <2>1. SUFFICES ASSUME m \notin T \cup {0} PROVE FALSE
    OBVIOUS
  <2>2. m \in 1..n /\ \A y \in T \cup {0} : y <= m - 1
    BY <1>2, <2>1
  <2>3. m - 1 \in U
    BY <2>2
  <2>4. QED
    BY <1>2, <2>2, <2>3
<1>4. T \cup {0} \in SUBSET Nat /\ \E y \in T \cup {0} : \A z \in T \cup {0} : y >= z
  BY <1>2, <1>3
<1>5. QED
  BY <1>4 DEF LastOr0, Largest

\* What FindFrame finds is a frame of the page, and none if there is none.
LEMMA FoundFrame ==
  ASSUME NEW p \in Page, NEW lo \in Nat, NEW hi \in Nat
  PROVE  /\ FindFrame(p, lo, hi) = 0
            \/ (FindFrame(p, lo, hi) \in lo..hi /\ shm.pgno[FindFrame(p, lo, hi)] = p)
         /\ \A f \in lo..hi : shm.pgno[f] = p => f <= FindFrame(p, lo, hi)
<1> DEFINE T == {f \in lo..hi : shm.pgno[f] = p}
<1>1. T \in SUBSET (0..hi) /\ FindFrame(p, lo, hi) = LastOr0(T)
  BY DEF FindFrame
<1>2. LastOr0(T) \in T \cup {0}
  BY <1>1, LastUpTo, Zenon
<1>3. \A f \in T : f <= LastOr0(T)
  BY <1>1, LastIsLast
<1>4. QED
  BY <1>1, <1>2, <1>3

\* Who copies pages keeps the index from being made anew.
LEMMA CopierBars ==
  ASSUME NEW c \in Conn, NEW e \in Conn, c # e, IInv, cn[c].pc \in {"kread0", "kcopy"}
  PROVE  /\ cn[e].pc \notin {"rscan", "kcopy", "delete"}
         /\ Open(e) => shm' = shm
<1> OwnsOf(c) /\ OwnsOf(e) /\ LocksApart /\ Alone
  BY DEF IInv, Owns
<1>1. cn[c].k.mode # None /\ (cn[c].k.mode # "CLOSE" => CKPT \in held[c].excl)
  BY NoMode DEF OwnsOf, Locks
<1>2. CASE cn[c].k.mode = "CLOSE"
  <2>1. cn[e].pc = "closed"
    BY <1>2 DEF Alone, Exclusive
  <2>2. QED
    BY <1>2, <2>1 DEF Open, Exclusive
<1>3. CASE cn[c].k.mode # "CLOSE"
  <2>1. CKPT \notin held[e].excl
    BY <1>1, <1>3 DEF LocksApart
  <2>2. Open(e) => shm' = shm
    BY DEF Open, Attached
  <2>3. cn[e].k.mode = "CLOSE" => cn[c].pc = "closed"
    BY DEF Alone, Exclusive
  <2>4. cn[e].k.mode # "CLOSE"
    BY <2>3
  <2>5. QED
    BY <2>1, <2>2, <2>4, NoMode DEF OwnsOf, Locks
<1>4. QED
  BY <1>2, <1>3

\* Steps of a reader in which it goes on reading.
LEMMA ReaderReads ==
  ASSUME NEW c \in Conn, IInv, cn[c].pc \in Reading, cn'[c].pc \in Reading,
         Step(c) \/ Call(c) \/ Fault(c)
  PROVE  /\ cn'[c].hdr = cn[c].hdr /\ cn'[c].min = cn[c].min
         /\ held'[c].shared = held[c].shared
<1> CnRec(cn[c]) /\ DOMAIN cn = Conn /\ HeldShape
  BY DEF IInv, CnShape
<1>1. EndRead(c) \/ BeginWrite(c) \/ CheckWrite(c) \/ Die(c)
  BY ReaderActs
<1>2. ~EndRead(c) /\ ~Die(c)
  BY DEF EndRead, Die, Fresh, CnRec, Reading
<1>3. CASE BeginWrite(c)
  BY <1>3 DEF BeginWrite, Goto, LockX, CnRec, HeldShape
<1>4. CASE CheckWrite(c)
  <2>1. held'[c].shared = held[c].shared
    BY <1>4 DEF CheckWrite, FreeX, HeldShape
  <2>2. cn'[c].hdr = cn[c].hdr /\ cn'[c].min = cn[c].min
    BY <1>4 DEF CheckWrite, Goto, CnRec
  <2>3. QED
    BY <2>1, <2>2
<1>5. QED
  BY <1>1, <1>2, <1>3, <1>4

\* What an open read transaction would read of a page stays the same.
LEMMA ViewStep ==
  ASSUME NEW c \in Conn, NEW d \in Conn, IInv, Fits, SnapInv, ViewInv,
         cn[d].pc \in Reading, cn'[d].pc \in Reading, Step(c) \/ Call(c) \/ Fault(c)
  PROVE  ViewImage(d)' = ViewImage(d)
<1>1. CASE c = d
  <2>1. UNCHANGED <<files, shm>>
    BY <1>1, ReaderQuiet
  <2>2. cn'[d].hdr = cn[d].hdr /\ cn'[d].min = cn[d].min /\ held'[d].shared = held[d].shared
    BY <1>1, ReaderReads
  <2>3. \A p \in Page : View(d, p)' = View(d, p)
    BY <2>1, <2>2 DEF View, ReadPage, FindFrame, files
  <2>4. QED
    BY <2>3 DEF ViewImage
<1>2. CASE c # d
  <2>0. cn'[d] = cn[d] /\ held'[d] = held[d]
    BY <1>2, Others
  <2>1. IF READ(0) \in held[d].shared
        THEN db' = db
        ELSE \A f \in 1..cn[d].hdr.mx :
                wal'.frames[f] = wal.frames[f] /\ shm'.pgno[f] = shm.pgno[f]
    BY ReadStays
  <2>2. CASE READ(0) \in held[d].shared
    BY <2>0, <2>1, <2>2 DEF ViewImage, View
  <2>3. CASE ~(READ(0) \in held[d].shared)
    <3>1. cn[d].hdr.mx \in Nat /\ cn[d].min \in Nat /\ shm.nBackfill \in Nat
      BY LogRoom DEF Fits, RecFits, HdrFits, IndexFits
    <3>2. LocksMark(d)
      BY <2>3 DEF SnapInv, Snap, Pinned, Reading
    <3>3. PICK i \in SharedMarks(d) : TRUE
      BY <3>2 DEF LocksMark, SharedMarks
    <3>4. Low(d)
      BY <3>3 DEF ViewInv, Bounded, Sharing
    <3>5. ASSUME NEW p \in Page, db'[p] # db[p]
          PROVE  cn[d].hdr.mx # 0 /\ FindFrame(p, cn[d].min, cn[d].hdr.mx) # 0
      <4> DEFINE g == cn[c].k.todo[p]
      <4>1. CopyPage(c)
        BY <3>5, Touches DEF IInv
      <4>2. cn[c].pc = "kcopy" /\ g > 0
        <5>1. PICK q \in Page : cn[c].k.todo[q] > 0 /\ db' = [db EXCEPT ![q] = wal.frames[cn[c].k.todo[q]].val]
          BY <4>1 DEF CopyPage
        <5>2. q = p
          BY <3>5, <5>1
        <5>3. QED
          BY <4>1, <5>1, <5>2 DEF CopyPage, At
      <4>3. Todo(c) /\ Respects(c, d)
        BY <1>2 DEF ViewInv
      <4>4. g \in 0..MaxFrame /\ g <= cn[c].k.safe /\ shm.pgno[g] = p /\ shm.nBackfill < g
        BY <4>2, <4>3 DEF Todo
      <4>5. cn[c].k.safe <= cn[d].hdr.mx /\ cn[c].k.safe \in Nat
        BY <3>3, <4>2, <4>3, LogRoom DEF Respects, Copying, Fits, RecFits
      <4> HIDE DEF g
      <4>6. g \in cn[d].min..cn[d].hdr.mx
        BY <3>1, <3>4, <4>4, <4>5 DEF Low
      <4>7. g <= FindFrame(p, cn[d].min, cn[d].hdr.mx)
        BY <3>1, <4>4, <4>6, FoundFrame
      <4>8. FindFrame(p, cn[d].min, cn[d].hdr.mx) \in Nat
        BY <3>1, Found
      <4>9. QED
        BY <3>1, <4>2, <4>4, <4>6, <4>7, <4>8
    <3>6. ASSUME NEW p \in Page
          PROVE  View(d, p)' = View(d, p)
      <4> DEFINE f == FindFrame(p, cn[d].min, cn[d].hdr.mx)
      <4>1. \A x \in cn[d].min..cn[d].hdr.mx : x \in 1..cn[d].hdr.mx
        BY <3>1, <3>4 DEF Low
      <4>2. {x \in cn'[d].min..cn'[d].hdr.mx : shm'.pgno[x] = p}
              = {x \in cn[d].min..cn[d].hdr.mx : shm.pgno[x] = p}
        BY <2>0, <2>1, <2>3, <4>1
      <4>3. FindFrame(p, cn[d].min, cn[d].hdr.mx)' = f
        BY <4>2 DEF FindFrame
      <4>4. f = 0 \/ f \in 1..cn[d].hdr.mx
        BY <3>1, <4>1, FoundFrame
      <4>5. f # 0 => wal'.frames[f] = wal.frames[f]
        BY <2>1, <2>3, <4>4
      <4>6. db'[p] = db[p] \/ (cn[d].hdr.mx # 0 /\ f # 0)
        BY <3>5
      <4> HIDE DEF f
      <4>7. View(d, p)' = IF cn[d].hdr.mx = 0 THEN db'[p]
                          ELSE IF f = 0 THEN db'[p] ELSE wal'.frames[f].val
        BY <2>0, <2>3, <4>3 DEF View, ReadPage, f
      <4>8. View(d, p) = IF cn[d].hdr.mx = 0 THEN db[p]
                          ELSE IF f = 0 THEN db[p] ELSE wal.frames[f].val
        BY <2>3 DEF View, ReadPage, f
      <4>9. QED
        BY <4>5, <4>6, <4>7, <4>8
    <3>7. QED
      BY <3>6 DEF ViewImage
  <2>4. QED
    BY <2>2, <2>3
<1>3. QED
  BY <1>1, <1>2

-----------------------------------------------------------------------------
(* ViewInv is kept.                                                        *)

\* What is said of c alone, and what a step of c has to establish.
Viewing(c) == Chosen(c) /\ Bounded(c) /\ Todo(c)
Done(c) ==
    /\ Viewing(c)'
    /\ \A d \in Conn \ {c} : Respects(c, d)' /\ Respects(d, c)'

\* The locations where nothing is said but that no mark is being looked at.
Apart == {"closed", "idle", "header", "hdrlock", "hdrtry", "recover", "rscan", "rh1", "rh0", "rinfo",
          "pick0", "chk0", "pick", "restart", "unl0", "sh1", "sh0", "sinfo",
          "kwlock", "kstart", "kmode", "kfin", "ktrunc", "delete"}

\* There only the checkpoint's next mark counts.
LEMMA DoneApart ==
  ASSUME NEW c \in Conn, cn'[c].pc \in Apart, cn'[c].k.i = 1
  PROVE  Done(c)
<1>1. /\ cn'[c].pc \notin Sharing \cup Copying /\ cn'[c].pc \notin Reading
      /\ cn'[c].pc \notin {"excl", "share", "min", "chk", "kmark", "kread0", "kcopy", "wend"}
  BY DEF Apart, Sharing, Reading, Copying
<1>2. Chosen(c)' /\ Bounded(c)'
  BY <1>1 DEF Chosen, Bounded
<1>3. Todo(c)'
  BY <1>1 DEF Todo
<1>4. QED
  BY <1>1, <1>2, <1>3 DEF Done, Viewing, Respects

\* Steps between them.
LEMMA ViewHeader ==
  ASSUME NEW c \in Conn, IInv, Viewing(c),
         \/ TryHdr(c) \/ LockHdr(c) \/ TryHdrAgain(c) \/ RecoverLock(c) \/ RecoverScan(c)
         \/ RecoverHdr0(c) \/ RecoverInfo(c)
  PROVE  Done(c)
<1> CnShape /\ CnRec(cn[c])
  BY DEF IInv, CnShape
<1>1. cn[c].pc \in {"header", "hdrlock", "hdrtry", "recover", "rscan", "rh0", "rinfo"}
  BY DEF TryHdr, LockHdr, TryHdrAgain, RecoverLock, RecoverScan, RecoverHdr0, RecoverInfo, At
<1>2. cn[c].k.i = 1
  BY <1>1 DEF Viewing, Todo
<1>3. CASE \E me : /\ me = cn[c] \/ me = [cn[c] EXCEPT !.chg = TRUE]
                   /\ cn' = [cn EXCEPT ![c] = BusyHdr(c, me)]
  <2>1. PICK me : /\ me = cn[c] \/ me = [cn[c] EXCEPT !.chg = TRUE]
                  /\ cn' = [cn EXCEPT ![c] = BusyHdr(c, me)]
    BY <1>3
  <2>2. CnRec(me) /\ me.k = cn[c].k
    BY <2>1 DEF CnRec
  <2>3. cn'[c] = BusyHdr(c, me)
    BY <2>1 DEF CnShape
  <2>4. cn'[c].k.i = 1 /\ cn'[c].pc \in Apart
    BY <1>2, <2>2, <2>3, BusyRec DEF Apart
  <2>5. QED
    BY <2>4, DoneApart
<1>4. CASE cn' = [cn EXCEPT ![c] = AcceptHdr(c, cn[c])]
  <2>1. cn'[c].k = cn[c].k /\ cn'[c].pc \in Apart
    BY <1>4 DEF AcceptHdr, CnShape, CnRec, Apart
  <2>2. QED
    BY <1>2, <2>1, DoneApart
<1>5. CASE \E l \in {"hdrlock", "hdrtry", "recover", "rscan", "rinfo", "kstart", "pick0"} :
              cn' = [cn EXCEPT ![c].pc = l]
  <2>1. cn'[c].k = cn[c].k /\ cn'[c].pc \in Apart
    BY <1>5 DEF CnShape, CnRec, Apart
  <2>2. QED
    BY <1>2, <2>1, DoneApart
<1>6. CASE RecoverScan(c)
  <2>1. cn'[c].k = cn[c].k /\ cn'[c].pc \in Apart
    BY <1>6 DEF RecoverScan, CnShape, CnRec, Apart
  <2>2. QED
    BY <1>2, <2>1, DoneApart
<1>7. QED
  <2>1. CASE TryHdr(c)
    BY <1>4, <1>5, <2>1 DEF TryHdr, CnShape
  <2>2. CASE LockHdr(c)
    BY <1>3, <1>5, <2>2 DEF LockHdr, Goto
  <2>3. CASE TryHdrAgain(c)
    BY <1>4, <1>5, <2>3 DEF TryHdrAgain, Goto
  <2>4. CASE RecoverLock(c)
    BY <1>3, <1>5, <2>4 DEF RecoverLock, Goto
  <2>5. CASE RecoverHdr0(c) \/ RecoverInfo(c)
    BY <1>5, <2>5 DEF RecoverHdr0, RecoverInfo, Goto
  <2>6. QED
    BY <1>6, <2>1, <2>2, <2>3, <2>4, <2>5

\* Restarts of the log, the ends of a checkpoint, coming and going.
LEMMA ViewAway ==
  ASSUME NEW c \in Conn, IInv, Viewing(c),
         \/ PickZero(c) \/ UnlockZero(c) \/ Restart(c) \/ RestartHdr0(c) \/ RestartInfo(c)
         \/ LockWriter(c) \/ FinishCopy(c) \/ EndMode(c) \/ TruncateLog(c) \/ EndCheckpoint(c)
         \/ DeleteLog(c) \/ Open(c) \/ Close(c) \/ BeginRead(c) \/ EndRead(c)
         \/ (\E m : Checkpoint(c, m)) \/ FailCopy(c) \/ Die(c)
         \/ (WriteHdr1(c) /\ cn[c].pc # "wh1")
  PROVE  Done(c)
<1> CnShape /\ CnRec(cn[c]) /\ DOMAIN cn = Conn
  BY DEF IInv, CnShape
<1>1. CASE cn'[c] = Fresh("closed") \/ cn'[c] = Fresh("idle")
  BY <1>1, DoneApart DEF Fresh, NoCkpt, Apart
<1>2. CASE cn[c].pc # "kmark" /\ cn'[c].k.i = cn[c].k.i /\ cn'[c].pc \in Apart
  BY <1>2, DoneApart DEF Viewing, Todo
<1>3. CASE \E l \in Apart : Goto(c, l) /\ cn[c].pc # "kmark"
  BY <1>2, <1>3, Onward
<1>4. CASE \/ PickZero(c) \/ UnlockZero(c) \/ Restart(c) \/ RestartHdr0(c) \/ RestartInfo(c)
           \/ EndMode(c) \/ TruncateLog(c) \/ (WriteHdr1(c) /\ cn[c].pc # "wh1")
  <2>1. cn[c].pc # "kmark"
    BY <1>4, Zenon DEF PickZero, UnlockZero, Restart, RestartHdr0, RestartInfo, EndMode, TruncateLog,
       WriteHdr1, At
  <2>2. \/ \E l \in Apart : Goto(c, l)
        \/ cn' = [cn EXCEPT ![c] = RestartHdr(cn[c])]
    <3>1. CASE PickZero(c) \/ UnlockZero(c) \/ RestartHdr0(c) \/ RestartInfo(c) \/ TruncateLog(c)
      BY <3>1 DEF PickZero, UnlockZero, RestartHdr0, RestartInfo, TruncateLog, Apart
    <3>2. CASE Restart(c) \/ EndMode(c)
      BY <3>2 DEF Restart, EndMode, Apart
    <3>3. CASE WriteHdr1(c) /\ cn[c].pc # "wh1"
      BY <3>3 DEF WriteHdr1, At, Apart
    <3>4. QED
      BY <1>4, <3>1, <3>2, <3>3
  <2>3. CASE cn' = [cn EXCEPT ![c] = RestartHdr(cn[c])]
    <3>1. cn'[c].k = cn[c].k /\ cn'[c].pc = "sh1"
      BY <2>3 DEF RestartHdr, CnRec
    <3>2. QED
      BY <1>2, <2>1, <3>1 DEF Apart
  <2>4. QED
    BY <1>3, <2>1, <2>2, <2>3
<1>5. CASE LockWriter(c) \/ BeginRead(c) \/ EndRead(c) \/ FinishCopy(c) \/ FailCopy(c)
  <2>1. AfterCopy(c) \in {"kmode", "kfin"}
    BY DEF AfterCopy
  <2>2. cn[c].pc # "kmark"
    BY <1>5, Zenon DEF LockWriter, BeginRead, EndRead, FinishCopy, FailCopy, At
  <2>3. cn'[c].k.i = cn[c].k.i /\ cn'[c].pc \in {"header", "idle", "kfin", "kmode"}
    <3>1. CASE LockWriter(c)
      BY <3>1 DEF LockWriter, Goto, CnRec
    <3>2. CASE BeginRead(c)
      BY <3>2 DEF BeginRead, CnRec
    <3>3. CASE EndRead(c)
      BY <3>3 DEF EndRead, CnRec
    <3>4. CASE FinishCopy(c)
      BY <2>1, <3>4 DEF FinishCopy, CnRec
    <3>5. CASE FailCopy(c)
      BY <3>5 DEF FailCopy, CnRec
    <3>6. QED
      BY <1>5, <3>1, <3>2, <3>3, <3>4, <3>5
  <2>4. QED
    BY <1>2, <2>2, <2>3 DEF Apart
<1>6. CASE Open(c) \/ Close(c) \/ Die(c) \/ DeleteLog(c)
  <2>1. CASE cn' = [cn EXCEPT ![c] = Fresh("closed")] \/ cn' = [cn EXCEPT ![c] = Fresh("idle")]
    BY <1>1, <2>1
  <2>2. CASE Close(c) /\ ~ \E d \in Conn \ {c} : Attached(d)
    <3>1. cn[c].pc = "idle" /\ cn' = [cn EXCEPT ![c].pc = "header", ![c].k.mode = "CLOSE"]
      BY <2>2 DEF Close, At
    <3>2. cn'[c].pc = "header" /\ cn'[c].k.i = cn[c].k.i
      BY <3>1 DEF CnRec
    <3>3. QED
      BY <1>2, <3>1, <3>2 DEF Apart
  <2>3. QED
    BY <1>6, <2>1, <2>2, Zenon DEF Open, Close, Die, DeleteLog
<1>7. CASE EndCheckpoint(c)
  <2>1. cn[c].pc = "kfin"
    BY <1>7 DEF EndCheckpoint, At
  <2>2. \/ cn'[c] = Fresh("closed")
        \/ cn'[c].pc = "delete" /\ cn'[c].k = cn[c].k
        \/ cn'[c].pc = "idle" /\ cn'[c].k = NoCkpt
    BY <1>7 DEF EndCheckpoint, CnRec
  <2>3. NoCkpt.i = 1
    BY DEF NoCkpt
  <2>4. QED
    BY <1>1, <1>2, <2>1, <2>2, <2>3, DoneApart DEF Apart
<1>8. CASE \E m : Checkpoint(c, m)
  <2>1. PICK m, l : /\ cn[c].pc = "idle"
                    /\ cn' = [cn EXCEPT ![c].k.mode = m, ![c].pc = l]
                    /\ l = "header" \/ l = "kwlock"
    BY <1>8 DEF Checkpoint, At
  <2>2. cn'[c].k.i = cn[c].k.i /\ cn'[c].pc = l
    BY <2>1 DEF CnRec
  <2>3. QED
    BY <1>2, <2>1, <2>2 DEF Apart
<1>9. QED
  BY <1>4, <1>5, <1>6, <1>7, <1>8

\* Steps within the choice of a mark.
LEMMA DonePick ==
  ASSUME NEW c \in Conn, Viewing(c), cn[c].pc # "kmark", cn'[c].k = cn[c].k,
         \/ cn'[c].pc \in {"excl", "share", "min", "chk"} /\ Chosen(c)'
         \/ cn'[c].pc \in Apart
  PROVE  Done(c)
<1>1. cn'[c].k.i = 1
  BY DEF Viewing, Todo
<1>2. CASE cn'[c].pc \in {"excl", "share", "min", "chk"} /\ Chosen(c)'
  <2>1. Bounded(c)' /\ Todo(c)'
    BY <1>1, <1>2 DEF Bounded, Todo, Sharing, Reading
  <2>2. cn'[c].pc \notin Copying \cup Reading
    BY <1>2 DEF Copying, Reading
  <2>3. QED
    BY <1>2, <2>1, <2>2 DEF Done, Viewing, Respects
<1>3. QED
  BY <1>1, <1>2, DoneApart

\* A begin that starts again.
LEMMA RetryRec ==
  ASSUME NEW c \in Conn, IInv, Viewing(c), cn[c].pc # "kmark", cn' = [cn EXCEPT ![c] = Retry(c, cn[c])]
  PROVE  Done(c)
<1>1. cn'[c].k = cn[c].k /\ cn'[c].pc \in Apart
  BY DEF Retry, IInv, CnShape, CnRec, Apart
<1>2. QED
  BY <1>1, DonePick

\* The choice of a mark, up to the moment the reader knows where to look from.
LEMMA ViewPick ==
  ASSUME NEW c \in Conn, IInv, Fits, Snap(c), Viewing(c),
         PickMark(c) \/ RaiseMark(c) \/ ShareMark(c) \/ SetMin(c)
  PROVE  Done(c)
<1> /\ OwnsOf(c) /\ IndexFits /\ CnShape /\ HeldShape /\ CnRec(cn[c]) /\ ShmShape /\ DOMAIN cn = Conn
    /\ cn[c].hdr.mx \in Nat /\ shm.nBackfill \in Nat
  BY LogRoom DEF IInv, Owns, Fits, CnShape, IndexFits, RecFits, HdrFits
<1>0. cn[c].pc # "kmark" /\ Chosen(c)
  BY Zenon DEF PickMark, RaiseMark, ShareMark, SetMin, At, Viewing
<1>1. CASE PickMark(c)
  <2>1. PICK i, m, l : /\ cn' = [cn EXCEPT ![c].mxI = i, ![c].mxMark = m, ![c].pc = l]
                       /\ m = 0 \/ (Eligible(c) # {} /\ m = shm.mark[BestMark(c)])
                       /\ l = "excl" \/ l = "share"
    BY <1>1 DEF PickMark
  <2>2. m \in Nat /\ m <= cn[c].hdr.mx
    <3>1. m = 0 \/ (Eligible(c) # {} /\ m = shm.mark[BestMark(c)])
      BY <2>1, Zenon
    <3>2. ASSUME Eligible(c) # {}
          PROVE  shm.mark[BestMark(c)] \in Nat /\ shm.mark[BestMark(c)] <= cn[c].hdr.mx
      <4> DEFINE i0 == BestMark(c)
      <4>1. i0 \in Eligible(c) /\ i0 \in 1..NReader - 1
        BY <3>2, BestIn
      <4> HIDE DEF i0
      <4>2. shm.mark[i0] <= cn[c].hdr.mx
        BY <4>1 DEF Eligible
      <4>3. shm.mark[i0] \in 0..NotUsed
        BY <4>1 DEF IndexFits
      <4>4. QED
        BY <4>2, <4>3, Rooms DEF NotUsed, i0
    <3>3. 0 \in Nat /\ 0 <= cn[c].hdr.mx
      OBVIOUS
    <3>4. QED
      BY <3>1, <3>2, <3>3, Zenon
  <2>3. /\ cn'[c].hdr = cn[c].hdr /\ cn'[c].k = cn[c].k /\ cn'[c].pc = l /\ cn'[c].mxMark = m
    BY <2>1 DEF CnRec
  <2>4. QED
    BY <1>0, <2>1, <2>2, <2>3, DonePick DEF Chosen
<1>2. CASE RaiseMark(c)
  <2>1. \/ cn' = [cn EXCEPT ![c] = Retry(c, cn[c])]
        \/ cn' = [cn EXCEPT ![c].pc = "share"]
        \/ \E j : cn' = [cn EXCEPT ![c].mxI = j, ![c].mxMark = cn[c].hdr.mx, ![c].pc = "share"]
    BY <1>2, Zenon DEF RaiseMark
  <2>2. cn[c].pc = "excl"
    BY <1>2, Zenon DEF RaiseMark, At
  <2>3. CASE cn' = [cn EXCEPT ![c].pc = "share"]
    <3>1. /\ cn'[c].hdr = cn[c].hdr /\ cn'[c].k = cn[c].k /\ cn'[c].pc = "share"
          /\ cn'[c].mxMark = cn[c].mxMark
      BY <2>3 DEF CnRec
    <3>2. QED
      BY <1>0, <2>2, <3>1, DonePick DEF Chosen
  <2>4. CASE \E j : cn' = [cn EXCEPT ![c].mxI = j, ![c].mxMark = cn[c].hdr.mx, ![c].pc = "share"]
    <3>1. /\ cn'[c].hdr = cn[c].hdr /\ cn'[c].k = cn[c].k /\ cn'[c].pc = "share"
          /\ cn'[c].mxMark = cn[c].hdr.mx
      BY <2>4 DEF CnRec
    <3>2. QED
      BY <1>0, <3>1, DonePick DEF Chosen
  <2>5. QED
    BY <1>0, <2>1, <2>3, <2>4, RetryRec
<1>3. CASE ShareMark(c)
  <2>1. /\ cn[c].pc = "share"
        /\ \/ Goto(c, "min") /\ LockS(c, READ(cn[c].mxI))
           \/ cn' = [cn EXCEPT ![c] = Retry(c, cn[c])]
    BY <1>3 DEF ShareMark, At
  <2>2. CASE Goto(c, "min") /\ LockS(c, READ(cn[c].mxI))
    <3>1. /\ cn'[c].hdr = cn[c].hdr /\ cn'[c].k = cn[c].k /\ cn'[c].pc = "min"
          /\ cn'[c].mxMark = cn[c].mxMark /\ cn'[c].mxI = cn[c].mxI
      BY <2>2 DEF Goto, CnRec
    <3>2. held[c].shared = {}
      BY <2>1 DEF OwnsOf, Locks
    <3>3. held'[c].shared = {READ(cn[c].mxI)} /\ cn[c].mxI \in 1..NReader - 1
      BY <2>1, <2>2, <3>2 DEF LockS, HeldShape, Snap, Pinned
    <3>4. \A i \in SharedMarks(c)' : i = cn[c].mxI
      BY <3>3, WalConstants DEF SharedMarks, READ
    <3>5. QED
      BY <1>0, <2>1, <3>1, <3>4, DonePick DEF Chosen
  <2>3. QED
    BY <1>0, <2>1, <2>2, RetryRec
<1>4. CASE SetMin(c)
  <2>1. /\ cn[c].pc = "min" /\ UNCHANGED <<shm, held>>
        /\ cn'[c].hdr = cn[c].hdr /\ cn'[c].k = cn[c].k /\ cn'[c].mxMark = cn[c].mxMark
        /\ cn'[c].mxI = cn[c].mxI /\ cn'[c].pc = "chk" /\ cn'[c].min = shm.nBackfill + 1
    BY <1>4 DEF SetMin, At, CnRec
  <2>2. Low(c)'
    BY <2>1 DEF Low
  <2>3. \A i \in SharedMarks(c)' : i = cn'[c].mxI
    BY <1>0, <2>1 DEF Chosen, SharedMarks
  <2>4. QED
    BY <1>0, <2>1, <2>2, <2>3, DonePick DEF Chosen
<1>5. QED
  BY <1>1, <1>2, <1>3, <1>4

\* Steps to where c has its mark for good: the mark is bounded, and if c begins to
\* read, no checkpoint is past what it reads.
LEMMA DoneSharing ==
  ASSUME NEW c \in Conn, IInv, CheckpointWithinLog, Step(c) \/ Call(c) \/ Fault(c),
         cn'[c].pc \in Sharing, cn'[c].k.i = 1,
         \A i \in SharedMarks(c)' : shm'.mark[i] <= Bound(c)' /\ Low(c)',
         cn'[c].pc = "wend" => cn'[c].hdr = shm'.h0,
         cn'[c].pc \in Reading =>
             \/ cn'[c].hdr = shm.h0
             \/ SharedMarks(c)' = {}
             \/ /\ cn[c].pc \in Reading /\ cn'[c].hdr = cn[c].hdr
                /\ held'[c].shared = held[c].shared
                /\ \A d \in Conn \ {c} : Respects(d, c)
  PROVE  Done(c)
<1>1. cn'[c].pc \notin {"excl", "share", "min", "chk", "kmark", "kread0", "kcopy"} \cup Copying
  BY DEF Sharing, Reading, Copying
<1>2. Viewing(c)'
  BY <1>1 DEF Viewing, Chosen, Bounded, Todo
<1>3. ASSUME NEW d \in Conn \ {c}, cn'[c].pc \in Reading
      PROVE  Respects(d, c)'
  <2>1. cn'[d] = cn[d]
    BY Others
  <2>2. CASE cn'[c].hdr = shm.h0
    BY <2>1, <2>2 DEF Respects, CheckpointWithinLog
  <2>3. CASE SharedMarks(c)' = {}
    BY <2>3 DEF Respects
  <2>4. CASE /\ cn[c].pc \in Reading /\ cn'[c].hdr = cn[c].hdr
             /\ held'[c].shared = held[c].shared /\ Respects(d, c)
    BY <2>1, <2>4 DEF Respects, SharedMarks
  <2>5. QED
    BY <1>3, <2>2, <2>3, <2>4
<1>4. \A d \in Conn \ {c} : Respects(c, d)' /\ Respects(d, c)'
  BY <1>1, <1>3 DEF Respects
<1>5. QED
  BY <1>2, <1>4 DEF Done

\* The last look at mark and header.
LEMMA ViewCheck ==
  ASSUME NEW c \in Conn, IInv, HeldFits, Fits, Snap(c), Viewing(c), CheckpointWithinLog,
         CheckZero(c) \/ CheckMark(c)
  PROVE  Done(c)
<1> /\ OwnsOf(c) /\ IndexFits /\ CnShape /\ HeldShape /\ CnRec(cn[c]) /\ DOMAIN cn = Conn
  BY DEF IInv, Owns, Fits, CnShape
<1> DEFINE me == [cn[c] EXCEPT !.mxI = 0, !.mxMark = 0]
<1>1. CnRec(me) /\ me.hdr = cn[c].hdr /\ me.k = cn[c].k /\ me.min = cn[c].min
  BY DEF CnRec
<1>2. /\ UNCHANGED shm
      /\ \/ /\ shm.h0 = cn[c].hdr /\ UNCHANGED held
            /\ \/ cn[c].pc = "chk0" /\ cn' = [cn EXCEPT ![c] = OpenTx(c, cn[c], ViewImage(c))]
               \/ /\ cn[c].pc = "chk" /\ shm.mark[cn[c].mxI] = cn[c].mxMark
                  /\ cn' = [cn EXCEPT ![c] = OpenTx(c, me, ViewImage(c))]
         \/ cn' = [cn EXCEPT ![c] = Retry(c, cn[c])]
  BY DEF CheckZero, CheckMark, At
<1> HIDE DEF me
<1>3. cn[c].pc \in {"chk0", "chk"} /\ cn[c].k.i = 1 /\ Chosen(c)
  BY DEF CheckZero, CheckMark, At, Viewing, Todo
<1>4. CASE cn' = [cn EXCEPT ![c] = Retry(c, cn[c])]
  BY <1>3, <1>4, RetryRec
<1>5. ASSUME NEW r, r = cn[c] \/ r = me, cn' = [cn EXCEPT ![c] = OpenTx(c, r, ViewImage(c))],
             shm.h0 = cn[c].hdr, UNCHANGED held,
             cn[c].pc = "chk0" \/ shm.mark[cn[c].mxI] = cn[c].mxMark
      PROVE  Done(c)
  <2>1. CnRec(r) /\ r.hdr = cn[c].hdr /\ r.min = cn[c].min /\ r.k = cn[c].k
    BY <1>1, <1>5
  <2>2. cn'[c] = OpenTx(c, r, ViewImage(c))
    BY <1>5
  <2>3. /\ cn'[c].hdr = cn[c].hdr /\ cn'[c].min = cn[c].min /\ cn'[c].k = cn[c].k
        /\ cn'[c].pc \in {"read", "whdr", "wframe"}
    <3>1. CASE UseWal(c)
      BY <2>1, <2>2, <3>1 DEF OpenTx, CnRec
    <3>2. CASE ~UseWal(c)
      BY <2>1, <2>2, <3>2, OpenRec
    <3>3. QED
      BY <3>1, <3>2
  <2>4. \A i \in SharedMarks(c) : cn[c].pc = "chk" /\ i = cn[c].mxI
    <3>1. ASSUME NEW i \in SharedMarks(c), cn[c].pc = "chk0" PROVE FALSE
      <4>1. READ(0) \in held[c].shared /\ READ(i) \in held[c].shared
        BY <3>1 DEF SharedMarks, Snap, Pinned
      <4>2. READ(0) = READ(i)
        BY <4>1 DEF HeldFits
      <4>3. QED
        BY <4>2, WalConstants DEF SharedMarks, READ
    <3>2. QED
      BY <1>3, <3>1 DEF Chosen
  <2>5. \A i \in SharedMarks(c) : shm.mark[i] <= cn[c].hdr.mx /\ Low(c)
    BY <1>3, <1>5, <2>4 DEF Chosen
  <2>6. SharedMarks(c)' = SharedMarks(c) /\ Low(c)' = Low(c)
    BY <1>2, <1>5, <2>3 DEF SharedMarks, Low
  <2>7. Bound(c)' = cn[c].hdr.mx
    BY <1>2, <1>5, <2>3 DEF Bound
  <2>8. cn'[c].pc \in Sharing /\ cn'[c].pc # "wend"
    BY <2>3 DEF Sharing, Reading
  <2>9. Step(c)
    BY Zenon DEF Step
  <2>10. \A i \in SharedMarks(c)' : shm'.mark[i] <= Bound(c)' /\ Low(c)'
    BY <1>2, <2>5, <2>6, <2>7
  <2>11. QED
    BY <1>3, <1>5, <2>3, <2>8, <2>9, <2>10, DoneSharing
<1>6. QED
  BY <1>2, <1>3, <1>4, <1>5

\* How a reader and a writer get on: what c keeps, and where the end of its snapshot,
\* or of the log, goes.
Onwards(c) ==
    /\ cn'[c].min = cn[c].min /\ cn'[c].k.i = cn[c].k.i
    /\ held'[c].shared = held[c].shared
    /\ \/ /\ cn[c].pc \in Reading /\ cn'[c].pc \in Reading /\ cn'[c].hdr = cn[c].hdr
       \/ /\ cn[c].pc = "wchk" /\ cn[c].hdr = shm.h0 /\ cn'[c].pc = "write" /\ shm'.h0 = shm.h0
       \/ /\ cn[c].pc \in Sharing \ Reading /\ cn'[c].pc \in Sharing \ (Reading \cup {"wend"})
          /\ shm'.h0 = shm.h0
       \/ /\ cn[c].pc = "wh0" /\ cn'[c].pc = "wend" /\ cn'[c].hdr = cn[c].hdr
          /\ shm'.h0 = cn[c].hdr
       \/ /\ cn[c].pc = "wend" /\ cn'[c].pc = "read" /\ cn'[c].hdr = cn[c].hdr
       \/ /\ cn[c].pc = "write" /\ cn'[c].pc = "read" /\ cn'[c].hdr = shm.h0

\* That is enough: the end only grows, and the marks c shares are below it.
LEMMA ViewOnwards ==
  ASSUME NEW c \in Conn, IInv, Fits, SnapInv, ViewInv, CheckpointWithinLog,
         Step(c) \/ Call(c) \/ Fault(c), Onwards(c)
  PROVE  Done(c)
<1> /\ OwnsOf(c) /\ IndexFits /\ RecFits(c) /\ ShmShape /\ Snap(c) /\ Viewing(c)
    /\ \A d \in Conn \ {c} : Respects(d, c)
  BY DEF IInv, Owns, Fits, SnapInv, ViewInv, Viewing
<1>1. cn[c].pc \in Sharing /\ cn'[c].pc \in Sharing
  BY DEF Onwards, Sharing, Reading
<1>2. cn'[c].k.i = 1
  BY <1>1 DEF Onwards, Viewing, Todo, Sharing, Reading
<1>3. SharedMarks(c)' = SharedMarks(c)
  BY DEF Onwards, SharedMarks
<1>4. shm'.nBackfill = shm.nBackfill
  BY <1>1, Touches, Zenon DEF RecoverInfo, RestartInfo, FinishCopy, Open, DeleteLog, At, Sharing, Reading
<1>5. Low(c)' = Low(c)
  BY <1>4 DEF Low, Onwards
<1>6. \A i \in SharedMarks(c) : shm'.mark[i] = shm.mark[i]
  <2>1. StepMarks
    BY Marks
  <2>2. QED
    BY <2>1, <1>3 DEF StepMarks, SharedMarks
<1>7. \A i \in SharedMarks(c) : shm.mark[i] <= Bound(c) /\ Low(c)
  BY <1>1 DEF Viewing, Bounded
<1>8. Bound(c) <= Bound(c)' /\ Bound(c) \in Nat /\ Bound(c)' \in Nat
  <2>1. cn[c].hdr.mx \in Nat /\ shm.h0.mx \in Nat
    BY LogRoom DEF RecFits, HdrFits, IndexFits, Fits
  <2>2. cn[c].pc = "wh0" => shm.h0.mx <= cn[c].hdr.mx
    BY DEF Snap, Placed, Ahead, OwnsOf, Locks, Has, Writes
  <2>3. cn[c].pc = "wend" => cn[c].hdr = shm.h0
    BY DEF Viewing, Bounded
  <2>4. QED
    BY <2>1, <2>2, <2>3 DEF Onwards, Bound, Reading
<1>9. \A i \in SharedMarks(c) : shm.mark[i] \in Nat
  <2>1. \A i \in SharedMarks(c) : shm.mark[i] \in 0..NotUsed
    BY DEF SharedMarks, IndexFits
  <2>2. QED
    BY <2>1, Rooms DEF NotUsed
<1>10. \A i \in SharedMarks(c)' : shm'.mark[i] <= Bound(c)' /\ Low(c)'
  BY <1>3, <1>5, <1>6, <1>7, <1>8, <1>9
<1>11. cn'[c].pc = "wend" => cn'[c].hdr = shm'.h0
  BY DEF Onwards, Reading, Sharing
<1>12. cn'[c].pc \in Reading =>
             \/ cn'[c].hdr = shm.h0
             \/ /\ cn[c].pc \in Reading /\ cn'[c].hdr = cn[c].hdr
                /\ held'[c].shared = held[c].shared
  <2>1. cn[c].pc = "wend" => cn[c].hdr = shm.h0
    BY DEF Viewing, Bounded
  <2>2. QED
    BY <2>1 DEF Onwards, Reading
<1>13. QED
  BY <1>1, <1>2, <1>10, <1>11, <1>12, DoneSharing

\* The steps of a reader that goes on, and of a writer.
LEMMA ViewWrites ==
  ASSUME NEW c \in Conn, IInv, Fits, SnapInv, ViewInv, CheckpointWithinLog,
         \/ BeginWrite(c) \/ CheckWrite(c) \/ EndWrite(c) \/ (WriteHdr1(c) /\ cn[c].pc = "wh1")
         \/ CommitHdr0(c)
  PROVE  Onwards(c)
<1> /\ CnShape /\ HeldShape /\ ShmShape /\ CnRec(cn[c]) /\ DOMAIN cn = Conn
  BY DEF IInv, CnShape
<1>1. CASE BeginWrite(c)
  <2>1. cn[c].pc = "read" /\ held'[c].shared = held[c].shared
    BY <1>1 DEF BeginWrite, At, LockX, HeldShape
  <2>2. Keep(c) /\ cn'[c].pc = "wchk"
    BY <1>1, Onward DEF BeginWrite
  <2>3. QED
    BY <2>1, <2>2 DEF Onwards, Keep, Reading
<1>2. CASE CheckWrite(c)
  <2>1. cn[c].pc = "wchk" /\ shm' = shm /\ held'[c].shared = held[c].shared
    BY <1>2 DEF CheckWrite, At, FreeX, HeldShape
  <2>2. CASE cn[c].hdr = shm.h0
    <3>1. cn' = [cn EXCEPT ![c].pc = "write", ![c].w.tx = ntx + 1]
      BY <1>2, <2>2 DEF CheckWrite
    <3>2. cn'[c].pc = "write" /\ cn'[c].min = cn[c].min /\ cn'[c].k = cn[c].k
      BY <3>1 DEF CnRec
    <3>3. QED
      BY <2>1, <2>2, <3>2 DEF Onwards
  <2>3. CASE cn[c].hdr # shm.h0
    <3>1. Keep(c) /\ cn'[c].pc = "read"
      BY <1>2, <2>3, Onward DEF CheckWrite
    <3>2. QED
      BY <2>1, <3>1 DEF Onwards, Keep, Reading
  <2>4. QED
    BY <2>2, <2>3
<1>3. CASE EndWrite(c)
  <2>1. cn[c].pc = "wend" /\ held'[c].shared = held[c].shared
    BY <1>3 DEF EndWrite, At, FreeX, HeldShape
  <2>2. Keep(c) /\ cn'[c].pc = "read"
    BY <1>3, Onward DEF EndWrite
  <2>3. QED
    BY <2>1, <2>2 DEF Onwards, Keep
<1>4. CASE WriteHdr1(c) /\ cn[c].pc = "wh1"
  <2>1. shm'.h0 = shm.h0 /\ held' = held
    BY <1>4 DEF WriteHdr1, ShmShape
  <2>2. Goto(c, "wh0")
    BY <1>4 DEF WriteHdr1, At
  <2>3. Keep(c) /\ cn'[c].pc = "wh0"
    BY <2>2, Onward
  <2>4. QED
    BY <1>4, <2>1, <2>3 DEF Onwards, Keep, Reading, Sharing
<1>5. CASE CommitHdr0(c)
  <2>1. cn[c].pc = "wh0" /\ shm'.h0 = cn[c].hdr /\ held' = held
    BY <1>5 DEF CommitHdr0, At, ShmShape
  <2>2. Keep(c) /\ cn'[c].pc = "wend"
    BY <1>5, Onward DEF CommitHdr0
  <2>3. QED
    BY <2>1, <2>2 DEF Onwards, Keep
<1>6. QED
  BY <1>1, <1>2, <1>3, <1>4, <1>5

\* Pages are changed, and handed to the log.
LEMMA ViewPages ==
  ASSUME NEW c \in Conn, IInv, Fits, ViewInv,
         \/ \E S \in SUBSET Page : Update(c, S)
         \/ \E p \in Page : Spill(c, p)
         \/ Commit(c)
  PROVE  Onwards(c) \/ Done(c)
<1> CnShape /\ CnRec(cn[c]) /\ DOMAIN cn = Conn
  BY DEF IInv, CnShape
<1>1. CASE \E S \in SUBSET Page : Update(c, S)
  <2>1. PICK S : Update(c, S)
    BY <1>1
  <2>2. cn[c].pc = "write" /\ UNCHANGED <<shm, held>>
    BY <2>1 DEF Update, At
  <2>3. cn'[c].pc = cn[c].pc /\ cn'[c].min = cn[c].min /\ cn'[c].k = cn[c].k
    BY <2>1 DEF Update, CnRec
  <2>4. QED
    BY <2>2, <2>3 DEF Onwards, Sharing, Reading
<1>2. CASE \E list, commit : WalFrames(c, list, commit)
  <2>1. PICK list, commit : WalFrames(c, list, commit)
    BY <1>2
  <2>2. cn[c].pc = "write" /\ UNCHANGED <<shm, held>>
    BY <2>1 DEF WalFrames, At
  <2>3. PICK w, l : /\ cn' = [cn EXCEPT ![c].w = w, ![c].pc = l]
                    /\ l = "restart" \/ l = "whdr" \/ l = "wframe"
    BY <2>1 DEF WalFrames
  <2>4. cn'[c].pc = l /\ cn'[c].min = cn[c].min /\ cn'[c].k = cn[c].k
    BY <2>3 DEF CnRec
  <2>5. CASE l = "restart"
    <3>1. cn[c].k.i = 1
      BY <2>2 DEF ViewInv, Todo
    <3>2. QED
      BY <2>4, <2>5, <3>1, DoneApart DEF Apart
  <2>6. CASE l # "restart"
    BY <2>2, <2>3, <2>4, <2>6 DEF Onwards, Sharing, Reading
  <2>7. QED
    BY <2>5, <2>6
<1>3. QED
  BY <1>1, <1>2 DEF Spill, Commit

\* Frames are appended, and taken back.
LEMMA ViewAppend ==
  ASSUME NEW c \in Conn, IInv, Fits,
         \/ WriteWalHdr(c) \/ WriteFrame(c) \/ RewriteChecksums(c) \/ AppendIndex(c) \/ FailWrite(c)
         \/ CountFrames(c) \/ Rollback(c)
  PROVE  Onwards(c)
<1> /\ RecFits(c) /\ CnShape /\ HeldShape /\ ShmShape /\ CnRec(cn[c]) /\ DOMAIN cn = Conn
  BY DEF IInv, CnShape, Fits
<1>1. CASE Rollback(c)
  <2>1. cn[c].pc = "write" /\ FreeX(c, {WRITE})
    BY <1>1, Zenon DEF Rollback, At
  <2>2. PICK cache : cn' = [cn EXCEPT ![c].hdr = shm.h0, ![c].dirty = {},
                                      ![c].w = NoWrite, ![c].pc = "read", ![c].cache = cache]
    BY <1>1, Zenon DEF Rollback
  <2>3. /\ cn'[c].hdr = shm.h0 /\ cn'[c].min = cn[c].min /\ cn'[c].k = cn[c].k /\ cn'[c].pc = "read"
    BY <2>2 DEF CnRec
  <2>4. held'[c].shared = held[c].shared
    BY <2>1 DEF FreeX, HeldShape
  <2>5. QED
    BY <2>1, <2>3, <2>4 DEF Onwards
<1>2. SUFFICES ASSUME ~Rollback(c)
               PROVE  /\ cn[c].pc \in {"whdr", "wframe", "wreck", "windex"} /\ held' = held
                      /\ shm'.h0 = shm.h0
                      /\ cn'[c].min = cn[c].min /\ cn'[c].k = cn[c].k
                      /\ cn'[c].pc \in {"wframe", "wreck", "windex", "write", "wh1"}
  <2>1. Sharing \ Reading = {"write", "whdr", "wframe", "wreck", "windex", "wh1", "wh0", "wend"}
    BY DEF Sharing, Reading
  <2>2. QED
    BY <1>1, <2>1 DEF Onwards, Reading, Sharing
<1>3. cn[c].pc \in {"whdr", "wframe", "wreck", "windex"} /\ held' = held /\ shm'.h0 = shm.h0
  BY <1>2, Zenon DEF WriteWalHdr, WriteFrame, RewriteChecksums, AppendIndex, FailWrite, CountFrames,
     At, ShmShape
<1>4. DOMAIN cn[c].hdr = {"init", "mx", "salt", "chg", "ck"}
      /\ DOMAIN cn[c].w = {"list", "i", "app", "j", "commit", "first", "reck", "tx", "spills", "failed"}
  BY DEF RecFits, HdrFits, WriteFits
<1>5. CASE WriteWalHdr(c)
  <2>1. PICK salt : cn' = [cn EXCEPT ![c].pc = "wframe", ![c].hdr.salt = salt,
                                     ![c].hdr.ck = HdrCk(salt)]
    BY <1>5 DEF WriteWalHdr
  <2>2. QED
    BY <1>3, <2>1 DEF CnRec
<1>6. CASE WriteFrame(c)
  <2> DEFINE me   == cn[c]
             p    == me.w.list[me.w.i]
             last == me.w.i = Len(me.w.list)
             f    == FindFrame(p, me.min, me.hdr.mx)
             over == me.w.first > 0 /\ ~(last /\ me.w.commit) /\ f >= me.w.first
             new  == [page |-> p, val |-> me.cache[p], commit |-> last /\ me.w.commit,
                      salt |-> IF me.w.reck = 0 THEN me.hdr.salt ELSE 0,
                      prev |-> me.hdr.ck]
             reck == IF over /\ (me.w.reck = 0 \/ f < me.w.reck) THEN f ELSE me.w.reck
             l    == IF ~last THEN "wframe"
                     ELSE IF me.w.commit /\ reck > 0 THEN "wreck" ELSE "windex"
             w    == [me.w EXCEPT !.i = me.w.i + 1, !.reck = reck,
                                  !.app = IF over THEN me.w.app ELSE Append(me.w.app, p)]
             ck   == IF over \/ me.w.reck > 0 THEN cn[c].hdr.ck ELSE Cksum(new)
  <2>1. cn' = [cn EXCEPT ![c].w = w, ![c].hdr.ck = ck, ![c].pc = l]
    BY <1>6, Zenon DEF WriteFrame
  <2>2. l \in {"wframe", "wreck", "windex"}
    OBVIOUS
  <2> HIDE DEF l, w, ck
  <2>3. cn'[c].min = cn[c].min /\ cn'[c].k = cn[c].k /\ cn'[c].pc = l
    BY <2>1, Zenon DEF CnRec
  <2>4. QED
    BY <1>3, <2>2, <2>3
<1>7. CASE RewriteChecksums(c)
  <2>1. PICK ck : cn' = [cn EXCEPT ![c].hdr.ck = ck, ![c].w.reck = 0, ![c].pc = "windex"]
    BY <1>7, Zenon DEF RewriteChecksums
  <2>2. QED
    BY <1>3, <2>1 DEF CnRec
<1>8. CASE AppendIndex(c)
  <2>1. cn' = [cn EXCEPT ![c].w.j = cn[c].w.j + 1] /\ cn[c].pc = "windex"
    BY <1>8, Zenon DEF AppendIndex, At
  <2>2. QED
    BY <1>3, <2>1 DEF CnRec
<1>9. CASE FailWrite(c)
  <2>1. PICK S : cn' = [cn EXCEPT ![c].pc = "write", ![c].w = [NoWrite EXCEPT !.failed = TRUE],
                                  ![c].dirty = S]
    BY <1>9, Zenon DEF FailWrite
  <2>2. QED
    BY <1>3, <2>1 DEF CnRec
<1>10. CASE CountFrames(c)
  <2>1. PICK mx, chg, dirty, w, l :
           /\ cn' = [cn EXCEPT ![c].hdr.mx = mx, ![c].hdr.chg = chg, ![c].dirty = dirty,
                               ![c].w = w, ![c].pc = l]
           /\ l = "wh1" \/ l = "write"
    BY <1>10, Zenon DEF CountFrames
  <2>2. QED
    BY <1>3, <2>1 DEF CnRec
<1>11. QED
  BY <1>2, <1>5, <1>6, <1>7, <1>8, <1>9, <1>10

\* Steps of a checkpoint that goes on.
LEMMA DoneCopying ==
  ASSUME NEW c \in Conn, cn'[c].pc \in Copying, Todo(c)',
         \A d \in Conn \ {c} : Respects(c, d)'
  PROVE  Done(c)
<1>1. cn'[c].pc \notin Sharing \cup Reading \cup {"excl", "share", "min", "chk", "wend"}
  BY DEF Sharing, Reading, Copying
<1>2. Chosen(c)' /\ Bounded(c)'
  BY <1>1 DEF Chosen, Bounded
<1>3. QED
  BY <1>1, <1>2 DEF Done, Viewing, Respects

\* A checkpoint begins with the first mark.
LEMMA ViewStart ==
  ASSUME NEW c \in Conn, IInv, Viewing(c), StartCheckpoint(c)
  PROVE  Done(c)
<1> CnRec(cn[c]) /\ DOMAIN cn = Conn
  BY DEF IInv, CnShape
<1>1. cn[c].pc = "kstart" /\ cn[c].k.i = 1
  BY DEF StartCheckpoint, At, Viewing, Todo
<1>2. \/ cn' = [cn EXCEPT ![c] = [cn[c] EXCEPT !.pc = "kmark", !.k.safe = cn[c].hdr.mx]]
      \/ cn' = [cn EXCEPT ![c] = [cn[c] EXCEPT !.pc = AfterCopy(c)]]
  BY DEF StartCheckpoint
<1>3. CASE cn' = [cn EXCEPT ![c] = [cn[c] EXCEPT !.pc = "kmark", !.k.safe = cn[c].hdr.mx]]
  <2>1. cn'[c].pc = "kmark" /\ cn'[c].k.i = cn[c].k.i
    BY <1>3 DEF CnRec
  <2>2. \A d \in Conn : Respects(c, d)'
    BY <1>1, <2>1, WalConstants DEF Respects, SharedMarks
  <2>3. QED
    BY <2>1, <2>2, DoneCopying DEF Todo, Copying
<1>4. CASE cn' = [cn EXCEPT ![c] = [cn[c] EXCEPT !.pc = AfterCopy(c)]]
  <2>1. cn'[c].pc = AfterCopy(c) /\ cn'[c].k = cn[c].k
    BY <1>4 DEF CnRec
  <2>2. QED
    BY <1>1, <2>1, DoneApart DEF AfterCopy, Apart
<1>5. QED
  BY <1>2, <1>3, <1>4

\* A mark somebody reads at is not past the snapshot, and bounds the safe frame.
LEMMA ViewMove ==
  ASSUME NEW c \in Conn, IInv, Fits, ViewInv, MoveMark(c)
  PROVE  Done(c)
<1> CnRec(cn[c]) /\ DOMAIN cn = Conn /\ IndexFits
  BY DEF IInv, CnShape, Fits
<1> DEFINE i    == cn[c].k.i
           safe == cn[c].k.safe
           next == [cn[c] EXCEPT !.k.i = IF i = NReader - 1 THEN 1 ELSE i + 1,
                                 !.pc = IF i = NReader - 1 THEN "kiter" ELSE "kmark"]
           low  == shm.mark[i]
<1>1. cn[c].pc = "kmark" /\ held' = held
  BY Zenon DEF MoveMark, At
<1>2. \/ cn' = [cn EXCEPT ![c] = next] /\ (safe <= low \/ CanExclude({READ(i)}))
      \/ cn' = [cn EXCEPT ![c] = [next EXCEPT !.k.safe = low]] /\ ~(safe <= low)
  BY Zenon DEF MoveMark
<1>3. /\ DOMAIN next = DOMAIN cn[c] /\ DOMAIN next.k = DOMAIN cn[c].k
      /\ next.k.i = (IF i = NReader - 1 THEN 1 ELSE i + 1)
      /\ next.k.safe = safe
      /\ next.pc = (IF i = NReader - 1 THEN "kiter" ELSE "kmark")
  BY DEF CnRec
<1>4. i \in 1..NReader - 1 /\ safe \in 0..MaxFrame /\ low \in 0..NotUsed
  BY DEF Fits, RecFits, IndexFits
<1>5. i \in Nat /\ safe \in Nat /\ low \in Nat /\ NReader \in Nat
  BY <1>4, Rooms, WalConstants DEF NotUsed
<1> HIDE DEF next
<1>6. /\ cn'[c].k.i = (IF i = NReader - 1 THEN 1 ELSE i + 1)
      /\ cn'[c].pc = (IF i = NReader - 1 THEN "kiter" ELSE "kmark")
  <2>1. CASE cn' = [cn EXCEPT ![c] = next]
    BY <1>3, <2>1
  <2>2. CASE cn' = [cn EXCEPT ![c] = [next EXCEPT !.k.safe = low]]
    <3> HIDE DEF low, i
    <3>1. QED
      BY <1>3, <2>2 DEF CnRec
  <2>3. QED
    BY <1>2, <2>1, <2>2
<1>7. \/ cn'[c].k.safe = safe /\ (safe <= low \/ CanExclude({READ(i)}))
      \/ cn'[c].k.safe = low /\ low < safe
  <2>1. CASE cn' = [cn EXCEPT ![c] = next] /\ (safe <= low \/ CanExclude({READ(i)}))
    BY <1>3, <2>1
  <2>2. CASE cn' = [cn EXCEPT ![c] = [next EXCEPT !.k.safe = low]] /\ ~(safe <= low)
    <3>1. low < safe
      BY <1>5, <2>2
    <3> HIDE DEF low, i
    <3>2. cn'[c].k.safe = low
      BY <1>3, <2>2 DEF CnRec
    <3>3. QED
      BY <3>1, <3>2
  <2>3. QED
    BY <1>2, <2>1, <2>2
<1>8. ASSUME NEW d \in Conn \ {c}, cn'[d].pc \in Reading, NEW x \in SharedMarks(d)'
      PROVE  \/ cn'[c].pc = "kmark" /\ cn'[c].k.i <= x
             \/ cn'[c].k.safe <= cn'[d].hdr.mx
  <2>1. cn'[d] = cn[d]
    BY Others, Zenon DEF Step
  <2>2. x \in SharedMarks(d) /\ x \in 1..NReader - 1 /\ READ(x) \in held[d].shared
    BY <1>1, <1>8 DEF SharedMarks
  <2>3. i <= x \/ safe <= cn[d].hdr.mx
    BY <1>1, <1>8, <2>1, <2>2 DEF ViewInv, Respects, Copying
  <2>4. shm.mark[x] <= cn[d].hdr.mx
    BY <1>8, <2>1, <2>2 DEF ViewInv, Bounded, Bound, Sharing
  <2>5. cn[d].hdr.mx \in Nat
    BY LogRoom DEF Fits, RecFits, HdrFits
  <2>6. x = i => ~CanExclude({READ(i)})
    BY <2>2 DEF CanExclude
  <2>7. CASE safe <= cn[d].hdr.mx
    BY <1>5, <1>7, <2>1, <2>5, <2>7
  <2>8. CASE x = i
    BY <1>5, <1>7, <2>1, <2>4, <2>5, <2>6, <2>8
  <2>9. CASE i < x
    BY <1>5, <1>6, <2>2, <2>9
  <2>10. QED
    BY <1>5, <2>2, <2>3, <2>7, <2>8, <2>9
<1>9. cn'[c].pc \in Copying /\ Todo(c)'
  BY <1>6 DEF Todo, Copying
<1>10. \A d \in Conn \ {c} : Respects(c, d)'
  BY <1>8 DEF Respects
<1>11. QED
  BY <1>9, <1>10, DoneCopying

\* The checkpoint that copies goes no further than it did.
LEMMA SafeKept ==
  ASSUME NEW c \in Conn, IInv, ViewInv, Step(c), cn[c].pc \in Copying \ {"kmark"},
         cn'[c].k.safe = cn[c].k.safe, held'[c].shared = held[c].shared
  PROVE  \A d \in Conn \ {c} : Respects(c, d)'
<1> SUFFICES ASSUME NEW d \in Conn \ {c}, cn'[d].pc \in Reading, NEW i \in SharedMarks(d)'
             PROVE  cn'[c].k.safe <= cn'[d].hdr.mx
  BY DEF Respects
<1>1. cn'[d] = cn[d] /\ held'[d] = held[d]
  BY Others
<1>2. i \in SharedMarks(d) /\ Respects(c, d)
  BY <1>1 DEF SharedMarks, ViewInv
<1>3. QED
  BY <1>1, <1>2 DEF Respects

\* The iterator has the last frame of each page.
LEMMA ViewIterator ==
  ASSUME NEW c \in Conn, IInv, Fits, ViewInv, StartIterator(c)
  PROVE  Done(c)
<1> /\ CnRec(cn[c]) /\ DOMAIN cn = Conn /\ cn[c].hdr.mx \in 0..MaxFrame /\ MaxFrame \in Nat
  BY LogRoom DEF IInv, CnShape, Fits, RecFits, HdrFits
<1> DEFINE last == [p \in Page |-> FindFrame(p, 1, cn[c].hdr.mx)]
<1>1. cn[c].pc = "kiter" /\ UNCHANGED <<shm, held>> /\ cn[c].k.i = 1
  BY Zenon DEF StartIterator, At, ViewInv, Todo
<1>2. \/ /\ shm.nBackfill < cn[c].k.safe
         /\ cn' = [cn EXCEPT ![c] = [cn[c] EXCEPT !.pc = "kread0", !.k.todo = last]]
      \/ cn' = [cn EXCEPT ![c] = [cn[c] EXCEPT !.pc = AfterCopy(c), !.k.safe = 0]]
  BY Zenon DEF StartIterator
<1>3. CASE /\ shm.nBackfill < cn[c].k.safe
           /\ cn' = [cn EXCEPT ![c] = [cn[c] EXCEPT !.pc = "kread0", !.k.todo = last]]
  <2>1. ASSUME NEW p \in Page
        PROVE  /\ last[p] \in 0..MaxFrame
               /\ last[p] = 0 \/ shm.pgno[last[p]] = p
    <3>1. last[p] \in 0..cn[c].hdr.mx
      BY Found
    <3>2. last[p] = 0 \/ shm.pgno[last[p]] = p
      BY FoundFrame
    <3> HIDE DEF last
    <3>3. QED
      BY <3>1, <3>2
  <2>2. last \in [Page -> 0..MaxFrame]
    BY <2>1
  <2> HIDE DEF last
  <2>3. /\ cn'[c].pc = "kread0" /\ cn'[c].k.i = cn[c].k.i /\ cn'[c].k.safe = cn[c].k.safe
        /\ cn'[c].k.todo = last
    BY <1>3 DEF CnRec
  <2>4. cn[c].k.safe \in Nat
    BY LogRoom DEF Fits, RecFits
  <2>5. \A p \in Page : cn[c].k.safe < last[p] \/ last[p] <= cn[c].k.safe
    BY <2>2, <2>4
  <2>6. Todo(c)'
    BY <1>1, <1>3, <2>1, <2>2, <2>3, <2>5 DEF Todo
  <2>7. \A d \in Conn \ {c} : Respects(c, d)'
    BY <1>1, <2>3, SafeKept DEF Step, Copying
  <2>8. QED
    BY <2>3, <2>6, <2>7, DoneCopying DEF Copying
<1>4. CASE cn' = [cn EXCEPT ![c] = [cn[c] EXCEPT !.pc = AfterCopy(c), !.k.safe = 0]]
  <2>1. cn'[c].pc = AfterCopy(c) /\ cn'[c].k.i = cn[c].k.i
    BY <1>4 DEF CnRec
  <2>2. QED
    BY <1>1, <2>1, DoneApart DEF AfterCopy, Apart
<1>5. QED
  BY <1>2, <1>3, <1>4

\* What is copied lies past nBackfill and not past the safe frame.
LEMMA ViewCopy ==
  ASSUME NEW c \in Conn, IInv, Fits, ViewInv, LockDb(c) \/ CopyPage(c)
  PROVE  Done(c)
<1> /\ CnRec(cn[c]) /\ DOMAIN cn = Conn /\ HeldShape /\ ShmShape /\ Todo(c)
  BY DEF IInv, CnShape, ViewInv
<1>1. cn[c].pc \in {"kread0", "kcopy"} /\ cn[c].k.i = 1 /\ shm.nBackfill < cn[c].k.safe
      /\ cn[c].k.todo \in [Page -> 0..MaxFrame]
  BY Zenon DEF LockDb, CopyPage, At, Todo
<1>2. CASE LockDb(c) /\ CanExclude({READ(0)})
  <2> DEFINE todo == [p \in Page |-> IF cn[c].k.todo[p] > shm.nBackfill /\ cn[c].k.todo[p] <= cn[c].k.safe
                                     THEN cn[c].k.todo[p] ELSE 0]
  <2>1. /\ cn' = [cn EXCEPT ![c].k.todo = todo, ![c].pc = "kcopy"]
        /\ LockX(c, {READ(0)})
        /\ shm' = [shm EXCEPT !.attempted = cn[c].k.safe] /\ cn[c].pc = "kread0"
    BY <1>2, Zenon DEF LockDb, At
  <2>2. \A p \in Page : \/ todo[p] = 0
                        \/ todo[p] = cn[c].k.todo[p] /\ shm.nBackfill < todo[p] /\ todo[p] <= cn[c].k.safe
                           /\ shm.pgno[todo[p]] = p
    <3> SUFFICES ASSUME NEW p \in Page, todo[p] # 0
                 PROVE  todo[p] = cn[c].k.todo[p] /\ shm.nBackfill < todo[p] /\ todo[p] <= cn[c].k.safe
                        /\ shm.pgno[todo[p]] = p
      OBVIOUS
    <3>1. todo[p] = cn[c].k.todo[p] /\ cn[c].k.todo[p] > shm.nBackfill /\ todo[p] <= cn[c].k.safe
      OBVIOUS
    <3>2. cn[c].k.todo[p] \in Nat /\ shm.nBackfill \in Nat /\ cn[c].k.safe \in Nat
      BY <1>1, LogRoom DEF Fits, IndexFits, RecFits
    <3> HIDE DEF todo
    <3>3. shm.nBackfill < todo[p] /\ ~(cn[c].k.safe < todo[p])
      BY <3>1, <3>2
    <3>4. shm.pgno[todo[p]] = p
      BY <2>1, <3>1, <3>3 DEF Todo
    <3>5. QED
      BY <3>1, <3>3, <3>4
  <2>3. todo \in [Page -> 0..MaxFrame]
    BY <1>1, LogRoom DEF Fits
  <2> HIDE DEF todo
  <2>4. /\ cn'[c].pc = "kcopy" /\ cn'[c].k.i = cn[c].k.i /\ cn'[c].k.safe = cn[c].k.safe
        /\ cn'[c].k.todo = todo
    BY <2>1 DEF CnRec
  <2>5. held'[c].shared = held[c].shared
    BY <2>1 DEF LockX, HeldShape
  <2>6. shm'.nBackfill = shm.nBackfill /\ shm'.pgno = shm.pgno
    BY <2>1 DEF ShmShape
  <2>7. Todo(c)'
    BY <1>1, <2>2, <2>3, <2>4, <2>6 DEF Todo
  <2>8. \A d \in Conn \ {c} : Respects(c, d)'
    BY <1>2, <2>1, <2>4, <2>5, SafeKept DEF Step, Copying
  <2>9. QED
    BY <2>4, <2>7, <2>8, DoneCopying DEF Copying
<1>3. CASE LockDb(c) /\ ~CanExclude({READ(0)})
  <2>1. cn' = [cn EXCEPT ![c].pc = AfterCopy(c), ![c].k.safe = 0, ![c].k.todo = <<>>]
    BY <1>3, Zenon DEF LockDb
  <2>2. cn'[c].pc = AfterCopy(c) /\ cn'[c].k.i = cn[c].k.i
    BY <2>1 DEF CnRec
  <2>3. QED
    BY <1>1, <2>2, DoneApart DEF AfterCopy, Apart
<1>4. CASE CopyPage(c)
  <2>1. PICK p \in Page : cn' = [cn EXCEPT ![c].k.todo[p] = 0]
    BY <1>4 DEF CopyPage
  <2>2. cn[c].pc = "kcopy" /\ held' = held /\ shm' = shm
    BY <1>4 DEF CopyPage, At
  <2>3. /\ cn'[c].pc = "kcopy" /\ cn'[c].k.i = cn[c].k.i /\ cn'[c].k.safe = cn[c].k.safe
        /\ cn'[c].k.todo = [cn[c].k.todo EXCEPT ![p] = 0]
    BY <2>1, <2>2 DEF CnRec
  <2>4. cn'[c].k.todo \in [Page -> 0..MaxFrame]
        /\ \A q \in Page : cn'[c].k.todo[q] = 0 \/ cn'[c].k.todo[q] = cn[c].k.todo[q]
    BY <1>1, <2>3, LogRoom DEF Fits
  <2>5. Todo(c)'
    BY <1>1, <2>2, <2>3, <2>4 DEF Todo
  <2>6. \A d \in Conn \ {c} : Respects(c, d)'
    BY <1>4, <2>2, <2>3, SafeKept DEF Step, Copying
  <2>7. QED
    BY <2>3, <2>5, <2>6, DoneCopying DEF Copying
<1>5. QED
  BY <1>2, <1>3, <1>4

\* Every step of a connection keeps what is said of itself.
LEMMA ViewOwn ==
  ASSUME NEW c \in Conn, IInv, HeldFits, Fits, SnapInv, ViewInv, CheckpointWithinLog,
         Step(c) \/ Call(c) \/ Fault(c)
  PROVE  Done(c)
<1> Viewing(c) /\ Snap(c)
  BY DEF ViewInv, Viewing, SnapInv
<1>1. CASE \/ TryHdr(c) \/ LockHdr(c) \/ TryHdrAgain(c) \/ RecoverLock(c) \/ RecoverScan(c)
           \/ RecoverHdr0(c) \/ RecoverInfo(c)
  BY <1>1, ViewHeader
<1>2. CASE \/ PickZero(c) \/ UnlockZero(c) \/ Restart(c) \/ RestartHdr0(c) \/ RestartInfo(c)
           \/ LockWriter(c) \/ FinishCopy(c) \/ EndMode(c) \/ TruncateLog(c) \/ EndCheckpoint(c)
           \/ DeleteLog(c) \/ Open(c) \/ Close(c) \/ BeginRead(c) \/ EndRead(c)
           \/ (\E m : Checkpoint(c, m)) \/ FailCopy(c) \/ Die(c)
           \/ (WriteHdr1(c) /\ cn[c].pc # "wh1")
  BY <1>2, ViewAway
<1>3. CASE \/ BeginWrite(c) \/ CheckWrite(c) \/ EndWrite(c) \/ (WriteHdr1(c) /\ cn[c].pc = "wh1")
           \/ CommitHdr0(c)
  BY <1>3, ViewWrites, ViewOnwards
<1>4. CASE (\E S \in SUBSET Page : Update(c, S)) \/ (\E p \in Page : Spill(c, p)) \/ Commit(c)
  BY <1>4, ViewPages, ViewOnwards
<1>5. CASE \/ WriteWalHdr(c) \/ WriteFrame(c) \/ RewriteChecksums(c) \/ AppendIndex(c)
           \/ FailWrite(c) \/ CountFrames(c) \/ Rollback(c)
  BY <1>5, ViewAppend, ViewOnwards
<1>6. CASE PickMark(c) \/ RaiseMark(c) \/ ShareMark(c) \/ SetMin(c)
  BY <1>6, ViewPick
<1>7. CASE CheckZero(c) \/ CheckMark(c)
  BY <1>7, ViewCheck
<1>8. CASE StartCheckpoint(c) \/ MoveMark(c) \/ StartIterator(c) \/ LockDb(c) \/ CopyPage(c)
  BY <1>8, ViewStart, ViewMove, ViewIterator, ViewCopy
<1>9. CASE Step(c)
  BY <1>1, <1>2, <1>3, <1>5, <1>6, <1>7, <1>8, <1>9, Zenon DEF Step
<1>10. CASE Call(c)
  <2>1. CASE \E S \in SUBSET Page \ {{}} : Update(c, S)
    BY <1>4, <2>1
  <2>2. CASE ~ \E S \in SUBSET Page \ {{}} : Update(c, S)
    BY <1>2, <1>3, <1>4, <1>5, <1>10, <2>2, Zenon DEF Call
  <2>3. QED
    BY <2>1, <2>2
<1>11. CASE Fault(c)
  BY <1>2, <1>5, <1>11, Zenon DEF Fault
<1>12. QED
  BY <1>9, <1>10, <1>11

\* While somebody shares a mark, more and more of the log is in the database.
LEMMA BackfillGrows ==
  ASSUME NEW c \in Conn, NEW d \in Conn, c # d, IInv, Fits, ViewInv, LocksMark(d),
         Step(c) \/ Call(c) \/ Fault(c)
  PROVE  shm.nBackfill <= shm'.nBackfill /\ shm.nBackfill \in Nat /\ shm'.nBackfill \in Nat
<1> ShmShape /\ shm.nBackfill \in Nat /\ cn[c].k.safe \in Nat
  BY LogRoom DEF IInv, Fits, IndexFits, RecFits
<1>1. shm'.nBackfill = shm.nBackfill \/ FinishCopy(c)
  BY Touches, MarkBars, Zenon DEF RecoverInfo, RestartInfo, DeleteLog, At
<1>2. CASE FinishCopy(c)
  <2>1. cn[c].pc = "kcopy" /\ shm'.nBackfill = cn[c].k.safe
    BY <1>2 DEF FinishCopy, At, ShmShape
  <2>2. shm.nBackfill < cn[c].k.safe
    BY <2>1 DEF ViewInv, Todo
  <2>3. QED
    BY <2>1, <2>2
<1>3. QED
  BY <1>1, <1>2

\* What is said of the others holds on.
LEMMA ViewOthers ==
  ASSUME NEW c \in Conn, NEW d \in Conn, c # d, IInv, Fits, SnapInv, ViewInv, CheckpointWithinLog,
         Step(c) \/ Call(c) \/ Fault(c)
  PROVE  Viewing(d)'
<1> OwnsOf(d) /\ IndexFits /\ RecFits(d) /\ Snap(d) /\ Snap(c) /\ Viewing(d) /\ ShmShape
  BY DEF IInv, Owns, Fits, SnapInv, ViewInv, Viewing
<1>1. cn'[d] = cn[d] /\ held'[d] = held[d]
  BY Others
<1>2. SharedMarks(d)' = SharedMarks(d)
  BY <1>1 DEF SharedMarks
<1>3. LocksMark(d) /\ Low(d) => Low(d)'
  <2>1. cn[d].min \in Nat
    BY DEF RecFits
  <2>2. QED
    BY <1>1, <2>1, BackfillGrows DEF Low
<1>4. Chosen(d)'
  <2>1. cn[d].pc = "chk" => LocksMark(d)
    BY DEF Snap, Pinned
  <2>2. QED
    BY <1>1, <1>2, <1>3, <2>1 DEF Viewing, Chosen
<1>5. Bounded(d)'
  <2>1. cn[d].pc \in Sharing \ Reading => shm'.h0 = shm.h0
    <3>1. cn[d].pc \in Sharing \ Reading => Has(d, WRITE)
      BY DEF Sharing, Reading, OwnsOf, Locks, Has
    <3>2. QED
      BY <3>1, Reserved
  <2>2. StepMarks
    BY Marks
  <2>3. \A i \in SharedMarks(d) : shm'.mark[i] = shm.mark[i] /\ LocksMark(d)
    BY <1>1, <2>2 DEF StepMarks, SharedMarks, LocksMark
  <2>4. cn[d].pc \in Sharing => Bound(d)' = Bound(d)
    BY <1>1, <2>1 DEF Bound
  <2>5. cn[d].pc = "wend" => cn[d].pc \in Sharing \ Reading
    BY DEF Sharing, Reading
  <2>6. QED
    BY <1>1, <1>2, <1>3, <2>1, <2>3, <2>4, <2>5 DEF Viewing, Bounded
<1>6. Todo(d)'
  <2>1. CASE cn[d].pc \notin {"kread0", "kcopy"}
    BY <1>1, <2>1 DEF Viewing, Todo
  <2>2. CASE cn[d].pc \in {"kread0", "kcopy"}
    <3>1. /\ cn[c].pc \notin {"rscan", "kcopy", "delete"}
          /\ Open(c) => shm' = shm
      BY <2>2, CopierBars
    <3>2. shm'.nBackfill = shm.nBackfill \/ shm'.nBackfill = 0
      <4>1. shm'.nBackfill = shm.nBackfill \/ RecoverInfo(c) \/ RestartInfo(c)
        BY <3>1, Touches, Zenon DEF FinishCopy, DeleteLog, At
      <4>2. QED
        BY <4>1 DEF RecoverInfo, RestartInfo, ShmShape
    <3>3. \A f \in 1..shm.h0.mx : shm'.pgno[f] = shm.pgno[f]
      BY <3>1, EntriesKept
    <3>4. cn[d].k.safe <= shm.h0.mx /\ cn[d].k.safe \in Nat /\ shm.h0.mx \in Nat
          /\ shm.nBackfill \in Nat
      BY LogRoom DEF CheckpointWithinLog, RecFits, IndexFits, HdrFits, Fits
    <3>5. cn[d].k.todo \in [Page -> 0..MaxFrame]
      BY <2>2 DEF Viewing, Todo
    <3>6. \A p \in Page : cn[d].k.todo[p] \in Nat
      BY <3>5, LogRoom DEF Fits
    <3>7. \A p \in Page : cn[d].k.todo[p] # 0 /\ cn[d].k.todo[p] <= cn[d].k.safe
              => shm'.pgno[cn[d].k.todo[p]] = shm.pgno[cn[d].k.todo[p]]
      BY <3>3, <3>4, <3>6
    <3>8. shm'.nBackfill < cn[d].k.safe
      BY <2>2, <3>2, <3>4 DEF Viewing, Todo
    <3>9. \A p \in Page : cn[d].k.todo[p] # 0 /\ shm.nBackfill < cn[d].k.todo[p]
              => shm'.nBackfill < cn[d].k.todo[p]
      BY <3>2, <3>4, <3>6
    <3>10. QED
      BY <1>1, <2>2, <3>5, <3>7, <3>8, <3>9 DEF Viewing, Todo
  <2>3. QED
    BY <2>1, <2>2
<1>7. QED
  BY <1>4, <1>5, <1>6 DEF Viewing

\* It is kept by every step.
LEMMA ViewNext ==
  ASSUME IInv, HeldFits, Fits, SnapInv, ViewInv, CheckpointWithinLog, [Next]_vars
  PROVE  ViewInv'
<1>1. CASE UNCHANGED vars
  BY <1>1 DEF vars, ViewInv, Chosen, Bounded, Todo, Respects, SharedMarks, Bound, Low
<1>2. ASSUME NEW c \in Conn, Step(c) \/ Call(c) \/ Fault(c)
      PROVE  ViewInv'
  <2>1. Done(c)
    BY <1>2, ViewOwn
  <2>2. \A d \in Conn \ {c} : Viewing(d)'
    BY <1>2, ViewOthers
  <2>3. ASSUME NEW d \in Conn \ {c}, NEW e \in Conn \ {c}, d # e
        PROVE  Respects(d, e)'
    <3>1. cn'[d] = cn[d] /\ cn'[e] = cn[e] /\ held'[e] = held[e]
      BY <1>2, Others
    <3>2. Respects(d, e)
      BY <2>3 DEF ViewInv
    <3>3. QED
      BY <3>1, <3>2 DEF Respects, SharedMarks
  <2>4. QED
    BY <2>1, <2>2, <2>3 DEF ViewInv, Done, Viewing
<1>3. QED
  BY <1>1, <1>2 DEF Next

\* And holds at the start.
LEMMA ViewFirst == Init => ViewInv /\ CheckpointWithinLog
BY DEF Init, Fresh, NoCkpt, ZeroShm, ZeroHdr, ViewInv, Chosen, Bounded, Todo, Respects, CheckpointWithinLog,
   Sharing, Reading, Copying

\* ViewStays for every number of connections, pages, marks and transactions, whoever
\* dies and whatever writes fail, while no checkpoint works past the end of the log:
\* of every page, an open read transaction would read the same all the time, whether
\* a checkpoint has moved it to the database file meanwhile or not.
THEOREM ViewStaysHolds == Spec /\ []CheckpointWithinLog => ViewStays
<1> DEFINE Stays ==
      \A c \in Conn :
          (cn[c].pc \in Reading /\ cn'[c].pc \in Reading) => ViewImage(c)' = ViewImage(c)
<1>1. IInv /\ HeldFits /\ Fits /\ SnapInv /\ ViewInv /\ CheckpointWithinLog /\ [Next]_vars
        => SnapInv' /\ ViewInv' /\ [Stays]_vars
  <2> SUFFICES ASSUME IInv, HeldFits, Fits, SnapInv, ViewInv, CheckpointWithinLog, [Next]_vars
               PROVE  SnapInv' /\ ViewInv' /\ [Stays]_vars
    OBVIOUS
  <2>1. SnapInv' /\ ViewInv'
    BY SnapNext, ViewNext
  <2>2. [Stays]_vars
    <3>1. SUFFICES ASSUME NEW c \in Conn, Step(c) \/ Call(c) \/ Fault(c) PROVE Stays
      BY DEF Next
    <3>2. QED
      BY <3>1, ViewStep
  <2>3. QED
    BY <2>1, <2>2
<1>2. QED
  BY <1>1, SnapStart, ViewFirst, LocksAreOwned, FitsHolds, PTL DEF Spec, ViewStays
=============================================================================
