-------------------------------- MODULE Wal --------------------------------
(***************************************************************************)
(* The write-ahead log of SQLite 3.31.1 (wal.c in the amalgamation) as the *)
(* connections of one database run it: the log file, the wal-index in      *)
(* shared memory, the byte-range locks on it, and the steps of opening a   *)
(* read transaction, committing, checkpointing, recovering and closing.    *)
(* A step reads or writes one shared thing, and what a lock it takes just  *)
(* for that protects; several steps on private state are one.  A           *)
(* connection may die between any two steps, and any write to a file may   *)
(* fail.                                                                   *)
(***************************************************************************)
EXTENDS Integers, Sequences, FiniteSets

CONSTANTS
    Conn,           \* connections, each in a process of its own
    Page,           \* database pages, in ascending order
    NReader,        \* WAL_NREADER
    Use,            \* the ways the application may use the database
    None,           \* no image, no connection (model value)
    MaxTx,          \* bound: write transactions
    MaxSpill        \* bound: pages a transaction writes before it commits

CkptModes == {"PASSIVE", "FULL", "RESTART", "TRUNCATE"}

ASSUME WalConstants ==
    /\ Page \subseteq Nat \ {0}
    /\ IsFiniteSet(Page)
    /\ NReader \in Nat /\ NReader >= 2
    /\ MaxTx \in Nat
    /\ MaxSpill \in Nat
    /\ None \notin CkptModes \cup {"CLOSE"}
    /\ \A u \in Use : /\ u.tx \in 0..MaxTx /\ u.spills \in 0..MaxSpill
                     /\ u.faults \in Nat /\ u.modes \subseteq CkptModes

VARIABLES
    db,             \* the database file: page -> value
    wal,            \* the log file: salt of its header (0: no header), frames
    shm,            \* the wal-index
    held,           \* held[c].excl, held[c].shared: unixShm.exclMask, sharedMask
    cn,             \* per connection: control location and struct Wal
    ntx,            \* write transactions so far
    nck,            \* checkpoints so far
    nfault,         \* deaths and failing writes so far
    use             \* the member of Use this behaviour follows: who writes, checkpoints
                    \* and closes, in which modes; how many transactions (tx),
                    \* checkpoints (ck) and faults there may be, how many pages a
                    \* transaction may spill

vars == <<db, wal, shm, held, cn, ntx, nck, nfault, use>>

(* Locks. *)
WRITE   == 0
CKPT    == 1
RECOVER == 2
READ(i) == 3 + i
READERS == {READ(i) : i \in 1..NReader - 1}       \* all but READ(0)

\* The room of the wal-index: every frame the bounds allow.
MaxFrame == MaxTx * (Cardinality(Page) + MaxSpill)
NotUsed  == MaxFrame + 1                          \* READMARK_NOT_USED
Value    == 0..2 * MaxTx + 1
PageLow  == CHOOSE p \in Page : \A q \in Page : p <= q

(* Headers and frames.  A checksum covers everything before it: ck is the  *)
(* last frame it covers, prev what the frame's own checksum started from.  *)
ZeroHdr == [init |-> FALSE, mx |-> 0, salt |-> 0, chg |-> 0, ck |-> <<0, 0, FALSE>>]
HdrCk(salt) == <<0, salt, FALSE>>
Cksum(f)    == <<f.page, f.val, f.commit>>

ZeroShm == [h1 |-> ZeroHdr, h0 |-> ZeroHdr, nBackfill |-> 0, attempted |-> 0,
            mark |-> [i \in 1..NReader - 1 |-> 0],
            pgno |-> [f \in 1..MaxFrame |-> 0]]

NoWrite == [list |-> <<>>, i |-> 1, app |-> <<>>, j |-> 1, commit |-> FALSE,
            first |-> 0, reck |-> 0, tx |-> 0, spills |-> 0, failed |-> FALSE]
NoCkpt  == [mode |-> None, safe |-> 0, i |-> 1, todo |-> <<>>, ok |-> TRUE]

Fresh(pc) == [pc |-> pc, hdr |-> ZeroHdr, chg |-> FALSE, mxI |-> 0, mxMark |-> 0,
              min |-> 0, cache |-> None, dirty |-> {}, w |-> NoWrite, k |-> NoCkpt]

Largest[S \in SUBSET Nat] == CHOOSE x \in S : \A y \in S : x >= y
LastOr0(S) == Largest[S \cup {0}]
Ascending(S) ==
    CHOOSE s \in [1..Cardinality(S) -> S] :
        \A a, b \in DOMAIN s : a < b => s[a] < s[b]

(* unixShmLock: a shared lock is refused while anyone holds it exclusive,  *)
(* an exclusive one while anyone holds it at all.                          *)
CanShare(l)   == \A d \in Conn : l \notin held[d].excl
CanExcludeOwners(L) == \A d \in Conn : L \cap held[d].excl = {}       \* a mutant
CanExclude(L) == \A d \in Conn : L \cap (held[d].excl \cup held[d].shared) = {}
Has(c, l)        == l \in held[c].excl

LockX(c, L) == held' = [held EXCEPT ![c].excl = @ \cup L]
FreeX(c, L) == held' = [held EXCEPT ![c].excl = @ \ L]
LockS(c, l) == held' = [held EXCEPT ![c].shared = @ \cup {l}]
FreeS(c)    == held' = [held EXCEPT ![c].shared = {}]

At(c, l)   == cn[c].pc = l
Goto(c, l) == cn' = [cn EXCEPT ![c].pc = l]

files  == <<db, wal>>
bounds == <<ntx, nck, nfault, use>>

Init ==
    /\ db = [p \in Page |-> 0]
    /\ wal = [salt |-> 0, frames |-> <<>>]
    /\ shm = ZeroShm
    /\ held = [c \in Conn |-> [excl |-> {}, shared |-> {}]]
    /\ cn = [c \in Conn |-> Fresh("idle")]
    /\ ntx = 0
    /\ nck = 0
    /\ nfault = 0
    /\ use \in Use
-----------------------------------------------------------------------------
(* Pure parts. *)

\* Salts are random: one that nothing in sight carries.
NewSalt ==
    LET used == {wal.salt, shm.h0.salt, shm.h1.salt}
                  \cup {wal.frames[f].salt : f \in DOMAIN wal.frames}
                  \cup {cn[c].hdr.salt : c \in Conn}
    IN  CHOOSE s \in 1..Cardinality(used) + 1 :
            s \notin used /\ \A t \in 1..s - 1 : t \in used

\* walDecodeFrame along the file: frame f is good if it and all before it are.
Decodes(f) ==
    /\ wal.salt # 0
    /\ wal.frames[f].salt = wal.salt
    /\ wal.frames[f].prev = IF f = 1 THEN HdrCk(wal.salt) ELSE Cksum(wal.frames[f - 1])
ValidFrames  == {f \in DOMAIN wal.frames : \A g \in 1..f : Decodes(g)}
RecoverAnyFrame == LastOr0(ValidFrames)                                 \* a mutant
RecoverFrame == LastOr0({f \in ValidFrames : wal.frames[f].commit})

\* sqlite3WalFindFrame with the index: the last frame of p in lo..hi.
FindFrame(p, lo, hi) == LastOr0({f \in lo..hi : shm.pgno[f] = p})
ReadPage(p, f) == IF f = 0 THEN db[p] ELSE wal.frames[f].val

\* What c reads of page p when it is not in its cache.
View(c, p) ==
    IF READ(0) \in held[c].shared \/ cn[c].hdr.mx = 0
    THEN db[p]
    ELSE ReadPage(p, FindFrame(p, cn[c].min, cn[c].hdr.mx))
ViewImage(c) == [p \in Page |-> View(c, p)]

\* walCleanupHash: entries past mx are wiped, unless mx is 0.
CleanupHash(pgno, mx) ==
    IF mx = 0 THEN pgno ELSE [f \in DOMAIN pgno |-> IF f > mx THEN 0 ELSE pgno[f]]

\* walIndexAppend of page p at frame f by a connection whose header ends at mx.
IndexAppend(pgno, mx, f, p) ==
    LET zeroed  == IF f = 1 THEN [g \in DOMAIN pgno |-> 0] ELSE pgno
        cleaned == IF zeroed[f] # 0 THEN CleanupHash(zeroed, mx) ELSE zeroed
    IN  [cleaned EXCEPT ![f] = p]

\* walIndexTryHdr: both copies alike and initialised.
HdrReadable == shm.h0 = shm.h1 /\ shm.h0.init
-----------------------------------------------------------------------------
(* Opening a connection, and reading the header: walIndexReadHdr, called   *)
(* to begin a read transaction and by a checkpoint.                        *)

Attached(c)  == cn[c].pc # "closed"
InCkpt(c)    == cn[c].k.mode # None
Exclusive(c) == cn[c].k.mode = "CLOSE"           \* EXCLUSIVE file lock on the database

\* The first to attach truncates the shared memory.
Open(c) ==
    /\ At(c, "closed")
    /\ \A d \in Conn : ~Exclusive(d)
    /\ cn' = [cn EXCEPT ![c] = Fresh("idle")]
    /\ shm' = IF \E d \in Conn : Attached(d) THEN shm ELSE ZeroShm
    /\ UNCHANGED <<files, held, bounds>>

BeginRead(c) ==
    /\ At(c, "idle")
    /\ cn' = [cn EXCEPT ![c].pc = "header"]
    /\ UNCHANGED <<files, shm, held, bounds>>

\* A begin that fails empties the page cache; a checkpoint that cannot read
\* the header ends.
FailRead(c, me) ==
    IF InCkpt(c) THEN [me EXCEPT !.pc = "kfin", !.k.ok = FALSE]
                 ELSE [me EXCEPT !.pc = "idle", !.cache = None, !.chg = FALSE]

\* BUSY means once more, unless a recovery is seen to run.
BusyHdr(c, me) ==
    IF ~InCkpt(c) /\ CanShare(RECOVER) THEN [me EXCEPT !.pc = "header"]
                                          ELSE FailRead(c, me)

AcceptHdr(c, me) ==
    [me EXCEPT !.pc  = IF InCkpt(c) THEN "kstart" ELSE "pick0",
               !.chg = @ \/ me.hdr # shm.h0,
               !.hdr = shm.h0]

TryHdr(c) ==
    /\ At(c, "header")
    /\ cn' = [cn EXCEPT ![c] = IF HdrReadable THEN AcceptHdr(c, @)
                                              ELSE [@ EXCEPT !.pc = "hdrlock"]]
    /\ UNCHANGED <<files, shm, held, bounds>>

LockHdr(c) ==
    /\ At(c, "hdrlock")
    /\ IF CanExclude({WRITE})
       THEN LockX(c, {WRITE}) /\ Goto(c, "hdrtry")
       ELSE cn' = [cn EXCEPT ![c] = BusyHdr(c, @)] /\ UNCHANGED held
    /\ UNCHANGED <<files, shm, bounds>>

TryHdrAgain(c) ==
    /\ At(c, "hdrtry")
    /\ IF HdrReadable
       THEN cn' = [cn EXCEPT ![c] = AcceptHdr(c, @)] /\ FreeX(c, {WRITE})
       ELSE Goto(c, "recover") /\ UNCHANGED held
    /\ UNCHANGED <<files, shm, bounds>>

(* walIndexRecover: every lock but READ(0), then the whole file is read.   *)
RecoverLocks(c) == (IF InCkpt(c) THEN {RECOVER} ELSE {CKPT, RECOVER}) \cup READERS

RecoverLock(c) ==
    /\ At(c, "recover")
    /\ IF CanExclude(RecoverLocks(c))
       THEN LockX(c, RecoverLocks(c)) /\ Goto(c, "rscan")
       ELSE cn' = [cn EXCEPT ![c] = BusyHdr(c, [@ EXCEPT !.chg = TRUE])] /\ FreeX(c, {WRITE})
    /\ UNCHANGED <<files, shm, bounds>>

RecoverScan(c) ==
    /\ At(c, "rscan")
    /\ LET n == LastOr0(ValidFrames)
           m == RecoverFrame
       IN  /\ shm' = IF n = 0 THEN shm
                     ELSE [shm EXCEPT !.pgno = [f \in DOMAIN shm.pgno |->
                                IF f <= n THEN wal.frames[f].page ELSE 0]]
           /\ cn' = [cn EXCEPT
                  ![c].pc  = "rh1",
                  ![c].chg = TRUE,
                  ![c].hdr = [init |-> TRUE, mx |-> m, chg |-> 0, salt |-> wal.salt,
                              ck |-> IF m = 0 THEN ZeroHdr.ck ELSE Cksum(wal.frames[m])]]
    /\ UNCHANGED <<files, held, bounds>>

\* walIndexWriteHdr: the second copy first.
WriteHdr1(c) ==
    /\ cn[c].pc \in {"rh1", "sh1", "wh1"}
    /\ shm' = [shm EXCEPT !.h1 = cn[c].hdr]
    /\ Goto(c, CASE At(c, "rh1") -> "rh0" [] At(c, "sh1") -> "sh0" [] OTHER -> "wh0")
    /\ UNCHANGED <<files, held, bounds>>

\* A mutant: one copy of the header is written.
RecoverHdr1Only(c) ==
    /\ At(c, "rh0")
    /\ Goto(c, "rinfo")
    /\ UNCHANGED <<files, shm, held, bounds>>

RecoverHdr0(c) ==
    /\ At(c, "rh0")
    /\ shm' = [shm EXCEPT !.h0 = cn[c].hdr]
    /\ Goto(c, "rinfo")
    /\ UNCHANGED <<files, held, bounds>>

RecoverInfo(c) ==
    /\ At(c, "rinfo")
    /\ LET m == cn[c].hdr.mx
       IN  shm' = [shm EXCEPT !.nBackfill = 0, !.attempted = m,
                              !.mark = [i \in DOMAIN @ |-> IF i = 1 /\ m > 0 THEN m
                                                                          ELSE NotUsed]]
    /\ FreeX(c, RecoverLocks(c) \cup {WRITE})
    /\ Goto(c, IF InCkpt(c) THEN "kstart" ELSE "pick0")
    /\ UNCHANGED <<files, bounds>>
-----------------------------------------------------------------------------
(* walTryBeginRead after the header.  A writer that holds WRITE comes here *)
(* from walRestartLog with useWal = 1 and never returns to the header.     *)

UseWal(c) == Has(c, WRITE)

Retry(c, me) == [me EXCEPT !.pc = IF UseWal(c) THEN "pick" ELSE "header",
                           !.mxI = 0, !.mxMark = 0, !.min = 0]

\* The transaction is open.  If the header moved, the page cache was emptied:
\* the model then fills it at once, from the snapshot.
OpenTx(c, me, image) ==
    IF UseWal(c)
    THEN [me EXCEPT !.pc = IF me.hdr.mx = 0 THEN "whdr" ELSE "wframe"]
    ELSE [me EXCEPT !.pc = "read", !.chg = FALSE,
                    !.cache = IF me.chg \/ @ = None THEN image ELSE @]

\* All of the log is in the database: ignore it, under READ(0).
PickZero(c) ==
    /\ At(c, "pick0")
    /\ IF shm.nBackfill = cn[c].hdr.mx /\ CanShare(READ(0))
       THEN LockS(c, READ(0)) /\ Goto(c, "chk0")
       ELSE Goto(c, "pick") /\ UNCHANGED held
    /\ UNCHANGED <<files, shm, bounds>>

CheckZero(c) ==
    /\ At(c, "chk0")
    /\ IF shm.h0 = cn[c].hdr
       THEN cn' = [cn EXCEPT ![c] = OpenTx(c, @, ViewImage(c))] /\ UNCHANGED held
       ELSE cn' = [cn EXCEPT ![c] = Retry(c, @)] /\ FreeS(c)
    /\ UNCHANGED <<files, shm, bounds>>

\* The largest mark not past the snapshot, the last of several.
Eligible(c) == {i \in 1..NReader - 1 : shm.mark[i] <= cn[c].hdr.mx}
BestMark(c) == Largest[{i \in Eligible(c) :
                          \A j \in Eligible(c) : shm.mark[j] <= shm.mark[i]}]

PickMark(c) ==
    /\ At(c, "pick")
    /\ LET i == IF Eligible(c) = {} THEN 0 ELSE BestMark(c)
           m == IF i = 0 THEN 0 ELSE shm.mark[i]
       IN  cn' = [cn EXCEPT ![c].mxI = i, ![c].mxMark = m,
                            ![c].pc = IF i = 0 \/ m < cn[c].hdr.mx THEN "excl"
                                                                  ELSE "share"]
    /\ UNCHANGED <<files, shm, held, bounds>>

\* Raise the first mark nobody uses; else share the one found, if any.
RaiseMark(c) ==
    /\ At(c, "excl")
    /\ LET free == {i \in 1..NReader - 1 : CanExclude({READ(i)})}
           i    == CHOOSE j \in free : \A g \in free : j <= g
       IN  IF free # {}
           THEN /\ shm' = [shm EXCEPT !.mark[i] = cn[c].hdr.mx]
                /\ cn' = [cn EXCEPT ![c].mxI = i, ![c].mxMark = cn[c].hdr.mx,
                                    ![c].pc = "share"]
           ELSE /\ cn' = [cn EXCEPT ![c] = IF @.mxI = 0 THEN Retry(c, @)
                                           ELSE [@ EXCEPT !.pc = "share"]]
                /\ UNCHANGED shm
    /\ UNCHANGED <<files, held, bounds>>

ShareMark(c) ==
    /\ At(c, "share")
    /\ IF CanShare(READ(cn[c].mxI))
       THEN LockS(c, READ(cn[c].mxI)) /\ Goto(c, "min")
       ELSE cn' = [cn EXCEPT ![c] = Retry(c, @)] /\ UNCHANGED held
    /\ UNCHANGED <<files, shm, bounds>>

\* minFrame is read before the header is looked at again.
SetMin(c) ==
    /\ At(c, "min")
    /\ cn' = [cn EXCEPT ![c].min = shm.nBackfill + 1, ![c].pc = "chk"]
    /\ UNCHANGED <<files, shm, held, bounds>>

\* A mutant: the header is not looked at again.
CheckMarkAlone(c) ==
    /\ At(c, "chk")
    /\ IF shm.mark[cn[c].mxI] = cn[c].mxMark
       THEN cn' = [cn EXCEPT ![c] = OpenTx(c, [@ EXCEPT !.mxI = 0, !.mxMark = 0],
                                           ViewImage(c))]
            /\ UNCHANGED held
       ELSE cn' = [cn EXCEPT ![c] = Retry(c, @)] /\ FreeS(c)
    /\ UNCHANGED <<files, shm, bounds>>

CheckMark(c) ==
    /\ At(c, "chk")
    /\ IF shm.mark[cn[c].mxI] = cn[c].mxMark /\ shm.h0 = cn[c].hdr
       THEN cn' = [cn EXCEPT ![c] = OpenTx(c, [@ EXCEPT !.mxI = 0, !.mxMark = 0],
                                           ViewImage(c))]
            /\ UNCHANGED held
       ELSE cn' = [cn EXCEPT ![c] = Retry(c, @)] /\ FreeS(c)
    /\ UNCHANGED <<files, shm, bounds>>

\* sqlite3WalEndReadTransaction
EndRead(c) ==
    /\ At(c, "read")
    /\ FreeS(c)
    /\ cn' = [cn EXCEPT ![c].pc = "idle", ![c].min = 0]
    /\ UNCHANGED <<files, shm, bounds>>
-----------------------------------------------------------------------------
(* Writing.  sqlite3WalBeginWriteTransaction: the lock, then the snapshot  *)
(* must still be the newest (else SQLITE_BUSY_SNAPSHOT).                   *)

BeginWrite(c) ==
    /\ At(c, "read")
    /\ c \in use.writers
    /\ ntx < use.tx
    /\ CanExclude({WRITE})
    /\ LockX(c, {WRITE})
    /\ Goto(c, "wchk")
    /\ UNCHANGED <<files, shm, bounds>>

CheckWrite(c) ==
    /\ At(c, "wchk")
    /\ IF cn[c].hdr = shm.h0
       THEN /\ ntx' = ntx + 1
            /\ cn' = [cn EXCEPT ![c].pc = "write", ![c].w.tx = ntx + 1]
            /\ UNCHANGED held
       ELSE /\ Goto(c, "read")
            /\ FreeX(c, {WRITE})
            /\ UNCHANGED ntx
    /\ UNCHANGED <<files, shm, nck, nfault, use>>

\* Pages are changed in the page cache; a page already spilled may change again.
Update(c, S) ==
    /\ At(c, "write") /\ ~cn[c].w.failed
    /\ \/ \A p \in Page : cn[c].cache[p] < 2 * cn[c].w.tx
       \/ \E p \in Page \ cn[c].dirty : S = {p} /\ cn[c].cache[p] = 2 * cn[c].w.tx
    /\ LET new == [p \in S |-> IF cn[c].cache[p] = 2 * cn[c].w.tx
                               THEN 2 * cn[c].w.tx + 1 ELSE 2 * cn[c].w.tx]
       IN  cn' = [cn EXCEPT ![c].dirty = @ \cup S,
                            ![c].cache = [p \in Page |->
                                             IF p \in S THEN new[p] ELSE @[p]]]
    /\ UNCHANGED <<files, shm, held, bounds>>

\* sqlite3WalFrames with a list of pages in ascending order.  Frames of this
\* transaction that the log already holds start at first, when the private
\* header has moved past the shared one.
WalFrames(c, list, commit) ==
    /\ At(c, "write") /\ ~cn[c].w.failed
    /\ cn' = [cn EXCEPT
           ![c].w = [@ EXCEPT !.list = list, !.i = 1, !.app = <<>>, !.j = 1,
                              !.commit = commit,
                              !.first = IF cn[c].hdr # shm.h0 THEN shm.h0.mx + 1 ELSE 0],
           ![c].pc = IF READ(0) \in held[c].shared THEN "restart"
                     ELSE IF cn[c].hdr.mx = 0 THEN "whdr" ELSE "wframe"]
    /\ UNCHANGED <<files, shm, held, bounds>>

\* The cache is under pressure: one page goes to the log before the commit.
Spill(c, p) ==
    /\ p \in cn[c].dirty
    /\ cn[c].w.spills < use.spills
    /\ WalFrames(c, <<p>>, FALSE)

\* The dirty pages, or page 1 when all of them have been spilled.
Commit(c) ==
    /\ cn[c].w.tx > 0
    /\ \E p \in Page : cn[c].cache[p] \in {2 * cn[c].w.tx, 2 * cn[c].w.tx + 1}
    /\ WalFrames(c, IF cn[c].dirty = {} THEN <<PageLow>> ELSE Ascending(cn[c].dirty), TRUE)

\* walRestartHdr, for a writer and for a TRUNCATE checkpoint.
RestartHdr(me) == [me EXCEPT !.pc = "sh1", !.hdr.mx = 0, !.hdr.salt = NewSalt]

\* A mutant: readers of the log are not waited for.
RestartUnderReaders(c) ==
    /\ At(c, "restart")
    /\ IF shm.nBackfill > 0
       THEN LockX(c, READERS) /\ cn' = [cn EXCEPT ![c] = RestartHdr(@)]
       ELSE Goto(c, "unl0") /\ UNCHANGED held
    /\ UNCHANGED <<files, shm, bounds>>

(* walRestartLog: a writer that reads the database only may start the log  *)
(* over, if nobody reads the log.                                          *)
Restart(c) ==
    /\ At(c, "restart")
    /\ IF shm.nBackfill > 0 /\ CanExclude(READERS)
       THEN LockX(c, READERS) /\ cn' = [cn EXCEPT ![c] = RestartHdr(@)]
       ELSE Goto(c, "unl0") /\ UNCHANGED held
    /\ UNCHANGED <<files, shm, bounds>>

RestartHdr0(c) ==
    /\ At(c, "sh0")
    /\ shm' = [shm EXCEPT !.h0 = cn[c].hdr]
    /\ Goto(c, "sinfo")
    /\ UNCHANGED <<files, held, bounds>>

RestartInfo(c) ==
    /\ At(c, "sinfo")
    /\ shm' = [shm EXCEPT !.nBackfill = 0, !.attempted = 0,
                          !.mark = [i \in DOMAIN @ |-> IF i = 1 THEN 0 ELSE NotUsed]]
    /\ IF InCkpt(c)
       THEN Goto(c, "ktrunc") /\ UNCHANGED held
       ELSE Goto(c, "unl0") /\ FreeX(c, READERS)
    /\ UNCHANGED <<files, bounds>>

\* A mutant: READ(0) is kept.
KeepZero(c) ==
    /\ At(c, "unl0")
    /\ Goto(c, "pick")
    /\ UNCHANGED <<files, shm, held, bounds>>

UnlockZero(c) ==
    /\ At(c, "unl0")
    /\ FreeS(c)
    /\ Goto(c, "pick")
    /\ UNCHANGED <<files, shm, bounds>>

\* The header of the file.  Its salts are drawn again when nCkpt, a private
\* counter, is 0; always when there were none.
WriteWalHdr(c) ==
    /\ At(c, "whdr")
    /\ \E salt \in {NewSalt, cn[c].hdr.salt} \ {0} :
          /\ wal' = [wal EXCEPT !.salt = salt]
          /\ cn' = [cn EXCEPT ![c].pc = "wframe", ![c].hdr.salt = salt,
                              ![c].hdr.ck = HdrCk(salt)]
    /\ UNCHANGED <<db, shm, held, bounds>>

PutFrame(f, frame) ==
    IF f <= Len(wal.frames) THEN [wal EXCEPT !.frames[f] = frame]
                            ELSE [wal EXCEPT !.frames = Append(@, frame)]

\* One page of the list: over the frame this transaction already wrote for it,
\* leaving its checksum for later, or at the end of the log.
WriteFrame(c) ==
    /\ At(c, "wframe")
    /\ LET me   == cn[c]
           p    == me.w.list[me.w.i]
           last == me.w.i = Len(me.w.list)
           f    == FindFrame(p, me.min, me.hdr.mx)
           over == me.w.first > 0 /\ ~(last /\ me.w.commit) /\ f >= me.w.first
           new  == [page |-> p, val |-> me.cache[p], commit |-> last /\ me.w.commit,
                    salt |-> IF me.w.reck = 0 THEN me.hdr.salt ELSE 0,
                    prev |-> me.hdr.ck]
           reck == IF over /\ (me.w.reck = 0 \/ f < me.w.reck) THEN f ELSE me.w.reck
       IN  /\ wal' = IF over THEN [wal EXCEPT !.frames[f].val = me.cache[p]]
                             ELSE PutFrame(me.hdr.mx + Len(me.w.app) + 1, new)
           /\ cn' = [cn EXCEPT
                  ![c].w = [me.w EXCEPT !.i = me.w.i + 1, !.reck = reck,
                                        !.app = IF over THEN me.w.app ELSE Append(me.w.app, p)],
                  ![c].hdr.ck = IF over \/ me.w.reck > 0 THEN @ ELSE Cksum(new),
                  ![c].pc = IF ~last THEN "wframe"
                            ELSE IF me.w.commit /\ reck > 0 THEN "wreck" ELSE "windex"]
    /\ UNCHANGED <<db, shm, held, bounds>>

\* walRewriteChecksums from the first frame written over to the last.
RewriteChecksums(c) ==
    /\ At(c, "wreck")
    /\ LET me   == cn[c]
           last == me.hdr.mx + Len(me.w.app)
           good == [f \in DOMAIN wal.frames |->
                      IF f \in me.w.reck..last
                      THEN [wal.frames[f] EXCEPT
                              !.salt = me.hdr.salt,
                              !.prev = IF f = 1 THEN HdrCk(wal.salt)
                                       ELSE Cksum(wal.frames[f - 1])]
                      ELSE wal.frames[f]]
       IN  /\ wal' = [wal EXCEPT !.frames = good]
           /\ cn' = [cn EXCEPT ![c].hdr.ck = Cksum(good[last]), ![c].w.reck = 0,
                               ![c].pc = "windex"]
    /\ UNCHANGED <<db, shm, held, bounds>>

AppendIndex(c) ==
    /\ At(c, "windex")
    /\ cn[c].w.j <= Len(cn[c].w.app)
    /\ shm' = [shm EXCEPT !.pgno = IndexAppend(@, cn[c].hdr.mx, cn[c].hdr.mx + cn[c].w.j,
                                               cn[c].w.app[cn[c].w.j])]
    /\ cn' = [cn EXCEPT ![c].w.j = @ + 1]
    /\ UNCHANGED <<files, held, bounds>>

\* The private header takes the frames in.
CountFrames(c) ==
    /\ At(c, "windex")
    /\ cn[c].w.j > Len(cn[c].w.app)
    /\ cn' = [cn EXCEPT
           ![c].hdr.mx  = @ + Len(cn[c].w.app),
           ![c].hdr.chg = IF cn[c].w.commit THEN @ + 1 ELSE @,
           ![c].dirty   = @ \ {cn[c].w.list[i] : i \in DOMAIN cn[c].w.list},
           ![c].w = IF cn[c].w.commit THEN NoWrite
                    ELSE [NoWrite EXCEPT !.tx = cn[c].w.tx, !.spills = cn[c].w.spills + 1,
                                         !.reck = cn[c].w.reck],
           ![c].pc = IF cn[c].w.commit THEN "wh1" ELSE "write"]
    /\ UNCHANGED <<files, shm, held, bounds>>

CommitHdr0(c) ==
    /\ At(c, "wh0")
    /\ shm' = [shm EXCEPT !.h0 = cn[c].hdr]
    /\ Goto(c, "wend")
    /\ UNCHANGED <<files, held, bounds>>

\* sqlite3WalEndWriteTransaction; the read transaction goes on.
EndWrite(c) ==
    /\ At(c, "wend")
    /\ FreeX(c, {WRITE})
    /\ Goto(c, "read")
    /\ UNCHANGED <<files, shm, bounds>>

\* sqlite3WalUndo: the header goes back, the index forgets the frames, and the
\* pages of the transaction are read again.
Rollback(c) ==
    /\ At(c, "write")
    /\ LET iMax == cn[c].hdr.mx
           mx   == shm.h0.mx
           pgno == IF iMax = mx THEN shm.pgno ELSE CleanupHash(shm.pgno, mx)
           undone == cn[c].dirty \cup {shm.pgno[f] : f \in mx + 1..iMax}
           old(p) == IF READ(0) \in held[c].shared \/ mx = 0 THEN db[p]
                     ELSE ReadPage(p, LastOr0({f \in cn[c].min..mx : pgno[f] = p}))
       IN  /\ shm' = [shm EXCEPT !.pgno = pgno]
           /\ cn' = [cn EXCEPT ![c].hdr = shm.h0, ![c].dirty = {}, ![c].w = NoWrite,
                               ![c].pc = "read",
                               ![c].cache = [p \in Page |-> IF p \in undone THEN old(p)
                                                                           ELSE @[p]]]
    /\ FreeX(c, {WRITE})
    /\ UNCHANGED <<files, bounds>>

\* A write to the log fails: the transaction can only be rolled back.
FailWrite(c) ==
    /\ cn[c].pc \in {"whdr", "wframe", "wreck"}
    /\ nfault < use.faults
    /\ nfault' = nfault + 1
    /\ cn' = [cn EXCEPT ![c].pc = "write", ![c].w = [NoWrite EXCEPT !.failed = TRUE],
                        ![c].dirty = @ \cup {cn[c].w.list[i] : i \in DOMAIN cn[c].w.list}]
    /\ UNCHANGED <<files, shm, held, ntx, nck, use>>
-----------------------------------------------------------------------------
(* sqlite3WalCheckpoint: CKPT, for the stronger modes WRITE too (or fall   *)
(* back on PASSIVE), the header, then walCheckpoint.                       *)

Checkpoint(c, mode) ==
    /\ At(c, "idle")
    /\ c \in use.checkpointers
    /\ nck < use.ck
    /\ nck' = nck + 1
    /\ CanExclude({CKPT})
    /\ LockX(c, {CKPT})
    /\ cn' = [cn EXCEPT ![c].k.mode = mode,
                        ![c].pc = IF mode = "PASSIVE" THEN "header" ELSE "kwlock"]
    /\ UNCHANGED <<files, shm, ntx, nfault, use>>

LockWriter(c) ==
    /\ At(c, "kwlock")
    /\ IF CanExclude({WRITE})
       THEN LockX(c, {WRITE}) /\ Goto(c, "header")
       ELSE /\ cn' = [cn EXCEPT ![c].pc = "header", ![c].k.mode = "PASSIVE"]
            /\ UNCHANGED held
    /\ UNCHANGED <<files, shm, bounds>>

AfterCopy(c) == IF cn[c].k.mode = "TRUNCATE" THEN "kmode" ELSE "kfin"

StartCheckpoint(c) ==
    /\ At(c, "kstart")
    /\ cn' = [cn EXCEPT ![c] = IF shm.nBackfill < @.hdr.mx
                               THEN [@ EXCEPT !.pc = "kmark", !.k.safe = cn[c].hdr.mx]
                               ELSE [@ EXCEPT !.pc = AfterCopy(c)]]
    /\ UNCHANGED <<files, shm, held, bounds>>

\* A mutant: a mark that somebody reads at does not bound the safe frame.
MoveMarkOnly(c) ==
    /\ At(c, "kmark")
    /\ LET i    == cn[c].k.i
           free == cn[c].k.safe > shm.mark[i] /\ CanExclude({READ(i)})
       IN  /\ shm' = IF free THEN [shm EXCEPT !.mark[i] = IF i = 1 THEN cn[c].k.safe
                                                                  ELSE NotUsed]
                     ELSE shm
           /\ cn' = [cn EXCEPT ![c].k.i = IF i = NReader - 1 THEN 1 ELSE i + 1,
                               ![c].pc = IF i = NReader - 1 THEN "kiter" ELSE "kmark"]
    /\ UNCHANGED <<files, held, bounds>>

\* A mark below the safe frame is moved if nobody reads at it, and bounds the
\* safe frame if somebody does.
MoveMark(c) ==
    /\ At(c, "kmark")
    /\ LET i    == cn[c].k.i
           safe == cn[c].k.safe
           next == [cn[c] EXCEPT !.k.i = IF i = NReader - 1 THEN 1 ELSE i + 1,
                                 !.pc = IF i = NReader - 1 THEN "kiter" ELSE "kmark"]
       IN  IF safe <= shm.mark[i]
           THEN cn' = [cn EXCEPT ![c] = next] /\ UNCHANGED shm
           ELSE IF CanExclude({READ(i)})
           THEN /\ shm' = [shm EXCEPT !.mark[i] = IF i = 1 THEN safe ELSE NotUsed]
                /\ cn' = [cn EXCEPT ![c] = next]
           ELSE /\ cn' = [cn EXCEPT ![c] = [next EXCEPT !.k.safe = shm.mark[i]]]
                /\ UNCHANGED shm
    /\ UNCHANGED <<files, held, bounds>>

\* walIteratorInit: for each page in the log, its last frame.
StartIterator(c) ==
    /\ At(c, "kiter")
    /\ LET last == [p \in Page |-> FindFrame(p, 1, cn[c].hdr.mx)]
       IN  cn' = [cn EXCEPT ![c] =
                     IF shm.nBackfill < @.k.safe
                     THEN [@ EXCEPT !.pc = "kread0", !.k.todo = last]
                     ELSE [@ EXCEPT !.pc = AfterCopy(c), !.k.safe = 0]]
    /\ UNCHANGED <<files, shm, held, bounds>>

\* READ(0) keeps out those who read the database only.  Of the iterator, the
\* frames past nBackfill and not past the safe frame are copied.
LockDb(c) ==
    /\ At(c, "kread0")
    /\ IF CanExclude({READ(0)})
       THEN /\ LockX(c, {READ(0)})
            /\ shm' = [shm EXCEPT !.attempted = cn[c].k.safe]
            /\ cn' = [cn EXCEPT
                   ![c].k.todo = [p \in Page |->
                       IF @[p] > shm.nBackfill /\ @[p] <= cn[c].k.safe THEN @[p] ELSE 0],
                   ![c].pc = "kcopy"]
       ELSE /\ cn' = [cn EXCEPT ![c].pc = AfterCopy(c), ![c].k.safe = 0, ![c].k.todo = <<>>]
            /\ UNCHANGED <<shm, held>>
    /\ UNCHANGED <<files, bounds>>

\* walIteratorNext gives the pages in ascending order.
CopyPage(c) ==
    /\ At(c, "kcopy")
    /\ \E p \in Page :
          LET f == cn[c].k.todo[p]
          IN  /\ f > 0
              /\ \A q \in Page : q < p => cn[c].k.todo[q] = 0
              /\ f \in DOMAIN wal.frames
              /\ db' = [db EXCEPT ![p] = wal.frames[f].val]
              /\ cn' = [cn EXCEPT ![c].k.todo[p] = 0]
    /\ UNCHANGED <<wal, shm, held, bounds>>

FinishCopy(c) ==
    /\ At(c, "kcopy")
    /\ \A p \in Page : cn[c].k.todo[p] = 0
    /\ shm' = [shm EXCEPT !.nBackfill = cn[c].k.safe]
    /\ FreeX(c, {READ(0)})
    /\ cn' = [cn EXCEPT ![c].pc = AfterCopy(c), ![c].k.safe = 0, ![c].k.todo = <<>>]
    /\ UNCHANGED <<files, bounds>>

\* A failing write to the database, or an interrupt: nothing is counted.
FailCopy(c) ==
    /\ At(c, "kcopy")
    /\ \E p \in Page : cn[c].k.todo[p] > 0
    /\ nfault < use.faults
    /\ nfault' = nfault + 1
    /\ FreeX(c, {READ(0)})
    /\ cn' = [cn EXCEPT ![c].pc = "kfin", ![c].k.ok = FALSE,
                        ![c].k.safe = 0, ![c].k.todo = <<>>]
    /\ UNCHANGED <<files, shm, ntx, nck, use>>

\* TRUNCATE empties a log that nobody reads; RESTART only waits for that, so
\* without a busy handler it ends like FULL.
EndMode(c) ==
    /\ At(c, "kmode")
    /\ IF /\ shm.nBackfill >= cn[c].hdr.mx
          /\ CanExclude(READERS)
       THEN LockX(c, READERS) /\ cn' = [cn EXCEPT ![c] = RestartHdr(@)]
       ELSE Goto(c, "kfin") /\ UNCHANGED held
    /\ UNCHANGED <<files, shm, bounds>>

TruncateLog(c) ==
    /\ At(c, "ktrunc")
    /\ wal' = [salt |-> 0, frames |-> <<>>]
    /\ FreeX(c, READERS)
    /\ Goto(c, "kfin")
    /\ UNCHANGED <<db, shm, bounds>>

\* A header read anew is forgotten, so that the next transaction sees a change.
EndCheckpoint(c) ==
    /\ At(c, "kfin")
    /\ FreeX(c, {WRITE, CKPT})
    /\ cn' = [cn EXCEPT ![c] =
                 IF Exclusive(c)
                 THEN IF @.k.ok THEN [@ EXCEPT !.pc = "delete"] ELSE Fresh("closed")
                 ELSE [@ EXCEPT !.pc = "idle", !.chg = FALSE, !.k = NoCkpt,
                                !.hdr = IF cn[c].chg THEN ZeroHdr ELSE cn[c].hdr]]
    /\ UNCHANGED <<files, shm, bounds>>

(* sqlite3WalClose: the last connection takes the EXCLUSIVE lock on the    *)
(* database, checkpoints without WAL locks (nobody is left to hold any)    *)
(* and deletes both files; the others just leave.                          *)
Close(c) ==
    /\ At(c, "idle")
    /\ c \in use.closers
    /\ cn' = [cn EXCEPT ![c] = IF \E d \in Conn \ {c} : Attached(d)
                               THEN Fresh("closed")
                               ELSE [@ EXCEPT !.pc = "header", !.k.mode = "CLOSE"]]
    /\ UNCHANGED <<files, shm, held, bounds>>

DeleteLog(c) ==
    /\ At(c, "delete")
    /\ wal' = [salt |-> 0, frames |-> <<>>]
    /\ shm' = ZeroShm
    /\ cn' = [cn EXCEPT ![c] = Fresh("closed")]
    /\ UNCHANGED <<db, held, bounds>>

\* The process of c dies: its locks go, what it wrote stays.
Die(c) ==
    /\ Attached(c)
    /\ nfault < use.faults
    /\ cn[c].pc \in {"sh0", "sinfo"} => use.restartDies
    /\ nfault' = nfault + 1
    /\ held' = [held EXCEPT ![c] = [excl |-> {}, shared |-> {}]]
    /\ cn' = [cn EXCEPT ![c] = Fresh("closed")]
    /\ UNCHANGED <<files, shm, ntx, nck, use>>
-----------------------------------------------------------------------------
\* What the library does on its own once an operation was started.
Step(c) ==
    \/ TryHdr(c) \/ LockHdr(c) \/ TryHdrAgain(c)
    \/ RecoverLock(c) \/ RecoverScan(c) \/ WriteHdr1(c) \/ RecoverHdr0(c) \/ RecoverInfo(c)
    \/ PickZero(c) \/ CheckZero(c) \/ PickMark(c) \/ RaiseMark(c) \/ ShareMark(c)
    \/ SetMin(c) \/ CheckMark(c)
    \/ CheckWrite(c) \/ Restart(c) \/ RestartHdr0(c) \/ RestartInfo(c) \/ UnlockZero(c)
    \/ WriteWalHdr(c) \/ WriteFrame(c) \/ RewriteChecksums(c) \/ AppendIndex(c)
    \/ CountFrames(c) \/ CommitHdr0(c) \/ EndWrite(c)
    \/ LockWriter(c) \/ StartCheckpoint(c) \/ MoveMark(c) \/ StartIterator(c)
    \/ LockDb(c) \/ CopyPage(c) \/ FinishCopy(c) \/ EndMode(c) \/ TruncateLog(c)
    \/ EndCheckpoint(c) \/ DeleteLog(c)

\* What the application asks for.
Call(c) ==
    \/ Open(c) \/ Close(c) \/ BeginRead(c) \/ EndRead(c)
    \/ BeginWrite(c) \/ Commit(c) \/ Rollback(c)
    \/ \E S \in SUBSET Page \ {{}} : Update(c, S)
    \/ \E p \in Page : Spill(c, p)
    \/ \E m \in use.modes : Checkpoint(c, m)

Fault(c) == FailWrite(c) \/ FailCopy(c) \/ Die(c)

Next == \E c \in Conn : Step(c) \/ Call(c) \/ Fault(c)

Spec == Init /\ [][Next]_vars

\* What was started goes on; what the application asks for next is its own affair.
FairSpec == Spec /\ \A c \in Conn : WF_vars(Step(c))
-----------------------------------------------------------------------------
(* The database the log stands for. *)

Recovering == {"hdrtry", "recover", "rscan", "rh1", "rh0", "rinfo"}
Writing(c) == Has(c, WRITE) /\ ~InCkpt(c) /\ cn[c].pc \notin Recovering \cup {"wchk", "wend"}
InTx(c)    == cn[c].pc \in {"read", "wchk", "wend"} \/ Writing(c)

\* The image of the wal-index: of each page its last frame up to mxFrame.
LiveImage ==
    [p \in Page |-> ReadPage(p, FindFrame(p, shm.nBackfill + 1, shm.h0.mx))]

\* The image a recovery finds: of each page its last frame before the last
\* commit record whose checksums are right.
RecoveredImage ==
    LET upto[end \in 0..MaxFrame] ==
            [p \in Page |-> ReadPage(p, LastOr0({f \in 1..end : wal.frames[f].page = p}))]
    IN  upto[RecoverFrame]

\* The wal-index counts once the first copy of its header was written.  While
\* the copies differ, the older is still what those see who have read it, and
\* what the second one tells of comes out with the recovery.
IndexCounts == shm.h0.init

Committed == IF IndexCounts THEN LiveImage ELSE RecoveredImage
Doubt     == IF IndexCounts /\ RecoveredImage # LiveImage THEN RecoveredImage ELSE None
Views     == [c \in Conn |-> IF InTx(c) THEN cn[c].cache ELSE None]
Writer    == IF \E c \in Conn : Writing(c) THEN CHOOSE c \in Conn : Writing(c) ELSE None

Db == INSTANCE SnapDb WITH committed <- Committed, doubt <- Doubt, view <- Views,
                           writer <- Writer
-----------------------------------------------------------------------------
(* Properties. *)

\* The wal-index holds only what its fields can hold, a connection is at a
\* control location of the code, and the locks are byte ranges of the file.
TypeOK ==
    /\ db \in [Page -> Value]
    /\ shm.nBackfill \in 0..MaxFrame /\ shm.attempted \in 0..MaxFrame
    /\ \A i \in 1..NReader - 1 : shm.mark[i] \in 0..NotUsed
    /\ \A f \in 1..MaxFrame : shm.pgno[f] \in Page \cup {0}
    /\ Len(wal.frames) <= MaxFrame
    /\ \A c \in Conn : held[c].excl \subseteq 0..READ(NReader - 1)
                      /\ Cardinality(held[c].shared) <= 1

\* A read transaction sees the image it began with, whatever is committed,
\* checkpointed, restarted or recovered meanwhile: what the database file, the
\* log and the wal-index hold for it of a page it did not change is what it has
\* in its cache, pages it kept from earlier transactions included
\* (sqlite3WalFindFrame, walTryBeginRead).
SnapshotHolds ==
    \A c \in Conn :
        (InTx(c) /\ cn[c].pc \in {"read", "wchk", "write", "whdr", "wframe", "wreck",
                                  "windex", "wh1", "wh0", "wend"})
            => \A p \in Page \ cn[c].dirty : cn[c].cache[p] = View(c, p)

\* "The nBackfill number is never greater than WalIndexHdr.mxFrame" (the comment
\* over struct WalCkptInfo), while nobody is in the middle of changing the two.
BackfillWithinLog ==
    (HdrReadable /\ \A c \in Conn : cn[c].pc \notin {"sinfo", "rinfo"})
        => shm.nBackfill <= shm.h0.mx

\* A mark does not change while a connection keeps the shared lock on it: not by
\* a reader that looks for a mark, a checkpoint, a restart of the log, a recovery,
\* or whoever attaches first after a death (walTryBeginRead, walCheckpoint,
\* walRestartHdr, walIndexRecover).
MarksStay ==
    [][\A c \in Conn : \A i \in 1..NReader - 1 :
          (READ(i) \in held[c].shared /\ READ(i) \in held'[c].shared)
              => shm'.mark[i] = shm.mark[i]]_vars

\* What an open read transaction reads from stays as it is: the frames up to the end
\* of its snapshot and their entries in the index, or the database file if it ignores
\* the log.  Nobody appends over them, starts the log over, truncates, recovers or
\* checkpoints under it, whoever died before (walTryBeginRead, walFrames,
\* walRestartHdr, sqlite3WalUndo, walIndexRecover, walCheckpoint).
Reading == {"read", "wchk"}
ReadsStay ==
    [][\A c \in Conn :
          (cn[c].pc \in Reading /\ cn'[c].pc \in Reading)
              => IF READ(0) \in held[c].shared
                 THEN db' = db
                 ELSE \A f \in 1..cn[c].hdr.mx :
                          wal'.frames[f] = wal.frames[f] /\ shm'.pgno[f] = shm.pgno[f]]_vars

\* What an open read transaction would read of a page that is not in its cache is the
\* same all the time it is open, wherever it lies: a checkpoint that moves pages from
\* the log to the database file moves none that are newer than the snapshot, and none
\* that the reader, who looks from its own first frame on, would not find in the log
\* (sqlite3WalFindFrame, walTryBeginRead, walCheckpoint).
ViewStays ==
    [][\A c \in Conn : (cn[c].pc \in Reading /\ cn'[c].pc \in Reading)
                          => ViewImage(c)' = ViewImage(c)]_vars

\* A checkpoint goes no further than the log that the wal-index tells of.  It may
\* after a writer has started the log over between the moment it read the header
\* and the moment it reads nBackfill (sqlite3WalCheckpoint, walRestartLog),
\* and then ViewStays may fail.
CheckpointWithinLog == \A c \in Conn : cn[c].k.safe <= shm.h0.mx

\* A read transaction that is begun comes to be open, or is refused, in spite of
\* the retries of walTryBeginRead, while nobody dies or empties the log at will.
Beginning == {"header", "hdrlock", "hdrtry", "recover", "rscan", "rh1", "rh0", "rinfo",
              "pick0", "chk0", "pick", "excl", "share", "min", "chk"}
BeginEnds ==
    \A c \in Conn :
        (use.faults = 0 /\ cn[c].pc \in Beginning) ~> cn[c].pc \notin Beginning

\* Transactions are what SnapDb promises: one image each, one writer, commits
\* that come whole and last, a death or a failing write that loses nothing.
ImplSnapDb == Db!Spec
=============================================================================
