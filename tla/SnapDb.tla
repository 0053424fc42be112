------------------------------- MODULE SnapDb -------------------------------
(***************************************************************************)
(* What the write-ahead log of SQLite promises to the connections of a     *)
(* database: every transaction reads one committed image, one writer at a  *)
(* time, which starts from the newest image, and a commit that shows all   *)
(* of the writer's pages at once.  A commit record that reached the log    *)
(* before its writer died is in doubt: it may surface later, whole, as     *)
(* long as nothing was committed over it.  Wal.tla implements it.          *)
(***************************************************************************)
CONSTANTS Conn, Page, Value,
          None            \* no image, no connection

VARIABLES
    committed,      \* the image a new transaction reads
    doubt,          \* the image in doubt, or None
    view,           \* view[c]: the image c reads, its own writes included, or None
    writer          \* the connection that may write, or None

vars == <<committed, doubt, view, writer>>

Image == [Page -> Value]

Init ==
    /\ committed \in Image
    /\ doubt = None
    /\ view = [c \in Conn |-> None]
    /\ writer = None

Begin(c) ==
    /\ view[c] = None
    /\ view' = [view EXCEPT ![c] = committed]
    /\ UNCHANGED <<committed, doubt, writer>>

\* Only a connection whose snapshot is the newest image may become the writer.
Upgrade(c) ==
    /\ writer = None
    /\ view[c] = committed
    /\ writer' = c
    /\ UNCHANGED <<committed, doubt, view>>

Write(c) ==
    /\ writer = c
    /\ view'[c] \in Image
    /\ view' = [view EXCEPT ![c] = view'[c]]
    /\ UNCHANGED <<committed, doubt, writer>>

\* The whole of the writer's image, and nothing else, can come to be in doubt.
Flush(c) ==
    /\ writer = c
    /\ doubt' = view[c]
    /\ UNCHANGED <<committed, view, writer>>

Commit(c) ==
    /\ writer = c
    /\ committed' = view[c]
    /\ doubt' = None
    /\ writer' = None
    /\ UNCHANGED view

Rollback(c) ==
    /\ writer = c
    /\ view' = [view EXCEPT ![c] = committed]
    /\ writer' = None
    /\ doubt' \in {doubt, None}
    /\ UNCHANGED committed

Discard ==
    /\ doubt' = None
    /\ UNCHANGED <<committed, view, writer>>

\* A commit in doubt surfaces once its writer is gone.
Surface ==
    /\ writer = None
    /\ doubt # None
    /\ committed' = doubt
    /\ doubt' = None
    /\ UNCHANGED <<view, writer>>

\* End of a transaction, or of the process that runs it.
Leave(c) ==
    /\ view[c] # None
    /\ view' = [view EXCEPT ![c] = None]
    /\ writer' = IF writer = c THEN None ELSE writer
    /\ \/ UNCHANGED <<committed, doubt>>
       \/ /\ writer = c
          /\ doubt # None
          /\ committed' = doubt
          /\ doubt' = None

Next ==
    \/ Discard
    \/ Surface
    \/ \E c \in Conn :
          \/ Begin(c) \/ Upgrade(c) \/ Write(c) \/ Flush(c)
          \/ Commit(c) \/ Rollback(c) \/ Leave(c)

Spec == Init /\ [][Next]_vars
=============================================================================
