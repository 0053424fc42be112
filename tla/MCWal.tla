------------------------------- MODULE MCWal -------------------------------
(***************************************************************************)
(* A database of two pages and two connections under a write-ahead log,    *)
(* used in a few ways, each with its own bounds.                           *)
(***************************************************************************)
EXTENDS Wal

CONSTANTS c1, c2

const_Conn == {c1, c2}
const_Page == {1, 2}

Used(writers, checkpointers, closers, modes, tx, ck, spills, faults) ==
    [writers |-> writers, checkpointers |-> checkpointers, closers |-> closers,
     modes |-> modes, tx |-> tx, ck |-> ck, spills |-> spills, faults |-> faults,
     restartDies |-> FALSE]

const_Use == {
    \* one application writes and checkpoints, the other reads; both come and go
    Used({c1}, {c1}, {c1, c2}, {"PASSIVE"}, 1, 1, 0, 1),
    \* the checkpoint empties the log
    Used({c1}, {c1}, {}, {"TRUNCATE"}, 1, 1, 0, 1),
    \* the writer starts the log over
    Used({c1}, {c1}, {}, {"PASSIVE"}, 2, 1, 0, 0),
    \* two writers
    Used({c1, c2}, {}, {}, {}, 2, 0, 0, 0),
    \* one writes while the other checkpoints
    Used({c1}, {c2}, {}, {"PASSIVE"}, 1, 1, 0, 1),
    \* pages go to the log before the commit
    Used({c1}, {}, {c1, c2}, {}, 1, 0, 1, 1),
    \* two deaths in a row, recoveries that die among them
    Used({c1}, {}, {c1, c2}, {}, 1, 0, 0, 2) }

\* A writer may start the log over while the other checkpoints.
const_UseReset == { Used({c1}, {c2}, {}, {"PASSIVE"}, 2, 2, 0, 0) }

\* The same with a page that goes to the log before the commit.
const_UseResetSpill == { Used({c1}, {c2}, {}, {"PASSIVE"}, 2, 2, 1, 0) }
=============================================================================
