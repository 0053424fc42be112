----------------------------- MODULE MCMCSLock -----------------------------
(* Model checking of MCSLock, and the refinement of FifoLock by MCSLock.     *)
EXTENDS MCSLock

FL == INSTANCE FifoLock WITH inside <- {t \in Threads : Holds(t)}

(* The MCS lock is a first-come-first-served lock, the order being that of the
   exchanges on head, and every thread that asks gets it.                   *)
ImplementsFifoLock == FL!FSpec

=============================================================================
