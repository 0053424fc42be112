\* Three threads, any number of acquisitions.
SPECIFICATION FairSpec
CONSTANTS Threads = {t1, t2, t3}
          NULL = NULL
INVARIANTS MutualExclusion HandsOverToAWaiter
PROPERTIES NoStarvation ImplementsFifoLock
