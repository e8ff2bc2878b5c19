\* A shred that loops keeps the lock: nothing can happen any more.
SPECIFICATION FairSpec
PROPERTY AbortEndsRunaway
CHECK_DEADLOCK FALSE
