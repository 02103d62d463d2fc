CONSTANTS
    s1 = s1
    s2 = s2
    Sessions = {s1, s2}
    MaxConcurrent = 1
    Priorities <- MCOnePriority

SPECIFICATION FairSpec

INVARIANT NoOrphanAcquire
INVARIANT PrinterLimit

PROPERTY UsesQueue
PROPERTY DeadClientLeaves
PROPERTY StopReturns

CHECK_DEADLOCK FALSE
