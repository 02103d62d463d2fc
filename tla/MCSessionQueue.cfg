CONSTANTS
    s1 = s1
    s2 = s2
    s3 = s3
    s4 = s4
    Sessions = {s1, s2, s3, s4}
    MaxConcurrent = 2
    Priorities <- MCPriorities

SPECIFICATION FairQueueSpec

INVARIANT SlotConservation
INVARIANT NoIdleSlot
INVARIANT OneIsNext

PROPERTY ImplementsLine
PROPERTY UploadGranted
