CONSTANTS
    MaxUnits = 3
    BufferLimit = 1

SPECIFICATION FairTransferSpec

INVARIANT NeverTruncated
INVARIANT NoUndueReset
INVARIANT CommitIsWaitedFor

PROPERTY PipeEnds
PROPERTY TransferEnds

CHECK_DEADLOCK FALSE
