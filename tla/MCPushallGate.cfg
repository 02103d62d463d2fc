CONSTANTS
    s1 = s1
    s2 = s2
    s3 = s3
    Snapshots = {s1, s2, s3}
    MaxRequests = 4

SPECIFICATION FairSpec

INVARIANT AtMostOne
INVARIANT GateHasOwner

PROPERTY ReAskable
