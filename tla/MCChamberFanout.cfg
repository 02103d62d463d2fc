CONSTANTS
    a1 = a1
    a2 = a2
    Addresses = {a1, a2}
    AddressOf <- TwoAddresses
    QueueSize = 2
    Nobody = Nobody

SPECIFICATION FairSpec

INVARIANT Told
INVARIANT TableIsRight

PROPERTY StopReturns

CHECK_DEADLOCK FALSE
