CONSTANTS
    a = a
    r1 = r1
    c1 = c1
    c2 = c2
    x1 = x1
    Sessions = {a}
    FirstPort = 2000
    LastPort = 2000
    Relays = {r1}
    Clients = {c1, c2}
    Strangers = {x1}

SPECIFICATION FairSpec

INVARIANT OneSplicePerRelay
INVARIANT EndpointStillOpen
INVARIANT PortsHaveKeepers

PROPERTY PortReturns
PROPERTY PoolRefills

CHECK_DEADLOCK FALSE
