CONSTANTS
    a = a
    b = b
    r1 = r1
    r2 = r2
    r3 = r3
    c1 = c1
    Sessions = {a, b}
    FirstPort = 2000
    LastPort = 2000
    Relays = {r1, r2, r3}
    Clients = {c1}
    Strangers = {}

SPECIFICATION Spec
SYMMETRY Symmetry

INVARIANT PoolPartition
INVARIANT ListenersOwnTheirPort

CHECK_DEADLOCK FALSE
