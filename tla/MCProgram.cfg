CONSTANTS
    Keys = {k1, k2, k3, k4}
    Addresses = {a1}
    Absent = Absent
    Torn = Torn

SPECIFICATION FairSpec

INVARIANT PairTrusted
INVARIANT LeavesNothing

PROPERTY AuthorityKept
PROPERTY SignalEnds
PROPERTY RestartedIfRead
PROPERTY Discoverable
