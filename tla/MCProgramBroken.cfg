CONSTANTS
    Keys = {k1, k2, k3, k4}
    Addresses = {a1}
    Absent = Absent
    Torn = Torn

SPECIFICATION FairSpec

PROPERTY Restarted
