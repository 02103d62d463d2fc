CONSTANTS
    c1 = c1
    c2 = c2
    Clients = {c1, c2}
    QueueSize = 2
    MaxReports = 3

SPECIFICATION Spec
SYMMETRY Symmetry

INVARIANT NeverLeftBehind
INVARIANT NeverPartial
INVARIANT NeverExposed

PROPERTY NoRegress
PROPERTY NoGap
