\* Three keys for two entries, across the boundaries of three windows.
SPECIFICATION Spec
CONSTANTS
    k1 = k1
    k2 = k2
    k3 = k3
    Keys = {k1, k2, k3}
    MaxRequests = 2
    Window = 2
    MaxTrackedKeys = 2
    MaxCalls = 7
    MaxTime = 4
SYMMETRY Symmetry
INVARIANTS
    TypeOK
    AtMostTwoWindows
    RefusalEarned
PROPERTIES
    ImplementsFixedWindow
