\* Overlapping, failing and resent calls; the key may be found without a TTL.
SPECIFICATION Spec
CONSTANTS
    k1 = k1
    k2 = k2
    c1 = c1
    c2 = c2
    c3 = c3
    c4 = c4
    Calls = {c1, c2, c3}
    Keys = {k1}
    MaxRequests = 2
    Window = 2
    MaxResends = 1
    Strays = {1, 2}
    MaxTime = 4
SYMMETRY Symmetry
INVARIANTS
    CounterAlwaysExpires
    BlockedIsCounted
    AtMostTwoWindows
PROPERTIES
    ImplementsFixedWindow
