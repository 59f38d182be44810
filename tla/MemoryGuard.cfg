\* Four calls, three authorizations, room for two, across their expiries.
SPECIFICATION Spec
CONSTANTS
    r1 = r1
    r2 = r2
    r3 = r3
    r4 = r4
    a1 = a1
    a2 = a2
    a3 = a3
    Requests = {r1, r2, r3, r4}
    Auths = {a1, a2, a3}
    NotBefore <- MCNotBefore
    ExpiresAt <- MCExpiresAt
    ClockSkew = 1
    MaxEntries = 2
    MaxTime = 5
SYMMETRY Symmetry
PROPERTIES
    FullHasCause
    ImplementsLedger
