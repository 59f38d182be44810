\* Two replicas, two keys and two authorizations; a life of two ticks at most.
SPECIFICATION Spec
CONSTANTS
    k1 = k1
    k2 = k2
    r1 = r1
    r2 = r2
    Kids = {k1, k2}
    Replicas = {r1, r2}
    Documents <- MCDocuments
    Windows <- MCWindows
    MaxLifetime = 2
    ClockSkew = 1
    MaxIssued = 2
    MaxTime = 5
SYMMETRY Symmetry
INVARIANTS
    RotationSeamless
    RevocationCutsOff
    AcceptanceBounded
