------------------------- MODULE MCMemoryReplayGuard --------------------------
EXTENDS MemoryReplayGuard, TLC

CONSTANTS r1, r2, r3, r4, a1, a2, a3

MCNotBefore == [a \in Auths |-> IF a = a3 THEN 2 ELSE 1]
MCExpiresAt == [a \in Auths |-> IF a = a1 THEN 3 ELSE 4]

Symmetry == Permutations(Requests)
===============================================================================
