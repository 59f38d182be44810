------------------------- MODULE MCMemoryRateLimiter --------------------------
EXTENDS MemoryRateLimiter, TLC

CONSTANTS k1, k2, k3

Symmetry == Permutations(Keys)
===============================================================================
