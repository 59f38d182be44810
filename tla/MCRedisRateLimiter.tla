-------------------------- MODULE MCRedisRateLimiter --------------------------
EXTENDS RedisRateLimiter, TLC

CONSTANTS k1, k2, c1, c2, c3, c4

Symmetry == Permutations(Calls)
===============================================================================
