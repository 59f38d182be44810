---------------------------- MODULE MCTrustedKeySet ------------------------------
(* Rotation from k1 to k2 through retiring, revocation of k1, and files in which    *)
(* each check of the parser fails.                                                  *)
EXTENDS TrustedKeySet, TLC

CONSTANTS k1, k2, r1, r2

Entry(k, s, from, until) ==
    [kid |-> k, status |-> s, not_before |-> from, verify_until |-> until, sound |-> TRUE]
Doc(g, entries) == [readable |-> TRUE, generation |-> g, keys |-> entries]

MCDocuments ==
    {Doc(1, <<Entry(k1, "active", 0, 3)>>),
     Doc(2, <<Entry(k1, "active", 0, 3), Entry(k2, "active", 1, 5)>>),
     Doc(2, <<Entry(k1, "revoked", 0, 3), Entry(k2, "active", 1, 5)>>),
     Doc(3, <<Entry(k1, "retiring", 0, 3), Entry(k2, "active", 1, 5)>>),
     Doc(3, <<Entry(k2, "active", 1, 5)>>),
     Doc(3, <<Entry(k2, "active", 1, 5), Entry(k1, "revoked", 0, 3)>>),
     Doc(3, <<Entry(k1, "active", 0, 3), Entry(k1, "revoked", 0, 3)>>),
     Doc(2, <<Entry(k1, "retiring", 0, 3)>>),
     Doc(2, <<Entry(k1, "active", 3, 3)>>),
     Doc(2, <<>>), Doc(0, <<Entry(k1, "active", 0, 3)>>),
     [Doc(2, <<Entry(k1, "active", 0, 3)>>) EXCEPT !.readable = FALSE],
     [Doc(2, <<Entry(k1, "active", 0, 3)>>) EXCEPT !.keys[1].sound = FALSE]}

MCWindows == {<<0, 2>>, <<1, 3>>, <<1, 1>>}

Symmetry == Permutations(Replicas)
===============================================================================
