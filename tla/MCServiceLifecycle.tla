-------------------------- MODULE MCServiceLifecycle ---------------------------
(* Every configuration at fault in at most one way that the factories refuse.  Of   *)
(* those that can serve, every deployed one, and one for each choice of parts that  *)
(* a development worker is built of.                                                *)
EXTENDS ServiceLifecycle

CONSTANTS c1, t1, t2

Refused(e) == \/ build_runtime_authorization_verifier(e) = "refused"
              \/ _build_rate_limiter(e) = "refused"

MCEnvironments ==
    {e \in AllEnvironments :
        /\ Cardinality(e.defects) <= 1
        /\ e.handles \/ (e.deployed /\ e.defects = {})
        /\ \/ e.deployed \/ Refused(e)
           \/ e.defects = {} /\ e.redis \in {"unset", "redis"}}
===============================================================================
